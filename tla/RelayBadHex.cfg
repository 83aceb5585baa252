SPECIFICATION Spec
CONSTANTS
  mercedes = mercedes
  Nodes = {mercedes}
  k1 = k1
  k2 = k2
  SessionKeys = {k1, k2}
  ka = ka
  SignKeys = {ka}
  NoKey = NoKey
  Pending = Pending
  Speed = Speed
  RPM = RPM
  Channels = {Speed, RPM}
  Readings = {1, 4, 5}
  PhysicalLimits <- MCPhysicalLimits
  Thresholds <- MCThresholds
  RocLimits <- MCRocLimits
  RawPackets <- MCRawPackets
  Seqs = {0, 1, 2, 3}
  Times = {0, 1, 2}
  CheckTimestamps = TRUE
  CheckSignatures = TRUE
  MaxTimestampAge = 0
  Window = 1
  MaxReceived = 3
  MaxResets = 1
INVARIANTS
  ForwardedOrDropped
