SPECIFICATION Spec
CONSTANTS
  mercedes = mercedes
  Nodes = {mercedes}
  Seqs = {0, 1, 2}
  ka = ka
  SignKeys = {ka}
  NoKey = NoKey
  Pending = Pending
  SignerOf <- MCSignerOf
  CheckSignatures = TRUE
  StrictOrdering = TRUE
  MaxSequenceGap = 1
  Window = 1
  Speed = Speed
  Channels = {Speed}
  Readings = {1, 9}
  PhysicalLimits <- MCPhysicalLimits
  Thresholds <- MCThresholds
  RocLimits <- MCRocLimits
  Frames <- MCFrames
  MaxSeq = 2
  MaxAtRelay = 4
  MaxAtValidator = 3
  MaxResets = 1
  MaxSetups = 3
INVARIANTS
  RecordedWereForwarded
PROPERTIES
  ImplementsLog
CHECK_DEADLOCK FALSE
