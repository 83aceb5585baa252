SPECIFICATION Spec
CONSTANTS
  mercedes = mercedes
  redbull = redbull
  Nodes = {mercedes, redbull}
  k1 = k1
  k2 = k2
  SessionKeys = {k1, k2}
  ka = ka
  kb = kb
  SignKeys = {ka, kb}
  NoKey = NoKey
  Packets <- MCPackets
  Seqs = {0, 1, 2, 3, 4}
  Times = {0, 1, 2}
  StrictOrdering = TRUE
  CheckTimestamps = TRUE
  MaxTimestampAge = 0
  MaxSequenceGap = 1
  FutureSlack = 0
  Window = 2
  MaxChecks = 0
  MaxReceived = 3
INVARIANTS
  WindowHoldsRecent
  
  AuditAgreesWithStats
  StagesAgree
  
PROPERTIES
  RejectionsLeaveNoTrace
