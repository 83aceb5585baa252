SPECIFICATION Spec
CONSTANTS
  Background = background
  Callers = {}
  CallbackMode = "rehandshake"
  MaxAge = 1
  MaxPackets = 2
  MaxRotations = 2
  QueueSize = 2
  MaxSeq = 4
INVARIANTS
  
  CountCoversKey
  RotationLogTrue
  KeysAgree
PROPERTIES
  SentInOrder
CHECK_DEADLOCK FALSE
