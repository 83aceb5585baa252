SPECIFICATION Spec
CONSTANTS
  Background = background
  Callers = {}
  CallbackMode = "log"
  MaxAge = 1
  MaxPackets = 2
  MaxRotations = 1
  QueueSize = 1
  MaxSeq = 3
PROPERTIES
  Reestablished
CHECK_DEADLOCK FALSE
