SPECIFICATION Spec
CONSTANTS
  Background = background
  pitwall = pitwall
  Callers = {pitwall}
  CallbackMode = "rehandshake"
  MaxAge = 1
  MaxPackets = 1
  MaxRotations = 1
  QueueSize = 1
  MaxSeq = 1
PROPERTIES
  Reestablished
  CountBounded
  StopsCompletely
CHECK_DEADLOCK FALSE
