SPECIFICATION SimSpec
CONSTANTS
  SimWindow = 2
  DefaultGap = 3
  LossPackets = 6
  BurstStart = 1
  BurstSizes <- MCBurstSizes
  DropPositions = {1, 3}
  DuplicatePositions = {0, 2, 4}
  PhasePackets = 2
  JitterPackets = 4
  SendInterval = 2
  BaseDelay = 4
  JitterLevels <- MCJitterLevels
  ReorderWindows <- MCReorderWindows
  BatchSize = 3
  NewerPackets = 2
  SequenceJump = 10
  Background = bg
  MainThread = main
  Callers = {main}
  CallbackMode = "log"
  MaxAge = 5
  MaxPackets = 2
  MaxRotations = 2
  ManualPackets = 2
INVARIANTS
  LossReportsTrue
  OrderReportsTrue
  AttackVerdictsEarned
  RotationReportTrue
PROPERTY ProgramsFinish
CHECK_DEADLOCK FALSE
