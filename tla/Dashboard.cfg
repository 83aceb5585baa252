SPECIFICATION Spec
CONSTANTS
  RecentCap = 2
  AuditCap = 1
  PanelCap = 2
  ChartCap = 2
  HistoryCap = 1
  NoPacket = NoPacket
  BatchSize = 2
  MaxResets = 2
  MaxWork = 5
INVARIANTS
  AttacksBlocked
  
  HistoriesBounded
PROPERTIES
  SavedRunsSettle
CHECK_DEADLOCK FALSE
