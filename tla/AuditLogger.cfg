SPECIFICATION Spec
CONSTANTS
  t1 = t1
  t2 = t2
  dashboard = dashboard
  Threads = {t1, t2}
  Readers = {dashboard}
  LogToFile = TRUE
  MaxEvents = 3
INVARIANTS
  EveryEventAccountedFor
  FileOrderPerThread
  SummaryCovers
