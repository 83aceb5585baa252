SPECIFICATION Spec
CONSTANTS
  NodeIds <- MCNodeIds
  Roles = {"relay", "guest"}
  ConfigNodes <- MCConfigNodes
  PolicyFiles <- MCPolicyFiles
  DefaultPolicy <- MCDefaultPolicy
  None = None
  sim = sim
  t1 = t1
  t2 = t2
  Sim = sim
  Threads = {sim, t1, t2}
  ServiceRequests <- MCServiceRequests
  AlertThreshold = 2
  LogToFile = TRUE
  MaxEvents = 4
  MaxRegistryChanges = 1
INVARIANTS
  AllowedWhileActive
  AlertsJustified
  StreaksAlerted
  VerdictsEarned
SYMMETRY ThreadSymmetry
CHECK_DEADLOCK FALSE
