SPECIFICATION Spec
CONSTANTS
  Runs = {1, 2, 3}
  Agents = {a1, a2}
  LocalAgents <- NoLocalAgent
  Issues = {i1}
  MaxConcurrent = 1
  Reapers = {p1}
  Faults = {"cancel"}
  MaxCrashes = 0
  None = None
SYMMETRY AgentSymmetry
INVARIANTS OneActivePath DeferredIsHeld MergedIntoOwn
CHECK_DEADLOCK FALSE
