SPECIFICATION Spec
CONSTANTS
  Runs = {1, 2, 3}
  Agents = {a1, a2}
  LocalAgents <- NoLocalAgent
  Issues = {i1, i2}
  MaxConcurrent = 1
  Reapers = {p1}
  Faults = {"crash"}
  MaxCrashes = 1
  None = None
INVARIANTS OneExecutor
PROPERTIES EndedStaysEnded ImplementsPool
CHECK_DEADLOCK FALSE
