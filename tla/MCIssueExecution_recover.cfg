SPECIFICATION FairSpec
CONSTANTS
  Runs = {1, 2, 3, 4}
  Agents = {a1, a2}
  LocalAgents = {a1, a2}
  Issues = {i1}
  MaxConcurrent = 1
  Reapers = {p1}
  Faults = {"crash", "reconcile"}
  MaxCrashes = 1
  None = None
INVARIANTS RetryOnce
PROPERTIES RunsEnd
CHECK_DEADLOCK FALSE
