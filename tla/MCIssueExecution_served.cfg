SPECIFICATION FairSpec
CONSTANTS
  Runs = {1, 2}
  Agents = {a1, a2}
  LocalAgents <- NoLocalAgent
  Issues = {i1}
  MaxConcurrent = 1
  Reapers = {p1}
  Faults = {"cancel", "pause"}
  MaxCrashes = 0
  None = None
PROPERTIES DeferredServed
CHECK_DEADLOCK FALSE
