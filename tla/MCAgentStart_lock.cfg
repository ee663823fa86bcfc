SPECIFICATION Spec
CONSTANTS
  Runs = {1, 2}
  a1 = a1
  Agents = {a1}
  AgentOf <- OneAgent
  Calls = {c1, c2, c3}
  Spare = 1
  MaxConcurrent = 1
  Passes = {p1}
  LocalChildren = TRUE
  MaxBlocks = 1
  MaxCrashes = 1
  NoCall = NoCall
SYMMETRY CallSymmetry
INVARIANTS TypeOK MaxConcurrentRespected
PROPERTIES OldestStartsFirst ImplementsPool
CHECK_DEADLOCK FALSE
