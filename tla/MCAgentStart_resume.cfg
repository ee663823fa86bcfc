SPECIFICATION FairSpec
CONSTANTS
  Runs = {1, 2}
  a1 = a1
  Agents = {a1}
  AgentOf <- OneAgent
  Calls = {c1, c2}
  Spare = 0
  MaxConcurrent = 1
  Passes = {p1}
  LocalChildren = FALSE
  MaxBlocks = 0
  MaxCrashes = 1
  NoCall = NoCall
PROPERTIES QueuedWorkDrivenForward
CHECK_DEADLOCK FALSE
