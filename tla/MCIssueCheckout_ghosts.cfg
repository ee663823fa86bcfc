SPECIFICATION FairSpec
CONSTANTS
  a1 = a1
  a2 = a2
  r1 = r1
  r2 = r2
  r3 = r3
  Agents = {a1, a2}
  Runs = {r1, r2}
  AgentOf <- TwoOfOne
  Linked = {r1}
  Requests = {q1}
  Expected <- Usual
  Features = {"pause", "unblock", "lease", "reap", "resume"}
  None = None
INVARIANTS TypeOK CheckoutMeansInProgress
PROPERTIES GhostsCleared
CHECK_DEADLOCK FALSE
