SPECIFICATION Spec
CONSTANTS
  a1 = a1
  a2 = a2
  r1 = r1
  r2 = r2
  r3 = r3
  Agents = {a1, a2}
  Runs = {r1, r2, r3}
  AgentOf <- TwoAndOne
  Linked = {r1}
  Requests = {q1, q2}
  Expected <- Usual
  Features = {}
  None = None
INVARIANTS CheckoutHoldsExecution
PROPERTIES AdoptsOnlyEnded
SYMMETRY Symmetry
CHECK_DEADLOCK FALSE
