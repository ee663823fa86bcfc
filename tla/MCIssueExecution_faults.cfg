SPECIFICATION Spec
CONSTANTS
  Runs = {1, 2}
  Agents = {a1, a2}
  LocalAgents <- NoLocalAgent
  Issues = {i1}
  MaxConcurrent = 1
  Reapers = {p1}
  Faults <- UnaskedFaults
  MaxCrashes = 1
  None = None
SYMMETRY AgentSymmetry
INVARIANTS TypeOK LeaseUnique
CHECK_DEADLOCK FALSE
