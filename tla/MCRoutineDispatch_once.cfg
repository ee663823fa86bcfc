SPECIFICATION Spec
CONSTANTS
  p1 = p1
  p2 = p2
  c1 = c1
  c2 = c2
  k = k
  Routines <- Mixed
  Passes = {p1, p2}
  Callers = {c1, c2}
  Key <- SameKey
  Named = {c1, c2}
  Connections = 3
  Cap = 2
  MaxClock = 2
  MaxRuns = 4
  MaxCrashes = 1
  Features = {}
  None = None
INVARIANTS TypeOK OccurrenceOnce OneExecution KeyOnce
SYMMETRY Symmetry
CHECK_DEADLOCK FALSE
