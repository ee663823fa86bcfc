SPECIFICATION Spec
CONSTANTS
  i1 = i1
  i2 = i2
  Intents = {1, 2}
  Issues = {i1}
  Agents = {a1}
  Deps <- NoDeps
  Creators = {c1}
  Passes = {p1, p2}
  MaxConcurrent = 1
  MaxPauses = 1
  MaxTimers = 1
  Features = {"expire", "reconcile", "cancel"}
  Reopenable = {}
  Releasable = {}
  Existing = {}
  None = None
INVARIANTS OneRunPerIntent
PROPERTIES ImplementsLife
SYMMETRY Symmetry
CHECK_DEADLOCK FALSE
