SPECIFICATION FairSpec
CONSTANTS
  i1 = i1
  i2 = i2
  Intents = {1, 2}
  Issues = {i1, i2}
  Agents = {a1}
  Deps <- Chain
  Creators = {c1, c2}
  Passes = {p1}
  MaxConcurrent = 1
  MaxPauses = 0
  MaxTimers = 0
  Features = {}
  Reopenable = {i1}
  Releasable = {i2}
  Existing = {i1}
  None = None
INVARIANTS TypeOK  WakeIsOwed
PROPERTIES Woken
CHECK_DEADLOCK FALSE
