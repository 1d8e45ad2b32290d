\* A reliable bus: the first open before the first tune.
CONSTANTS
  Params = {p1}
  NoParam = p0
  BusFaults = FALSE
SPECIFICATION Spec
INVARIANTS
  ClockBeforeDemod
