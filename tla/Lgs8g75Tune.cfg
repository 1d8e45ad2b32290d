\* Every channel, any access failing at any step.
CONSTANTS
  Params = {p1, p2}
  NoParam = p0
  BusFaults = TRUE
SPECIFICATION Spec
INVARIANTS
  TypeOK
  
PROPERTIES
  NoFakeLock
CHECK_DEADLOCK FALSE
