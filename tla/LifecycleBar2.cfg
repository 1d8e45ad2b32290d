\* The mapping of BAR 2 may fail.
CONSTANTS
  Internal = 0
  External = 1
  Buses = 1
  RemapFails = TRUE
SPECIFICATION Spec
INVARIANTS
  Bar2Checked
CHECK_DEADLOCK FALSE
