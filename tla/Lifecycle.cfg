\* One adapter of either kind, two buses, every step failing.
CONSTANTS
  Internal = 1
  External = 1
  Buses = 2
  RemapFails = FALSE
SPECIFICATION Spec
INVARIANTS
  TypeOK
  
  PciGivenBack
  RemovedClean
  
CHECK_DEADLOCK FALSE
