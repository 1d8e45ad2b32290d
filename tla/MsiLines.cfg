\* Two lines and the access violation in bank 1, another unit in bank 0.
CONSTANTS
  Width = 4
  Banks = 2
  Lines = {5, 6}
  LowLine = 5
  Watched = 6
  Noise = {1}
  Dcsn = 7
  MaxRaised = 2
SPECIFICATION FairSpec
CHECK_DEADLOCK FALSE
INVARIANTS
  TypeOK
  ViolationSeen
  QuietWhenGone
PROPERTIES
  LowLineKept
  LineKept
  EventuallyServed
