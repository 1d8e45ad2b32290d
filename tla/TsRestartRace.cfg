\* A small ring, feeds stopped and started at any point of a handler run; one missed
\* interrupt puts a session out of step.
CONSTANTS
  RINGSIZ = 6
  TS2D_BUFFERS = 3
  MaxLost = 1
  MaxFeeds = 2
  MaxStarts = 3
  MaxFilled = 7
SPECIFICATION Spec
CHECK_DEADLOCK FALSE
INVARIANTS
  TypeOK
  RingBalanced
  NoTornDelivery
PROPERTIES
  DeliversInOrder
