\* The real ring, one restart at any point between two interrupts.
CONSTANTS
  RINGSIZ = 16
  TS2D_BUFFERS = 8
  MaxLost = 1
  MaxFeeds = 1
  MaxStarts = 2
  MaxFilled = 40
SPECIFICATION CleanSpec
CHECK_DEADLOCK FALSE
INVARIANTS
  NoTornDeliveryOnceWarm
  SteadyLag
  LossesAddLag
PROPERTIES
  DeliversInOrder
