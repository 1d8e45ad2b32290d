\* The real ring (16 buffers over 8 slots), the first session, two rounds of the ring.
CONSTANTS
  RINGSIZ = 16
  TS2D_BUFFERS = 8
  MaxLost = 5
  MaxFeeds = 1
  MaxStarts = 1
  MaxFilled = 36
SPECIFICATION FairSpec
CHECK_DEADLOCK FALSE
INVARIANTS
  PhaseTracksEngine
  NoTornDelivery
PROPERTIES
  DeliversInOrder
  EventuallyDelivered
