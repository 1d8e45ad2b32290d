\* Two threads on the tuner's bus, two transfers, two bytes refused.
CONSTANTS
  Clients = {c1, c2}
  Transfers <- TunerTransfers
  BusyPolls = 5
  TxDepth = 2
  MaxXfers = 2
  MaxRefused = 2
  Nobody = Nobody
SPECIFICATION FairSpec
CHECK_DEADLOCK FALSE
INVARIANTS
  TypeOK
  SuccessIsExact
  ClosedBetween

  
