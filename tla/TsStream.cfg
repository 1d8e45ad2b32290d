\* Three buffers of four pages in tables of six; a counter of four values.
CONSTANTS
  RINGSIZ = 3
  TsPages = 4
  Entries = 6
  CountWrap = 4
  feednum = 4
SPECIFICATION Spec
CHECK_DEADLOCK FALSE
INVARIANTS
  TypeOK
  TablesRight
  ExitBalanced
  FeedsServed
PROPERTIES
  NeverResetUnderFeed
