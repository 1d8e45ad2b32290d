\* A reliable bus: what tuning does to the firmware init has downloaded.
CONSTANTS
  Params = {p1}
  NoParam = p0
  BusFaults = FALSE
SPECIFICATION Spec
PROPERTIES
  FirmwareKept
