SPECIFICATION LiveSpec
CONSTANTS
  Devices = {d1}
  Patience = {TRUE}
  Faults = FALSE
  MaxOpens = 1
PROPERTIES StopAlwaysReturns
CHECK_DEADLOCK FALSE
