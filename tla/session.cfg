SPECIFICATION LiveSpec
CONSTANTS
  Devices = {d1, d2}
  Patience = {TRUE, FALSE}
  Faults = TRUE
  MaxOpens = 3
INVARIANTS TypeOK PreviewStopped NoneLeaked OpenedIsConnected EachConnectionFiled NoneOutlivesConnection
PROPERTIES StopReturns ClosedWhenUnplugged
CHECK_DEADLOCK FALSE
