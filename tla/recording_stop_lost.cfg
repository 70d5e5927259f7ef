SPECIFICATION LiveSpec
CONSTANTS
  Faults = FALSE
  Collectable = {1}
  Inputs = 2
  MaxMessages = 3
  MaxFrames = 2
  MaxRecordings = 1
PROPERTY StopFinishes
CHECK_DEADLOCK FALSE
