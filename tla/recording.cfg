SPECIFICATION LiveSpec
CONSTANTS
  Faults = TRUE
  Collectable = {1}
  Inputs = 2
  MaxMessages = 3
  MaxFrames = 2
  MaxRecordings = 2
INVARIANTS TypeOK NothingLost FlagFollows
PROPERTIES ImplementsMuxer FinishesOnceSeen
CHECK_DEADLOCK FALSE
