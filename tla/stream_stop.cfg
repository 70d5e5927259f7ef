SPECIFICATION LiveSpec
CONSTANTS
  t1 = t1
  t2 = t2
  Transfers <- Two
  Parts = 1
  SeqSize = 3
  Losses = {"header"}
  Statuses = {"ERROR"}
  Unplugs = FALSE
  SubmitFails = FALSE
  MaxFrames = 5
  MaxStarts = 2
INVARIANTS TypeOK ClosedIsQuiet
PROPERTIES ImplementsChannel StopReturns GivesLatest
CHECK_DEADLOCK FALSE
