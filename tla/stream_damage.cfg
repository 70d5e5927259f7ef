SPECIFICATION Spec
CONSTANTS
  t1 = t1
  t2 = t2
  Transfers <- Two
  Parts = 2
  SeqSize = 16
  Losses = {"status"}
  Statuses = {"TIMED_OUT", "ERROR"}
  Unplugs = TRUE
  SubmitFails = TRUE
  MaxFrames = 4
  MaxStarts = 1
INVARIANTS NoMixture
CHECK_DEADLOCK FALSE
