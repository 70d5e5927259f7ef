SPECIFICATION LiveSpec
CONSTANTS
  NULL = NULL
  Frames <- Frames2
  CaptureThreads = {c1}
  Callbacks = {cb}
  Windows = {w}
  CaptureWindows = {}
  PixelFormats <- Raw
  MaxFrame = 1
  Mjpeg = FALSE
  Spurious = FALSE
  Faults = FALSE
  EarlyStop = FALSE
  Endless = TRUE
  MaxSent = 0
  MaxStarts = 2
PROPERTIES KeepsDelivering SetterReturns
CHECK_DEADLOCK FALSE
