SPECIFICATION Spec
CONSTANTS
  NULL = NULL
  Frames <- Frames3
  CaptureThreads = {c1}
  Callbacks = {cb}
  Windows = {w}
  CaptureWindows = {cw}
  PixelFormats <- Raw
  MaxFrame = 2
  Mjpeg = FALSE
  Spurious = FALSE
  Faults = FALSE
  EarlyStop = FALSE
  Endless = FALSE
  MaxSent = 2
  MaxStarts = 2
INVARIANTS StoppedIsQuiet OneOwner
PROPERTIES ImplementsChannel
CHECK_DEADLOCK FALSE
