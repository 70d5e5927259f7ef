SPECIFICATION Spec
CONSTANTS
  NULL = NULL
  Frames <- Frames5
  CaptureThreads = {c1}
  Callbacks = {cb, NULL}
  Windows = {w}
  CaptureWindows = {}
  PixelFormats <- Nv21
  MaxFrame = 1
  Mjpeg = TRUE
  Spurious = TRUE
  Faults = TRUE
  EarlyStop = TRUE
  Endless = FALSE
  MaxSent = 2
  MaxStarts = 1
INVARIANTS TypeOK OneOwner NoUseAfterFree NoNullFrame LeakBounded
PROPERTIES ImplementsChannel
CHECK_DEADLOCK FALSE
