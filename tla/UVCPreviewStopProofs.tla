------------------------ MODULE UVCPreviewStopProofs ------------------------
(***************************************************************************)
(* Proofs about UVCPreview: what stopPreview leaves behind, if it comes     *)
(* once the preview streams and if it comes before, how much memory is lost, *)
(* and that no thread sleeps while a frame waits for it.                    *)
(***************************************************************************)
EXTENDS UVCPreviewProofs, FiniteSetTheorems

-------------------------------------------------------------------------------
(* The threads of a session *)

\* The preview thread before there is a capture thread
Early == {"prepare", "start", "clear", "create"}

\* stopPreview has been called
Stopping == {"stop.setFrameCallback", "stop", "stop.signalPreview", "stop.signalCapture",
             "stop.joinCapture", "stop.joinPreview"}

\* what is cleared after all threads have been joined
Cleared == {"stop.clearPreview", "stop.clearCapture", "stop.releasePreview",
            "stop.releaseCapture", "delete", "deleted", "start", "start.failed"}

\* The control thread may be in a setter, or at the start of a stop
Calling == {"idle", "setFrameCallback", "stop.setFrameCallback", "setCaptureDisplay", "stop"}

\* no preview thread runs
NoPreview == ~streaming /\ pc["preview"] = "none"

\* Where the preview thread is, is fixed by where the control thread is.
Session ==
    /\ pc["control"] \in Cleared => NoPreview
    /\ pc["control"] \in Calling /\ ~mIsRunning => NoPreview
    /\ pc["control"] \in Calling /\ mIsRunning => pc["preview"] # "none"
    /\ pc["control"] \in {"stop.signalPreview", "stop.signalCapture", "stop.joinCapture",
                          "stop.joinPreview"} => ~mIsRunning /\ pc["preview"] # "none"
    /\ pc["control"] \in Cleared => (mIsRunning <=> pc["control"] \in {"start", "start.failed"})

\* The stream is open while the preview thread says so, and the callback thread lives in it.
Stream ==
    /\ pc["usb"] # "idle" => streaming
    /\ pc["preview"] \in {"none", "prepare", "start", "exited"} => ~streaming

\* A stop that comes once the preview streams has joined the capture thread.
Joined ==
    /\ pc["control"] \in Cleared => capture_thread = NULL
    /\ pc["control"] \in Calling /\ ~mIsRunning => capture_thread = NULL
    /\ pc["control"] \in Stopping => pc["preview"] \notin Early
    /\ pc["control"] = "stop.joinPreview" => capture_thread = NULL

\* There is one capture thread, the one whose handle is kept.
OneCapture ==
    /\ pc["preview"] \in Early => capture_thread = NULL
    /\ \A c \in CaptureThreads : pc[c] # "none" <=> c = capture_thread

\* A queue holds frames only while a thread may come for them or they wait to be cleared.
QueuesEmpty ==
    LET quiet == \/ pc["control"] \in Cleared \ {"stop.clearPreview", "stop.clearCapture"}
                 \/ pc["control"] \in Calling /\ ~mIsRunning
    IN /\ quiet \/ pc["control"] = "stop.clearCapture" => previewFrames = <<>>
       /\ quiet => captureQueu = NULL

\* A variable of a thread holds a frame only between certain points.
Rendering(c) == surface[c] /\ pc[c] \notin {"none", "begin", "outer", "arm", "choose",
                                            "release", "broadcast", "exited"}
SlotsFit ==
    /\ local[Copy] # NULL => pc["usb"] \in {"add", "recycle"}
    /\ local[MjpegIn] # NULL =>
          pc["preview"] \in {"decode", "decoded", "undecoded", "crashed"}
    /\ local[Frame] # NULL =>
          pc["preview"] \in {"decoded", "undecoded", "dropFrame", "draw", "convert", "show",
                             "addCapture"}
    /\ local[Converted] # NULL => pc["preview"] = "show"
    /\ \A c \in CaptureThreads :
          /\ local[CapFrame(c)] # NULL =>
                pc[c] \in {"taken", "render", "copyToSurface", "posted", "callback", "convert",
                           "converted", "unconverted", "call", "onFrame", "recycle"}
          /\ local[CapCallback(c)] # NULL =>
                /\ pc[c] \in {"converted", "unconverted", "call", "onFrame", "recycle"}
                /\ local[CapFrame(c)] # NULL => pc[c] \in {"converted", "unconverted"}
          /\ local[CapConverted(c)] # NULL => Rendering(c)
          /\ pc[c] = "render" => surface[c]

\* what holds of every application
Threading == Session /\ Stream

Life == Threading /\ QueuesEmpty /\ SlotsFit

\* what holds of an application that stops no preview before it streams
Handles == Joined /\ OneCapture

-------------------------------------------------------------------------------
(* Life is inductive, part by part and thread by thread *)

\* SlotFacts, pair by pair
LEMMA SlotsApart ==
    /\ {Copy, MjpegIn, Frame, Converted} \subseteq Slots
    /\ Copy # MjpegIn /\ Copy # Frame /\ Copy # Converted
    /\ MjpegIn # Frame /\ MjpegIn # Converted /\ Frame # Converted
    /\ \A c \in CaptureThreads :
          /\ CapFrame(c) \in Slots /\ CapConverted(c) \in Slots /\ CapCallback(c) \in Slots
          /\ CapFrame(c) # CapConverted(c) /\ CapFrame(c) # CapCallback(c)
          /\ CapConverted(c) # CapCallback(c)
          /\ CapFrame(c) # Copy /\ CapFrame(c) # MjpegIn
          /\ CapFrame(c) # Frame /\ CapFrame(c) # Converted
          /\ CapConverted(c) # Copy /\ CapConverted(c) # MjpegIn
          /\ CapConverted(c) # Frame /\ CapConverted(c) # Converted
          /\ CapCallback(c) # Copy /\ CapCallback(c) # MjpegIn
          /\ CapCallback(c) # Frame /\ CapCallback(c) # Converted
    /\ \A c, d \in CaptureThreads : c # d =>
          /\ CapFrame(c) # CapFrame(d) /\ CapFrame(c) # CapConverted(d)
          /\ CapFrame(c) # CapCallback(d)
          /\ CapConverted(c) # CapConverted(d) /\ CapConverted(c) # CapCallback(d)
          /\ CapCallback(c) # CapCallback(d) /\ CapConverted(c) # CapFrame(d)
          /\ CapCallback(c) # CapFrame(d) /\ CapCallback(c) # CapConverted(d)
  BY SlotFacts

\* the callback thread runs in an open stream only
LEMMA UsbThreads ==
    ASSUME IInv, Threading, Usb
    PROVE  Threading'
  <1> USE DEF IInv, Threading
  <1>1. ASSUME DeliverFrame
        PROVE  Threading'
    BY <1>1, ThreadFacts
    DEF DeliverFrame, usbFrame, captureVars, flagVars, Session, NoPreview, Stream, Calling,
        Cleared, PcTypes, RestTypes
  <1>2. ASSUME CopyFrame
        PROVE  Threading'
    BY <1>2, ThreadFacts
    DEF CopyFrame, Goto, usbFrame, captureVars, flagVars, Session, NoPreview, Stream, Calling,
        Cleared, PcTypes, RestTypes
  <1>3. ASSUME AddPreviewFrame
        PROVE  Threading'
    BY <1>3, ThreadFacts
    DEF AddPreviewFrame, Goto, usbFrame, captureVars, flagVars, Session, NoPreview, Stream,
        Calling, Cleared, PcTypes, RestTypes
  <1>4. ASSUME RecycleCopy
        PROVE  Threading'
    BY <1>4, ThreadFacts
    DEF RecycleCopy, Goto, usbFrame, captureVars, flagVars, Session, NoPreview, Stream,
        Calling, Cleared, PcTypes, RestTypes
  <1> QED
    BY <1>1, <1>2, <1>3, <1>4
    DEF Usb

\* the preview thread opens and closes the stream and creates the capture thread
LEMMA PreviewThreads ==
    ASSUME IInv, Threading, Preview
    PROVE  Threading'
  <1> USE DEF IInv, Threading
  <1>1. ASSUME PreparePreview
        PROVE  Threading'
    BY <1>1, ThreadFacts
    DEF PreparePreview, Goto, previewLocal, previewFrame, flagVars, Session, NoPreview, Stream,
        Calling, Cleared, PcTypes, RestTypes
  <1>2. ASSUME StartStreaming
        PROVE  Threading'
    BY <1>2, ThreadFacts
    DEF StartStreaming, Goto, previewFrame, flagVars, Session, NoPreview, Stream, Calling,
        Cleared, PcTypes, RestTypes
  <1>3. ASSUME ClearStalePreview
        PROVE  Threading'
    BY <1>3, ThreadFacts
    DEF ClearStalePreview, Goto, previewLocal, previewFrame, flagVars, Session, NoPreview,
        Stream, Calling, Cleared, PcTypes, RestTypes
  <1>4. ASSUME CreateCaptureThread
        PROVE  Threading'
    BY <1>4, ThreadFacts
    DEF CreateCaptureThread, previewFrame, flagVars, Session, NoPreview, Stream, Calling,
        Cleared, PcTypes, RestTypes
  <1>5. ASSUME PreviewLoop
        PROVE  Threading'
    BY <1>5, ThreadFacts
    DEF PreviewLoop, Goto, previewLocal, previewFrame, flagVars, Session, NoPreview, Stream,
        Calling, Cleared, PcTypes, RestTypes
  <1>6. ASSUME WaitPreviewFrame
        PROVE  Threading'
    BY <1>6, ThreadFacts
    DEF WaitPreviewFrame, Goto, TakePreviewFrame, previewLocal, previewFrame, flagVars,
        Session, NoPreview, Stream, Calling, Cleared, PcTypes, RestTypes
  <1>7. ASSUME WakePreviewFrame
        PROVE  Threading'
    BY <1>7, ThreadFacts
    DEF WakePreviewFrame, Goto, TakePreviewFrame, previewLocal, previewFrame, flagVars,
        Session, NoPreview, Stream, Calling, Cleared, PcTypes, RestTypes
  <1>8. ASSUME DecodeFrame
        PROVE  Threading'
    BY <1>8, ThreadFacts
    DEF DecodeFrame, Goto, previewLocal, previewFrame, flagVars, Session, NoPreview, Stream,
        Calling, Cleared, PcTypes, RestTypes
  <1>9. ASSUME RecycleMjpeg
        PROVE  Threading'
    BY <1>9, ThreadFacts
    DEF RecycleMjpeg, Goto, previewLocal, previewFrame, flagVars, Session, NoPreview, Stream,
        Calling, Cleared, PcTypes, RestTypes
  <1>10. ASSUME DropFrame
        PROVE  Threading'
    BY <1>10, ThreadFacts
    DEF DropFrame, Goto, previewLocal, previewFrame, flagVars, Session, NoPreview, Stream,
        Calling, Cleared, PcTypes, RestTypes
  <1>11. ASSUME DrawIfWindow
        PROVE  Threading'
    BY <1>11, ThreadFacts
    DEF DrawIfWindow, Goto, previewLocal, previewFrame, flagVars, Session, NoPreview, Stream,
        Calling, Cleared, PcTypes, RestTypes
  <1>12. ASSUME ConvertPreview
        PROVE  Threading'
    BY <1>12, ThreadFacts
    DEF ConvertPreview, Goto, previewLocal, previewFrame, flagVars, Session, NoPreview, Stream,
        Calling, Cleared, PcTypes, RestTypes
  <1>13. ASSUME ShowPreview
        PROVE  Threading'
    BY <1>13, ThreadFacts
    DEF ShowPreview, Goto, previewLocal, previewFrame, flagVars, Session, NoPreview, Stream,
        Calling, Cleared, PcTypes, RestTypes
  <1>14. ASSUME AddCaptureFrame
        PROVE  Threading'
    BY <1>14, ThreadFacts
    DEF AddCaptureFrame, Goto, previewLocal, previewFrame, flagVars, Session, NoPreview,
        Stream, Calling, Cleared, PcTypes, RestTypes
  <1>15. ASSUME PreviewSignal
        PROVE  Threading'
    BY <1>15, ThreadFacts
    DEF PreviewSignal, Goto, previewLocal, previewFrame, flagVars, Session, NoPreview, Stream,
        Calling, Cleared, PcTypes, RestTypes
  <1>16. ASSUME StopStreaming
        PROVE  Threading'
    BY <1>16, ThreadFacts
    DEF StopStreaming, Goto, previewFrame, flagVars, Session, NoPreview, Stream, Calling,
        Cleared, PcTypes, RestTypes
  <1> QED
    BY <1>1, <1>2, <1>3, <1>4, <1>5, <1>6, <1>7, <1>8, <1>9, <1>10, <1>11, <1>12, <1>13,
       <1>14, <1>15, <1>16
    DEF Preview

\* a capture thread runs until it has exited
LEMMA CaptureThreadsStep ==
    ASSUME IInv, Threading, NEW c \in CaptureThreads, Capture(c)
    PROVE  Threading'
  <1> USE DEF IInv, Threading
  <1>1. ASSUME CaptureBegin(c)
        PROVE  Threading'
    BY <1>1, ThreadFacts
    DEF CaptureBegin, Goto, captureVars, streamVars, flagVars, Session, NoPreview, Stream,
        Calling, Cleared, PcTypes, RestTypes
  <1>2. ASSUME CaptureOuter(c)
        PROVE  Threading'
    BY <1>2, ThreadFacts
    DEF CaptureOuter, Goto, captureBuffers, captureFrame, flagVars, Session, NoPreview, Stream,
        Calling, Cleared, PcTypes, RestTypes
  <1>3. ASSUME CaptureArm(c)
        PROVE  Threading'
    BY <1>3, ThreadFacts
    DEF CaptureArm, Goto, captureVars, streamVars, Session, NoPreview, Stream, Calling,
        Cleared, PcTypes, RestTypes
  <1>4. ASSUME CaptureChoose(c)
        PROVE  Threading'
    BY <1>4, ThreadFacts
    DEF CaptureChoose, Goto, captureFrame, flagVars, Session, NoPreview, Stream, Calling,
        Cleared, PcTypes, RestTypes
  <1>5. ASSUME CaptureLoop(c)
        PROVE  Threading'
    BY <1>5, ThreadFacts
    DEF CaptureLoop, Goto, captureBuffers, captureFrame, flagVars, Session, NoPreview, Stream,
        Calling, Cleared, PcTypes, RestTypes
  <1>6. ASSUME WaitCaptureFrame(c)
        PROVE  Threading'
    BY <1>6, ThreadFacts
    DEF WaitCaptureFrame, Goto, TakeCaptureFrame, captureFrame, flagVars, Session, NoPreview,
        Stream, Calling, Cleared, PcTypes, RestTypes
  <1>7. ASSUME WakeCaptureFrame(c)
        PROVE  Threading'
    BY <1>7, ThreadFacts
    DEF WakeCaptureFrame, Goto, TakeCaptureFrame, captureFrame, flagVars, Session, NoPreview,
        Stream, Calling, Cleared, PcTypes, RestTypes
  <1>8. ASSUME CaptureTaken(c)
        PROVE  Threading'
    BY <1>8, ThreadFacts
    DEF CaptureTaken, Goto, captureBuffers, captureFrame, flagVars, Session, NoPreview, Stream,
        Calling, Cleared, PcTypes, RestTypes
  <1>9. ASSUME RenderCapture(c)
        PROVE  Threading'
    BY <1>9, ThreadFacts
    DEF RenderCapture, Goto, captureBuffers, captureFrame, flagVars, Session, NoPreview,
        Stream, Calling, Cleared, PcTypes, RestTypes
  <1>10. ASSUME CopyToSurface(c)
        PROVE  Threading'
    BY <1>10, ThreadFacts
    DEF CopyToSurface, Goto, captureFrame, flagVars, Session, NoPreview, Stream, Calling,
        Cleared, PcTypes, RestTypes
  <1>11. ASSUME Posted(c)
        PROVE  Threading'
    BY <1>11, ThreadFacts
    DEF Posted, Goto, captureFrame, flagVars, Session, NoPreview, Stream, Calling, Cleared,
        PcTypes, RestTypes
  <1>12. ASSUME CaptureCallback(c)
        PROVE  Threading'
    BY <1>12, ThreadFacts
    DEF CaptureCallback, Goto, captureBuffers, captureFrame, flagVars, Session, NoPreview,
        Stream, Calling, Cleared, PcTypes, RestTypes
  <1>13. ASSUME ConvertCallback(c)
        PROVE  Threading'
    BY <1>13, ThreadFacts
    DEF ConvertCallback, Goto, captureBuffers, captureFrame, flagVars, Session, NoPreview,
        Stream, Calling, Cleared, PcTypes, RestTypes
  <1>14. ASSUME RecycleConverted(c)
        PROVE  Threading'
    BY <1>14, ThreadFacts
    DEF RecycleConverted, Goto, captureBuffers, captureFrame, flagVars, Session, NoPreview,
        Stream, Calling, Cleared, PcTypes, RestTypes
  <1>15. ASSUME CallOnFrame(c)
        PROVE  Threading'
    BY <1>15, ThreadFacts
    DEF CallOnFrame, Goto, captureFrame, flagVars, Session, NoPreview, Stream, Calling,
        Cleared, PcTypes, RestTypes
  <1>16. ASSUME ReturnOnFrame(c)
        PROVE  Threading'
    BY <1>16, ThreadFacts
    DEF ReturnOnFrame, Goto, captureFrame, flagVars, Session, NoPreview, Stream, Calling,
        Cleared, PcTypes, RestTypes
  <1>17. ASSUME RecycleCallback(c)
        PROVE  Threading'
    BY <1>17, ThreadFacts
    DEF RecycleCallback, Goto, captureBuffers, captureFrame, flagVars, Session, NoPreview,
        Stream, Calling, Cleared, PcTypes, RestTypes
  <1>18. ASSUME SurfaceEnd(c)
        PROVE  Threading'
    BY <1>18, ThreadFacts
    DEF SurfaceEnd, Goto, captureBuffers, captureFrame, flagVars, Session, NoPreview, Stream,
        Calling, Cleared, PcTypes, RestTypes
  <1>19. ASSUME SurfaceRelease(c)
        PROVE  Threading'
    BY <1>19, ThreadFacts
    DEF SurfaceRelease, Goto, captureFrame, flagVars, Session, NoPreview, Stream, Calling,
        Cleared, PcTypes, RestTypes
  <1>20. ASSUME CaptureBroadcast(c)
        PROVE  Threading'
    BY <1>20, ThreadFacts
    DEF CaptureBroadcast, Goto, captureFrame, flagVars, Session, NoPreview, Stream, Calling,
        Cleared, PcTypes, RestTypes
  <1> QED
    BY <1>1, <1>2, <1>3, <1>4, <1>5, <1>6, <1>7, <1>8, <1>9, <1>10, <1>11, <1>12, <1>13,
       <1>14, <1>15, <1>16, <1>17, <1>18, <1>19, <1>20
    DEF Capture

\* the control thread creates and joins the preview thread
LEMMA ControlThreads ==
    ASSUME IInv, Threading, Control
    PROVE  Threading'
  <1> USE DEF IInv, Threading
  <1>1. ASSUME NEW w \in Windows, SetPreviewDisplay(w)
        PROVE  Threading'
    BY <1>1, ThreadFacts
    DEF SetPreviewDisplay, Idle, controlFrame, captureVars, streamVars, flagVars, Session,
        NoPreview, Stream, Calling, Cleared, PcTypes, RestTypes
  <1>2. ASSUME NEW w \in CaptureWindows, SetCaptureDisplay(w)
        PROVE  Threading'
    BY <1>2, ThreadFacts
    DEF SetCaptureDisplay, Idle, Sleep, StopCapturing, controlFrame, captureVars, streamVars,
        Session, NoPreview, Stream, Calling, Cleared, PcTypes, RestTypes
  <1>3. ASSUME NEW cb \in Callbacks, NEW fmt \in PixelFormats, SetFrameCallback(cb, fmt)
        PROVE  Threading'
    BY <1>3, ThreadFacts
    DEF SetFrameCallback, Idle, FrameCallback, Sleep, StopCapturing, controlFrame, captureVars,
        streamVars, Session, NoPreview, Stream, Calling, Cleared, PcTypes, RestTypes
  <1>4. ASSUME NEW close \in BOOLEAN, StopPreview(close)
        PROVE  Threading'
    BY <1>4, ThreadFacts
    DEF StopPreview, Idle, FrameCallback, Sleep, StopCapturing, controlFrame, captureVars,
        streamVars, Session, NoPreview, Stream, Calling, Cleared, PcTypes, RestTypes
  <1>5. ASSUME SwapFrameCallback
        PROVE  Threading'
    BY <1>5, ThreadFacts
    DEF SwapFrameCallback, Goto, Wake, controlFrame, captureVars, streamVars, flagVars,
        Session, NoPreview, Stream, Calling, Cleared, PcTypes, RestTypes
  <1>6. ASSUME SwapCaptureDisplay
        PROVE  Threading'
    BY <1>6, ThreadFacts
    DEF SwapCaptureDisplay, Goto, Wake, controlFrame, captureVars, streamVars, flagVars,
        Session, NoPreview, Stream, Calling, Cleared, PcTypes, RestTypes
  <1>7. ASSUME StartPreview
        PROVE  Threading'
    BY <1>7, ThreadFacts
    DEF StartPreview, Goto, controlTargets, controlFrame, captureVars, streamVars, Session,
        NoPreview, Stream, Calling, Cleared, PcTypes, RestTypes
  <1>8. ASSUME CreatePreviewThread
        PROVE  Threading'
    BY <1>8, ThreadFacts
    DEF CreatePreviewThread, controlTargets, controlFrame, captureVars, streamVars, flagVars,
        Session, NoPreview, Stream, Calling, Cleared, PcTypes, RestTypes
  <1>9. ASSUME StartPreviewFailed
        PROVE  Threading'
    BY <1>9, ThreadFacts
    DEF StartPreviewFailed, Goto, controlTargets, controlFrame, captureVars, streamVars,
        Session, NoPreview, Stream, Calling, Cleared, PcTypes, RestTypes
  <1>10. ASSUME ClearRunning
        PROVE  Threading'
    BY <1>10, ThreadFacts
    DEF ClearRunning, controlTargets, controlFrame, captureVars, streamVars, Session,
        NoPreview, Stream, Calling, Cleared, PcTypes, RestTypes
  <1>11. ASSUME StopSignalPreview
        PROVE  Threading'
    BY <1>11, ThreadFacts
    DEF StopSignalPreview, Goto, controlTargets, controlFrame, captureVars, streamVars,
        flagVars, Session, NoPreview, Stream, Calling, Cleared, PcTypes, RestTypes
  <1>12. ASSUME StopSignalCapture
        PROVE  Threading'
    BY <1>12, ThreadFacts
    DEF StopSignalCapture, Goto, controlTargets, controlFrame, captureVars, streamVars,
        flagVars, Session, NoPreview, Stream, Calling, Cleared, PcTypes, RestTypes
  <1>13. ASSUME JoinCaptureThread
        PROVE  Threading'
    BY <1>13, ThreadFacts, SlotFacts
    DEF JoinCaptureThread, streamVars, flagVars, Session, NoPreview, Stream, Calling, Cleared,
        PcTypes, RestTypes
  <1>14. ASSUME JoinPreviewThread
        PROVE  Threading'
    BY <1>14, ThreadFacts
    DEF JoinPreviewThread, controlTargets, controlFrame, captureVars, streamVars, flagVars,
        Session, NoPreview, Stream, Calling, Cleared, PcTypes, RestTypes
  <1>15. ASSUME StopClearPreview
        PROVE  Threading'
    BY <1>15, ThreadFacts
    DEF StopClearPreview, Goto, captureVars, streamVars, flagVars, Session, NoPreview, Stream,
        Calling, Cleared, PcTypes, RestTypes
  <1>16. ASSUME StopClearCapture
        PROVE  Threading'
    BY <1>16, ThreadFacts
    DEF StopClearCapture, Goto, captureVars, streamVars, flagVars, Session, NoPreview, Stream,
        Calling, Cleared, PcTypes, RestTypes
  <1>17. ASSUME ReleasePreviewWindow
        PROVE  Threading'
    BY <1>17, ThreadFacts
    DEF ReleasePreviewWindow, Goto, controlFrame, captureVars, streamVars, flagVars, Session,
        NoPreview, Stream, Calling, Cleared, PcTypes, RestTypes
  <1>18. ASSUME ReleaseCaptureWindow
        PROVE  Threading'
    BY <1>18, ThreadFacts
    DEF ReleaseCaptureWindow, Goto, controlFrame, captureVars, streamVars, flagVars, Session,
        NoPreview, Stream, Calling, Cleared, PcTypes, RestTypes
  <1>19. ASSUME DeletePreview
        PROVE  Threading'
    BY <1>19, ThreadFacts
    DEF DeletePreview, Goto, captureVars, streamVars, flagVars, Session, NoPreview, Stream,
        Calling, Cleared, PcTypes, RestTypes
  <1> QED
    BY <1>1, <1>2, <1>3, <1>4, <1>5, <1>6, <1>7, <1>8, <1>9, <1>10, <1>11, <1>12, <1>13,
       <1>14, <1>15, <1>16, <1>17, <1>18, <1>19
    DEF Control
\* the callback thread creates and joins no thread
LEMMA UsbHandles ==
    ASSUME ~EarlyStop, IInv, Threading, Handles, Usb
    PROVE  Handles'
  <1> USE DEF IInv, Threading, Handles
  <1>1. ASSUME DeliverFrame
        PROVE  Handles'
    BY <1>1, ThreadFacts
    DEF DeliverFrame, usbFrame, captureVars, flagVars, Session, NoPreview, Stream, Joined,
        OneCapture, Calling, Stopping, Cleared, Early, PcTypes, RestTypes
  <1>2. ASSUME CopyFrame
        PROVE  Handles'
    BY <1>2, ThreadFacts
    DEF CopyFrame, Goto, usbFrame, captureVars, flagVars, Session, NoPreview, Stream, Joined,
        OneCapture, Calling, Stopping, Cleared, Early, PcTypes, RestTypes
  <1>3. ASSUME AddPreviewFrame
        PROVE  Handles'
    BY <1>3, ThreadFacts
    DEF AddPreviewFrame, Goto, usbFrame, captureVars, flagVars, Session, NoPreview, Stream,
        Joined, OneCapture, Calling, Stopping, Cleared, Early, PcTypes, RestTypes
  <1>4. ASSUME RecycleCopy
        PROVE  Handles'
    BY <1>4, ThreadFacts
    DEF RecycleCopy, Goto, usbFrame, captureVars, flagVars, Session, NoPreview, Stream, Joined,
        OneCapture, Calling, Stopping, Cleared, Early, PcTypes, RestTypes
  <1> QED
    BY <1>1, <1>2, <1>3, <1>4
    DEF Usb

\* the preview thread creates one capture thread
LEMMA PreviewHandles ==
    ASSUME ~EarlyStop, IInv, Threading, Handles, Preview
    PROVE  Handles'
  <1> USE DEF IInv, Threading, Handles
  <1>1. ASSUME PreparePreview
        PROVE  Handles'
    BY <1>1, ThreadFacts
    DEF PreparePreview, Goto, previewLocal, previewFrame, flagVars, Session, NoPreview, Stream,
        Joined, OneCapture, Calling, Stopping, Cleared, Early, PcTypes, RestTypes
  <1>2. ASSUME StartStreaming
        PROVE  Handles'
    BY <1>2, ThreadFacts
    DEF StartStreaming, Goto, previewFrame, flagVars, Session, NoPreview, Stream, Joined,
        OneCapture, Calling, Stopping, Cleared, Early, PcTypes, RestTypes
  <1>3. ASSUME ClearStalePreview
        PROVE  Handles'
    BY <1>3, ThreadFacts
    DEF ClearStalePreview, Goto, previewLocal, previewFrame, flagVars, Session, NoPreview,
        Stream, Joined, OneCapture, Calling, Stopping, Cleared, Early, PcTypes, RestTypes
  <1>4. ASSUME CreateCaptureThread
        PROVE  Handles'
    BY <1>4, ThreadFacts
    DEF CreateCaptureThread, previewFrame, flagVars, Session, NoPreview, Stream, Joined,
        OneCapture, Calling, Stopping, Cleared, Early, PcTypes, RestTypes
  <1>5. ASSUME PreviewLoop
        PROVE  Handles'
    BY <1>5, ThreadFacts
    DEF PreviewLoop, Goto, previewLocal, previewFrame, flagVars, Session, NoPreview, Stream,
        Joined, OneCapture, Calling, Stopping, Cleared, Early, PcTypes, RestTypes
  <1>6. ASSUME WaitPreviewFrame
        PROVE  Handles'
    BY <1>6, ThreadFacts
    DEF WaitPreviewFrame, Goto, TakePreviewFrame, previewLocal, previewFrame, flagVars,
        Session, NoPreview, Stream, Joined, OneCapture, Calling, Stopping, Cleared, Early,
        PcTypes, RestTypes
  <1>7. ASSUME WakePreviewFrame
        PROVE  Handles'
    BY <1>7, ThreadFacts
    DEF WakePreviewFrame, Goto, TakePreviewFrame, previewLocal, previewFrame, flagVars,
        Session, NoPreview, Stream, Joined, OneCapture, Calling, Stopping, Cleared, Early,
        PcTypes, RestTypes
  <1>8. ASSUME DecodeFrame
        PROVE  Handles'
    BY <1>8, ThreadFacts
    DEF DecodeFrame, Goto, previewLocal, previewFrame, flagVars, Session, NoPreview, Stream,
        Joined, OneCapture, Calling, Stopping, Cleared, Early, PcTypes, RestTypes
  <1>9. ASSUME RecycleMjpeg
        PROVE  Handles'
    BY <1>9, ThreadFacts
    DEF RecycleMjpeg, Goto, previewLocal, previewFrame, flagVars, Session, NoPreview, Stream,
        Joined, OneCapture, Calling, Stopping, Cleared, Early, PcTypes, RestTypes
  <1>10. ASSUME DropFrame
        PROVE  Handles'
    BY <1>10, ThreadFacts
    DEF DropFrame, Goto, previewLocal, previewFrame, flagVars, Session, NoPreview, Stream,
        Joined, OneCapture, Calling, Stopping, Cleared, Early, PcTypes, RestTypes
  <1>11. ASSUME DrawIfWindow
        PROVE  Handles'
    BY <1>11, ThreadFacts
    DEF DrawIfWindow, Goto, previewLocal, previewFrame, flagVars, Session, NoPreview, Stream,
        Joined, OneCapture, Calling, Stopping, Cleared, Early, PcTypes, RestTypes
  <1>12. ASSUME ConvertPreview
        PROVE  Handles'
    BY <1>12, ThreadFacts
    DEF ConvertPreview, Goto, previewLocal, previewFrame, flagVars, Session, NoPreview, Stream,
        Joined, OneCapture, Calling, Stopping, Cleared, Early, PcTypes, RestTypes
  <1>13. ASSUME ShowPreview
        PROVE  Handles'
    BY <1>13, ThreadFacts
    DEF ShowPreview, Goto, previewLocal, previewFrame, flagVars, Session, NoPreview, Stream,
        Joined, OneCapture, Calling, Stopping, Cleared, Early, PcTypes, RestTypes
  <1>14. ASSUME AddCaptureFrame
        PROVE  Handles'
    BY <1>14, ThreadFacts
    DEF AddCaptureFrame, Goto, previewLocal, previewFrame, flagVars, Session, NoPreview,
        Stream, Joined, OneCapture, Calling, Stopping, Cleared, Early, PcTypes, RestTypes
  <1>15. ASSUME PreviewSignal
        PROVE  Handles'
    BY <1>15, ThreadFacts
    DEF PreviewSignal, Goto, previewLocal, previewFrame, flagVars, Session, NoPreview, Stream,
        Joined, OneCapture, Calling, Stopping, Cleared, Early, PcTypes, RestTypes
  <1>16. ASSUME StopStreaming
        PROVE  Handles'
    BY <1>16, ThreadFacts
    DEF StopStreaming, Goto, previewFrame, flagVars, Session, NoPreview, Stream, Joined,
        OneCapture, Calling, Stopping, Cleared, Early, PcTypes, RestTypes
  <1> QED
    BY <1>1, <1>2, <1>3, <1>4, <1>5, <1>6, <1>7, <1>8, <1>9, <1>10, <1>11, <1>12, <1>13,
       <1>14, <1>15, <1>16
    DEF Preview

\* a capture thread exits and stays to be joined
LEMMA CaptureHandles ==
    ASSUME ~EarlyStop, IInv, Threading, Handles, NEW c \in CaptureThreads, Capture(c)
    PROVE  Handles'
  <1> USE DEF IInv, Threading, Handles
  <1>1. ASSUME CaptureBegin(c)
        PROVE  Handles'
    BY <1>1, ThreadFacts
    DEF CaptureBegin, Goto, captureVars, streamVars, flagVars, Session, NoPreview, Stream,
        Joined, OneCapture, Calling, Stopping, Cleared, Early, PcTypes, RestTypes
  <1>2. ASSUME CaptureOuter(c)
        PROVE  Handles'
    BY <1>2, ThreadFacts
    DEF CaptureOuter, Goto, captureBuffers, captureFrame, flagVars, Session, NoPreview, Stream,
        Joined, OneCapture, Calling, Stopping, Cleared, Early, PcTypes, RestTypes
  <1>3. ASSUME CaptureArm(c)
        PROVE  Handles'
    BY <1>3, ThreadFacts
    DEF CaptureArm, Goto, captureVars, streamVars, Session, NoPreview, Stream, Joined,
        OneCapture, Calling, Stopping, Cleared, Early, PcTypes, RestTypes
  <1>4. ASSUME CaptureChoose(c)
        PROVE  Handles'
    BY <1>4, ThreadFacts
    DEF CaptureChoose, Goto, captureFrame, flagVars, Session, NoPreview, Stream, Joined,
        OneCapture, Calling, Stopping, Cleared, Early, PcTypes, RestTypes
  <1>5. ASSUME CaptureLoop(c)
        PROVE  Handles'
    BY <1>5, ThreadFacts
    DEF CaptureLoop, Goto, captureBuffers, captureFrame, flagVars, Session, NoPreview, Stream,
        Joined, OneCapture, Calling, Stopping, Cleared, Early, PcTypes, RestTypes
  <1>6. ASSUME WaitCaptureFrame(c)
        PROVE  Handles'
    BY <1>6, ThreadFacts
    DEF WaitCaptureFrame, Goto, TakeCaptureFrame, captureFrame, flagVars, Session, NoPreview,
        Stream, Joined, OneCapture, Calling, Stopping, Cleared, Early, PcTypes, RestTypes
  <1>7. ASSUME WakeCaptureFrame(c)
        PROVE  Handles'
    BY <1>7, ThreadFacts
    DEF WakeCaptureFrame, Goto, TakeCaptureFrame, captureFrame, flagVars, Session, NoPreview,
        Stream, Joined, OneCapture, Calling, Stopping, Cleared, Early, PcTypes, RestTypes
  <1>8. ASSUME CaptureTaken(c)
        PROVE  Handles'
    BY <1>8, ThreadFacts
    DEF CaptureTaken, Goto, captureBuffers, captureFrame, flagVars, Session, NoPreview, Stream,
        Joined, OneCapture, Calling, Stopping, Cleared, Early, PcTypes, RestTypes
  <1>9. ASSUME RenderCapture(c)
        PROVE  Handles'
    BY <1>9, ThreadFacts
    DEF RenderCapture, Goto, captureBuffers, captureFrame, flagVars, Session, NoPreview,
        Stream, Joined, OneCapture, Calling, Stopping, Cleared, Early, PcTypes, RestTypes
  <1>10. ASSUME CopyToSurface(c)
        PROVE  Handles'
    BY <1>10, ThreadFacts
    DEF CopyToSurface, Goto, captureFrame, flagVars, Session, NoPreview, Stream, Joined,
        OneCapture, Calling, Stopping, Cleared, Early, PcTypes, RestTypes
  <1>11. ASSUME Posted(c)
        PROVE  Handles'
    BY <1>11, ThreadFacts
    DEF Posted, Goto, captureFrame, flagVars, Session, NoPreview, Stream, Joined, OneCapture,
        Calling, Stopping, Cleared, Early, PcTypes, RestTypes
  <1>12. ASSUME CaptureCallback(c)
        PROVE  Handles'
    BY <1>12, ThreadFacts
    DEF CaptureCallback, Goto, captureBuffers, captureFrame, flagVars, Session, NoPreview,
        Stream, Joined, OneCapture, Calling, Stopping, Cleared, Early, PcTypes, RestTypes
  <1>13. ASSUME ConvertCallback(c)
        PROVE  Handles'
    BY <1>13, ThreadFacts
    DEF ConvertCallback, Goto, captureBuffers, captureFrame, flagVars, Session, NoPreview,
        Stream, Joined, OneCapture, Calling, Stopping, Cleared, Early, PcTypes, RestTypes
  <1>14. ASSUME RecycleConverted(c)
        PROVE  Handles'
    BY <1>14, ThreadFacts
    DEF RecycleConverted, Goto, captureBuffers, captureFrame, flagVars, Session, NoPreview,
        Stream, Joined, OneCapture, Calling, Stopping, Cleared, Early, PcTypes, RestTypes
  <1>15. ASSUME CallOnFrame(c)
        PROVE  Handles'
    BY <1>15, ThreadFacts
    DEF CallOnFrame, Goto, captureFrame, flagVars, Session, NoPreview, Stream, Joined,
        OneCapture, Calling, Stopping, Cleared, Early, PcTypes, RestTypes
  <1>16. ASSUME ReturnOnFrame(c)
        PROVE  Handles'
    BY <1>16, ThreadFacts
    DEF ReturnOnFrame, Goto, captureFrame, flagVars, Session, NoPreview, Stream, Joined,
        OneCapture, Calling, Stopping, Cleared, Early, PcTypes, RestTypes
  <1>17. ASSUME RecycleCallback(c)
        PROVE  Handles'
    BY <1>17, ThreadFacts
    DEF RecycleCallback, Goto, captureBuffers, captureFrame, flagVars, Session, NoPreview,
        Stream, Joined, OneCapture, Calling, Stopping, Cleared, Early, PcTypes, RestTypes
  <1>18. ASSUME SurfaceEnd(c)
        PROVE  Handles'
    BY <1>18, ThreadFacts
    DEF SurfaceEnd, Goto, captureBuffers, captureFrame, flagVars, Session, NoPreview, Stream,
        Joined, OneCapture, Calling, Stopping, Cleared, Early, PcTypes, RestTypes
  <1>19. ASSUME SurfaceRelease(c)
        PROVE  Handles'
    BY <1>19, ThreadFacts
    DEF SurfaceRelease, Goto, captureFrame, flagVars, Session, NoPreview, Stream, Joined,
        OneCapture, Calling, Stopping, Cleared, Early, PcTypes, RestTypes
  <1>20. ASSUME CaptureBroadcast(c)
        PROVE  Handles'
    BY <1>20, ThreadFacts
    DEF CaptureBroadcast, Goto, captureFrame, flagVars, Session, NoPreview, Stream, Joined,
        OneCapture, Calling, Stopping, Cleared, Early, PcTypes, RestTypes
  <1> QED
    BY <1>1, <1>2, <1>3, <1>4, <1>5, <1>6, <1>7, <1>8, <1>9, <1>10, <1>11, <1>12, <1>13,
       <1>14, <1>15, <1>16, <1>17, <1>18, <1>19, <1>20
    DEF Capture

\* the control thread joins the capture thread that the preview thread has created
LEMMA ControlHandles ==
    ASSUME ~EarlyStop, IInv, Threading, Handles, Control
    PROVE  Handles'
  <1> USE DEF IInv, Threading, Handles
  <1>1. ASSUME NEW w \in Windows, SetPreviewDisplay(w)
        PROVE  Handles'
    BY <1>1, ThreadFacts
    DEF SetPreviewDisplay, Idle, controlFrame, captureVars, streamVars, flagVars, Session,
        NoPreview, Stream, Joined, OneCapture, Calling, Stopping, Cleared, Early, PcTypes,
        RestTypes
  <1>2. ASSUME NEW w \in CaptureWindows, SetCaptureDisplay(w)
        PROVE  Handles'
    BY <1>2, ThreadFacts
    DEF SetCaptureDisplay, Idle, Sleep, StopCapturing, controlFrame, captureVars, streamVars,
        Session, NoPreview, Stream, Joined, OneCapture, Calling, Stopping, Cleared, Early,
        PcTypes, RestTypes
  <1>3. ASSUME NEW cb \in Callbacks, NEW fmt \in PixelFormats, SetFrameCallback(cb, fmt)
        PROVE  Handles'
    BY <1>3, ThreadFacts
    DEF SetFrameCallback, Idle, FrameCallback, Sleep, StopCapturing, controlFrame, captureVars,
        streamVars, Session, NoPreview, Stream, Joined, OneCapture, Calling, Stopping, Cleared,
        Early, PcTypes, RestTypes
  <1>4. ASSUME NEW close \in BOOLEAN, StopPreview(close)
        PROVE  Handles'
    BY <1>4, ThreadFacts
    DEF StopPreview, Idle, FrameCallback, Sleep, StopCapturing, controlFrame, captureVars,
        streamVars, Session, NoPreview, Stream, Joined, OneCapture, Calling, Stopping, Cleared,
        Early, PcTypes, RestTypes
  <1>5. ASSUME SwapFrameCallback
        PROVE  Handles'
    BY <1>5, ThreadFacts
    DEF SwapFrameCallback, Goto, Wake, controlFrame, captureVars, streamVars, flagVars,
        Session, NoPreview, Stream, Joined, OneCapture, Calling, Stopping, Cleared, Early,
        PcTypes, RestTypes
  <1>6. ASSUME SwapCaptureDisplay
        PROVE  Handles'
    BY <1>6, ThreadFacts
    DEF SwapCaptureDisplay, Goto, Wake, controlFrame, captureVars, streamVars, flagVars,
        Session, NoPreview, Stream, Joined, OneCapture, Calling, Stopping, Cleared, Early,
        PcTypes, RestTypes
  <1>7. ASSUME StartPreview
        PROVE  Handles'
    BY <1>7, ThreadFacts
    DEF StartPreview, Goto, controlTargets, controlFrame, captureVars, streamVars, Session,
        NoPreview, Stream, Joined, OneCapture, Calling, Stopping, Cleared, Early, PcTypes,
        RestTypes
  <1>8. ASSUME CreatePreviewThread
        PROVE  Handles'
    BY <1>8, ThreadFacts
    DEF CreatePreviewThread, controlTargets, controlFrame, captureVars, streamVars, flagVars,
        Session, NoPreview, Stream, Joined, OneCapture, Calling, Stopping, Cleared, Early,
        PcTypes, RestTypes
  <1>9. ASSUME StartPreviewFailed
        PROVE  Handles'
    BY <1>9, ThreadFacts
    DEF StartPreviewFailed, Goto, controlTargets, controlFrame, captureVars, streamVars,
        Session, NoPreview, Stream, Joined, OneCapture, Calling, Stopping, Cleared, Early,
        PcTypes, RestTypes
  <1>10. ASSUME ClearRunning
        PROVE  Handles'
    BY <1>10, ThreadFacts
    DEF ClearRunning, controlTargets, controlFrame, captureVars, streamVars, Session,
        NoPreview, Stream, Joined, OneCapture, Calling, Stopping, Cleared, Early, PcTypes,
        RestTypes
  <1>11. ASSUME StopSignalPreview
        PROVE  Handles'
    BY <1>11, ThreadFacts
    DEF StopSignalPreview, Goto, controlTargets, controlFrame, captureVars, streamVars,
        flagVars, Session, NoPreview, Stream, Joined, OneCapture, Calling, Stopping, Cleared,
        Early, PcTypes, RestTypes
  <1>12. ASSUME StopSignalCapture
        PROVE  Handles'
    BY <1>12, ThreadFacts
    DEF StopSignalCapture, Goto, controlTargets, controlFrame, captureVars, streamVars,
        flagVars, Session, NoPreview, Stream, Joined, OneCapture, Calling, Stopping, Cleared,
        Early, PcTypes, RestTypes
  <1>13. ASSUME JoinCaptureThread
        PROVE  Handles'
    BY <1>13, ThreadFacts, SlotFacts
    DEF JoinCaptureThread, streamVars, flagVars, Session, NoPreview, Stream, Joined,
        OneCapture, Calling, Stopping, Cleared, Early, PcTypes, RestTypes
  <1>14. ASSUME JoinPreviewThread
        PROVE  Handles'
    BY <1>14, ThreadFacts
    DEF JoinPreviewThread, controlTargets, controlFrame, captureVars, streamVars, flagVars,
        Session, NoPreview, Stream, Joined, OneCapture, Calling, Stopping, Cleared, Early,
        PcTypes, RestTypes
  <1>15. ASSUME StopClearPreview
        PROVE  Handles'
    BY <1>15, ThreadFacts
    DEF StopClearPreview, Goto, captureVars, streamVars, flagVars, Session, NoPreview, Stream,
        Joined, OneCapture, Calling, Stopping, Cleared, Early, PcTypes, RestTypes
  <1>16. ASSUME StopClearCapture
        PROVE  Handles'
    BY <1>16, ThreadFacts
    DEF StopClearCapture, Goto, captureVars, streamVars, flagVars, Session, NoPreview, Stream,
        Joined, OneCapture, Calling, Stopping, Cleared, Early, PcTypes, RestTypes
  <1>17. ASSUME ReleasePreviewWindow
        PROVE  Handles'
    BY <1>17, ThreadFacts
    DEF ReleasePreviewWindow, Goto, controlFrame, captureVars, streamVars, flagVars, Session,
        NoPreview, Stream, Joined, OneCapture, Calling, Stopping, Cleared, Early, PcTypes,
        RestTypes
  <1>18. ASSUME ReleaseCaptureWindow
        PROVE  Handles'
    BY <1>18, ThreadFacts
    DEF ReleaseCaptureWindow, Goto, controlFrame, captureVars, streamVars, flagVars, Session,
        NoPreview, Stream, Joined, OneCapture, Calling, Stopping, Cleared, Early, PcTypes,
        RestTypes
  <1>19. ASSUME DeletePreview
        PROVE  Handles'
    BY <1>19, ThreadFacts
    DEF DeletePreview, Goto, captureVars, streamVars, flagVars, Session, NoPreview, Stream,
        Joined, OneCapture, Calling, Stopping, Cleared, Early, PcTypes, RestTypes
  <1> QED
    BY <1>1, <1>2, <1>3, <1>4, <1>5, <1>6, <1>7, <1>8, <1>9, <1>10, <1>11, <1>12, <1>13,
       <1>14, <1>15, <1>16, <1>17, <1>18, <1>19
    DEF Control

\* a frame is queued only while the preview runs
LEMMA UsbQueues ==
    ASSUME IInv, Threading, Threading', QueuesEmpty, Usb
    PROVE  QueuesEmpty'
  <1> USE DEF IInv, Threading
  <1>1. ASSUME DeliverFrame
        PROVE  QueuesEmpty'
    BY <1>1, ThreadFacts
    DEF DeliverFrame, usbFrame, captureVars, flagVars, frameVars, queueVars, QueuesEmpty,
        Session, NoPreview, Stream, Calling, Cleared, PcTypes
  <1>2. ASSUME CopyFrame
        PROVE  QueuesEmpty'
    BY <1>2, ThreadFacts
    DEF CopyFrame, Goto, usbFrame, captureVars, flagVars, frameVars, queueVars, QueuesEmpty,
        Session, NoPreview, Stream, Calling, Cleared, PcTypes
  <1>3. ASSUME AddPreviewFrame
        PROVE  QueuesEmpty'
    BY <1>3, ThreadFacts
    DEF AddPreviewFrame, Goto, usbFrame, captureVars, flagVars, QueuesEmpty, Session,
        NoPreview, Stream, Calling, Cleared, PcTypes
  <1>4. ASSUME RecycleCopy
        PROVE  QueuesEmpty'
    BY <1>4, ThreadFacts
    DEF RecycleCopy, Goto, usbFrame, captureVars, flagVars, queueVars, QueuesEmpty, Session,
        NoPreview, Stream, Calling, Cleared, PcTypes
  <1> QED
    BY <1>1, <1>2, <1>3, <1>4
    DEF Usb

\* a frame is handed over only by the preview thread
LEMMA PreviewQueues ==
    ASSUME IInv, Threading, Threading', QueuesEmpty, Preview
    PROVE  QueuesEmpty'
  <1> USE DEF IInv, Threading
  <1>1. ASSUME PreparePreview
        PROVE  QueuesEmpty'
    BY <1>1, ThreadFacts
    DEF PreparePreview, Goto, previewLocal, previewFrame, flagVars, frameVars, queueVars,
        QueuesEmpty, Session, NoPreview, Stream, Calling, Cleared, PcTypes
  <1>2. ASSUME StartStreaming
        PROVE  QueuesEmpty'
    BY <1>2, ThreadFacts
    DEF StartStreaming, Goto, previewFrame, flagVars, frameVars, queueVars, QueuesEmpty,
        Session, NoPreview, Stream, Calling, Cleared, PcTypes
  <1>3. ASSUME ClearStalePreview
        PROVE  QueuesEmpty'
    BY <1>3, ThreadFacts
    DEF ClearStalePreview, Goto, previewLocal, previewFrame, flagVars, ClearPreviewFrame,
        QueuesEmpty, Session, NoPreview, Stream, Calling, Cleared, PcTypes
  <1>4. ASSUME CreateCaptureThread
        PROVE  QueuesEmpty'
    BY <1>4, ThreadFacts
    DEF CreateCaptureThread, previewFrame, flagVars, frameVars, queueVars, QueuesEmpty,
        Session, NoPreview, Stream, Calling, Cleared, PcTypes
  <1>5. ASSUME PreviewLoop
        PROVE  QueuesEmpty'
    BY <1>5, ThreadFacts
    DEF PreviewLoop, Goto, previewLocal, previewFrame, flagVars, frameVars, queueVars,
        QueuesEmpty, Session, NoPreview, Stream, Calling, Cleared, PcTypes
  <1>6. ASSUME WaitPreviewFrame
        PROVE  QueuesEmpty'
    BY <1>6, ThreadFacts
    DEF WaitPreviewFrame, Goto, TakePreviewFrame, previewLocal, previewFrame, flagVars,
        frameVars, queueVars, QueuesEmpty, Session, NoPreview, Stream, Calling, Cleared,
        PcTypes
  <1>7. ASSUME WakePreviewFrame
        PROVE  QueuesEmpty'
    BY <1>7, ThreadFacts
    DEF WakePreviewFrame, Goto, TakePreviewFrame, previewLocal, previewFrame, flagVars,
        QueuesEmpty, Session, NoPreview, Stream, Calling, Cleared, PcTypes
  <1>8. ASSUME DecodeFrame
        PROVE  QueuesEmpty'
    BY <1>8, ThreadFacts
    DEF DecodeFrame, Goto, previewLocal, previewFrame, flagVars, queueVars, QueuesEmpty,
        Session, NoPreview, Stream, Calling, Cleared, PcTypes
  <1>9. ASSUME RecycleMjpeg
        PROVE  QueuesEmpty'
    BY <1>9, ThreadFacts
    DEF RecycleMjpeg, Goto, previewLocal, previewFrame, flagVars, queueVars, QueuesEmpty,
        Session, NoPreview, Stream, Calling, Cleared, PcTypes
  <1>10. ASSUME DropFrame
        PROVE  QueuesEmpty'
    BY <1>10, ThreadFacts
    DEF DropFrame, Goto, previewLocal, previewFrame, flagVars, queueVars, QueuesEmpty, Session,
        NoPreview, Stream, Calling, Cleared, PcTypes
  <1>11. ASSUME DrawIfWindow
        PROVE  QueuesEmpty'
    BY <1>11, ThreadFacts
    DEF DrawIfWindow, Goto, previewLocal, previewFrame, flagVars, frameVars, queueVars,
        QueuesEmpty, Session, NoPreview, Stream, Calling, Cleared, PcTypes
  <1>12. ASSUME ConvertPreview
        PROVE  QueuesEmpty'
    BY <1>12, ThreadFacts
    DEF ConvertPreview, Goto, previewLocal, previewFrame, flagVars, frameVars, queueVars,
        QueuesEmpty, Session, NoPreview, Stream, Calling, Cleared, PcTypes
  <1>13. ASSUME ShowPreview
        PROVE  QueuesEmpty'
    BY <1>13, ThreadFacts
    DEF ShowPreview, Goto, previewLocal, previewFrame, flagVars, queueVars, QueuesEmpty,
        Session, NoPreview, Stream, Calling, Cleared, PcTypes
  <1>14. ASSUME AddCaptureFrame
        PROVE  QueuesEmpty'
    BY <1>14, ThreadFacts
    DEF AddCaptureFrame, Goto, previewLocal, previewFrame, flagVars, QueuesEmpty, Session,
        NoPreview, Stream, Calling, Cleared, PcTypes
  <1>15. ASSUME PreviewSignal
        PROVE  QueuesEmpty'
    BY <1>15, ThreadFacts
    DEF PreviewSignal, Goto, previewLocal, previewFrame, flagVars, frameVars, queueVars,
        QueuesEmpty, Session, NoPreview, Stream, Calling, Cleared, PcTypes
  <1>16. ASSUME StopStreaming
        PROVE  QueuesEmpty'
    BY <1>16, ThreadFacts
    DEF StopStreaming, Goto, previewFrame, flagVars, frameVars, queueVars, QueuesEmpty,
        Session, NoPreview, Stream, Calling, Cleared, PcTypes
  <1> QED
    BY <1>1, <1>2, <1>3, <1>4, <1>5, <1>6, <1>7, <1>8, <1>9, <1>10, <1>11, <1>12, <1>13,
       <1>14, <1>15, <1>16
    DEF Preview

\* a capture thread adds no frame to a queue
LEMMA CaptureQueues ==
    ASSUME IInv, Threading, Threading', QueuesEmpty, NEW c \in CaptureThreads, Capture(c)
    PROVE  QueuesEmpty'
  <1> USE DEF IInv, Threading
  <1>1. ASSUME CaptureBegin(c)
        PROVE  QueuesEmpty'
    BY <1>1, ThreadFacts
    DEF CaptureBegin, Goto, captureVars, streamVars, flagVars, ClearCaptureFrame, QueuesEmpty,
        Session, NoPreview, Stream, Calling, Cleared, PcTypes
  <1>2. ASSUME CaptureOuter(c)
        PROVE  QueuesEmpty'
    BY <1>2, ThreadFacts
    DEF CaptureOuter, Goto, captureBuffers, captureFrame, flagVars, frameVars, QueuesEmpty,
        Session, NoPreview, Stream, Calling, Cleared, PcTypes
  <1>3. ASSUME CaptureArm(c)
        PROVE  QueuesEmpty'
    BY <1>3, ThreadFacts
    DEF CaptureArm, Goto, captureVars, streamVars, frameVars, queueVars, QueuesEmpty, Session,
        NoPreview, Stream, Calling, Cleared, PcTypes
  <1>4. ASSUME CaptureChoose(c)
        PROVE  QueuesEmpty'
    BY <1>4, ThreadFacts
    DEF CaptureChoose, Goto, captureFrame, flagVars, frameVars, QueuesEmpty, Session,
        NoPreview, Stream, Calling, Cleared, PcTypes
  <1>5. ASSUME CaptureLoop(c)
        PROVE  QueuesEmpty'
    BY <1>5, ThreadFacts
    DEF CaptureLoop, Goto, captureBuffers, captureFrame, flagVars, frameVars, QueuesEmpty,
        Session, NoPreview, Stream, Calling, Cleared, PcTypes
  <1>6. ASSUME WaitCaptureFrame(c)
        PROVE  QueuesEmpty'
    BY <1>6, ThreadFacts
    DEF WaitCaptureFrame, Goto, TakeCaptureFrame, captureFrame, flagVars, frameVars,
        QueuesEmpty, Session, NoPreview, Stream, Calling, Cleared, PcTypes
  <1>7. ASSUME WakeCaptureFrame(c)
        PROVE  QueuesEmpty'
    BY <1>7, ThreadFacts
    DEF WakeCaptureFrame, Goto, TakeCaptureFrame, captureFrame, flagVars, QueuesEmpty, Session,
        NoPreview, Stream, Calling, Cleared, PcTypes
  <1>8. ASSUME CaptureTaken(c)
        PROVE  QueuesEmpty'
    BY <1>8, ThreadFacts
    DEF CaptureTaken, Goto, captureBuffers, captureFrame, flagVars, frameVars, QueuesEmpty,
        Session, NoPreview, Stream, Calling, Cleared, PcTypes
  <1>9. ASSUME RenderCapture(c)
        PROVE  QueuesEmpty'
    BY <1>9, ThreadFacts
    DEF RenderCapture, Goto, captureBuffers, captureFrame, flagVars, frameVars, QueuesEmpty,
        Session, NoPreview, Stream, Calling, Cleared, PcTypes
  <1>10. ASSUME CopyToSurface(c)
        PROVE  QueuesEmpty'
    BY <1>10, ThreadFacts
    DEF CopyToSurface, Goto, captureFrame, flagVars, frameVars, QueuesEmpty, Session,
        NoPreview, Stream, Calling, Cleared, PcTypes
  <1>11. ASSUME Posted(c)
        PROVE  QueuesEmpty'
    BY <1>11, ThreadFacts
    DEF Posted, Goto, captureFrame, flagVars, frameVars, QueuesEmpty, Session, NoPreview,
        Stream, Calling, Cleared, PcTypes
  <1>12. ASSUME CaptureCallback(c)
        PROVE  QueuesEmpty'
    BY <1>12, ThreadFacts
    DEF CaptureCallback, Goto, captureBuffers, captureFrame, flagVars, frameVars, QueuesEmpty,
        Session, NoPreview, Stream, Calling, Cleared, PcTypes
  <1>13. ASSUME ConvertCallback(c)
        PROVE  QueuesEmpty'
    BY <1>13, ThreadFacts
    DEF ConvertCallback, Goto, captureBuffers, captureFrame, flagVars, frameVars, QueuesEmpty,
        Session, NoPreview, Stream, Calling, Cleared, PcTypes
  <1>14. ASSUME RecycleConverted(c)
        PROVE  QueuesEmpty'
    BY <1>14, ThreadFacts
    DEF RecycleConverted, Goto, captureBuffers, captureFrame, flagVars, QueuesEmpty, Session,
        NoPreview, Stream, Calling, Cleared, PcTypes
  <1>15. ASSUME CallOnFrame(c)
        PROVE  QueuesEmpty'
    BY <1>15, ThreadFacts
    DEF CallOnFrame, Goto, captureFrame, flagVars, frameVars, QueuesEmpty, Session, NoPreview,
        Stream, Calling, Cleared, PcTypes
  <1>16. ASSUME ReturnOnFrame(c)
        PROVE  QueuesEmpty'
    BY <1>16, ThreadFacts
    DEF ReturnOnFrame, Goto, captureFrame, flagVars, frameVars, QueuesEmpty, Session,
        NoPreview, Stream, Calling, Cleared, PcTypes
  <1>17. ASSUME RecycleCallback(c)
        PROVE  QueuesEmpty'
    BY <1>17, ThreadFacts
    DEF RecycleCallback, Goto, captureBuffers, captureFrame, flagVars, QueuesEmpty, Session,
        NoPreview, Stream, Calling, Cleared, PcTypes
  <1>18. ASSUME SurfaceEnd(c)
        PROVE  QueuesEmpty'
    BY <1>18, ThreadFacts
    DEF SurfaceEnd, Goto, captureBuffers, captureFrame, flagVars, frameVars, QueuesEmpty,
        Session, NoPreview, Stream, Calling, Cleared, PcTypes
  <1>19. ASSUME SurfaceRelease(c)
        PROVE  QueuesEmpty'
    BY <1>19, ThreadFacts
    DEF SurfaceRelease, Goto, captureFrame, flagVars, frameVars, QueuesEmpty, Session,
        NoPreview, Stream, Calling, Cleared, PcTypes
  <1>20. ASSUME CaptureBroadcast(c)
        PROVE  QueuesEmpty'
    BY <1>20, ThreadFacts
    DEF CaptureBroadcast, Goto, captureFrame, flagVars, frameVars, QueuesEmpty, Session,
        NoPreview, Stream, Calling, Cleared, PcTypes
  <1> QED
    BY <1>1, <1>2, <1>3, <1>4, <1>5, <1>6, <1>7, <1>8, <1>9, <1>10, <1>11, <1>12, <1>13,
       <1>14, <1>15, <1>16, <1>17, <1>18, <1>19, <1>20
    DEF Capture

\* the queues are cleared after the threads have been joined
LEMMA ControlQueues ==
    ASSUME IInv, Threading, Threading', QueuesEmpty, Control
    PROVE  QueuesEmpty'
  <1> USE DEF IInv, Threading
  <1>1. ASSUME NEW w \in Windows, SetPreviewDisplay(w)
        PROVE  QueuesEmpty'
    BY <1>1, ThreadFacts
    DEF SetPreviewDisplay, Idle, controlFrame, captureVars, streamVars, flagVars, frameVars,
        queueVars, QueuesEmpty, Session, NoPreview, Stream, Calling, Cleared, PcTypes
  <1>2. ASSUME NEW w \in CaptureWindows, SetCaptureDisplay(w)
        PROVE  QueuesEmpty'
    BY <1>2, ThreadFacts
    DEF SetCaptureDisplay, Idle, Sleep, StopCapturing, controlFrame, captureVars, streamVars,
        frameVars, queueVars, QueuesEmpty, Session, NoPreview, Stream, Calling, Cleared,
        PcTypes
  <1>3. ASSUME NEW cb \in Callbacks, NEW fmt \in PixelFormats, SetFrameCallback(cb, fmt)
        PROVE  QueuesEmpty'
    BY <1>3, ThreadFacts
    DEF SetFrameCallback, Idle, FrameCallback, Sleep, StopCapturing, controlFrame, captureVars,
        streamVars, frameVars, queueVars, QueuesEmpty, Session, NoPreview, Stream, Calling,
        Cleared, PcTypes
  <1>4. ASSUME NEW close \in BOOLEAN, StopPreview(close)
        PROVE  QueuesEmpty'
    BY <1>4, ThreadFacts
    DEF StopPreview, Idle, FrameCallback, Sleep, StopCapturing, controlFrame, captureVars,
        streamVars, frameVars, queueVars, QueuesEmpty, Session, NoPreview, Stream, Calling,
        Cleared, PcTypes
  <1>5. ASSUME SwapFrameCallback
        PROVE  QueuesEmpty'
    BY <1>5, ThreadFacts
    DEF SwapFrameCallback, Goto, Wake, controlFrame, captureVars, streamVars, flagVars,
        frameVars, queueVars, QueuesEmpty, Session, NoPreview, Stream, Calling, Cleared,
        PcTypes
  <1>6. ASSUME SwapCaptureDisplay
        PROVE  QueuesEmpty'
    BY <1>6, ThreadFacts
    DEF SwapCaptureDisplay, Goto, Wake, controlFrame, captureVars, streamVars, flagVars,
        frameVars, queueVars, QueuesEmpty, Session, NoPreview, Stream, Calling, Cleared,
        PcTypes
  <1>7. ASSUME StartPreview
        PROVE  QueuesEmpty'
    BY <1>7, ThreadFacts
    DEF StartPreview, Goto, controlTargets, controlFrame, captureVars, streamVars, frameVars,
        queueVars, QueuesEmpty, Session, NoPreview, Stream, Calling, Cleared, PcTypes
  <1>8. ASSUME CreatePreviewThread
        PROVE  QueuesEmpty'
    BY <1>8, ThreadFacts
    DEF CreatePreviewThread, controlTargets, controlFrame, captureVars, streamVars, flagVars,
        frameVars, queueVars, QueuesEmpty, Session, NoPreview, Stream, Calling, Cleared,
        PcTypes
  <1>9. ASSUME StartPreviewFailed
        PROVE  QueuesEmpty'
    BY <1>9, ThreadFacts
    DEF StartPreviewFailed, Goto, controlTargets, controlFrame, captureVars, streamVars,
        frameVars, queueVars, QueuesEmpty, Session, NoPreview, Stream, Calling, Cleared,
        PcTypes
  <1>10. ASSUME ClearRunning
        PROVE  QueuesEmpty'
    BY <1>10, ThreadFacts
    DEF ClearRunning, controlTargets, controlFrame, captureVars, streamVars, frameVars,
        queueVars, QueuesEmpty, Session, NoPreview, Stream, Calling, Cleared, PcTypes
  <1>11. ASSUME StopSignalPreview
        PROVE  QueuesEmpty'
    BY <1>11, ThreadFacts
    DEF StopSignalPreview, Goto, controlTargets, controlFrame, captureVars, streamVars,
        flagVars, frameVars, queueVars, QueuesEmpty, Session, NoPreview, Stream, Calling,
        Cleared, PcTypes
  <1>12. ASSUME StopSignalCapture
        PROVE  QueuesEmpty'
    BY <1>12, ThreadFacts
    DEF StopSignalCapture, Goto, controlTargets, controlFrame, captureVars, streamVars,
        flagVars, frameVars, queueVars, QueuesEmpty, Session, NoPreview, Stream, Calling,
        Cleared, PcTypes
  <1>13. ASSUME JoinCaptureThread
        PROVE  QueuesEmpty'
    BY <1>13, ThreadFacts, SlotFacts
    DEF JoinCaptureThread, streamVars, flagVars, frameVars, queueVars, QueuesEmpty, Session,
        NoPreview, Stream, Calling, Cleared, PcTypes
  <1>14. ASSUME JoinPreviewThread
        PROVE  QueuesEmpty'
    BY <1>14, ThreadFacts
    DEF JoinPreviewThread, controlTargets, controlFrame, captureVars, streamVars, flagVars,
        frameVars, queueVars, QueuesEmpty, Session, NoPreview, Stream, Calling, Cleared,
        PcTypes
  <1>15. ASSUME StopClearPreview
        PROVE  QueuesEmpty'
    BY <1>15, ThreadFacts
    DEF StopClearPreview, Goto, captureVars, streamVars, flagVars, ClearPreviewFrame,
        QueuesEmpty, Session, NoPreview, Stream, Calling, Cleared, PcTypes
  <1>16. ASSUME StopClearCapture
        PROVE  QueuesEmpty'
    BY <1>16, ThreadFacts
    DEF StopClearCapture, Goto, captureVars, streamVars, flagVars, ClearCaptureFrame,
        QueuesEmpty, Session, NoPreview, Stream, Calling, Cleared, PcTypes
  <1>17. ASSUME ReleasePreviewWindow
        PROVE  QueuesEmpty'
    BY <1>17, ThreadFacts
    DEF ReleasePreviewWindow, Goto, controlFrame, captureVars, streamVars, flagVars, frameVars,
        queueVars, QueuesEmpty, Session, NoPreview, Stream, Calling, Cleared, PcTypes
  <1>18. ASSUME ReleaseCaptureWindow
        PROVE  QueuesEmpty'
    BY <1>18, ThreadFacts
    DEF ReleaseCaptureWindow, Goto, controlFrame, captureVars, streamVars, flagVars, frameVars,
        queueVars, QueuesEmpty, Session, NoPreview, Stream, Calling, Cleared, PcTypes
  <1>19. ASSUME DeletePreview
        PROVE  QueuesEmpty'
    BY <1>19, ThreadFacts
    DEF DeletePreview, Goto, captureVars, streamVars, flagVars, QueuesEmpty, Session,
        NoPreview, Stream, Calling, Cleared, PcTypes
  <1> QED
    BY <1>1, <1>2, <1>3, <1>4, <1>5, <1>6, <1>7, <1>8, <1>9, <1>10, <1>11, <1>12, <1>13,
       <1>14, <1>15, <1>16, <1>17, <1>18, <1>19
    DEF Control
\* Copy holds a frame only until it is queued or recycled
LEMMA UsbSlots ==
    ASSUME IInv, Threading, Threading', SlotsFit, Usb
    PROVE  SlotsFit'
  <1> USE DEF IInv, Threading
  <1>1. ASSUME DeliverFrame
        PROVE  SlotsFit'
    BY <1>1, ThreadFacts, SlotsApart
    DEF DeliverFrame, usbFrame, captureVars, flagVars, frameVars, queueVars, SlotsFit,
        Rendering, FrameInv, FrameTypes, PcTypes, RestTypes, NoNullFrame, CaptureHolds
  <1>2. ASSUME CopyFrame
        PROVE  SlotsFit'
    <2>1. \A x \in Slots \ {Copy} : local'[x] = local[x]
      BY <1>2, SlotFacts DEF CopyFrame, GetFrame, frameVars, FrameInv, FrameTypes
    <2>2. /\ \A t \in Threads \ {"usb"} : pc'[t] = pc[t]
          /\ pc["usb"] = "copy" /\ surface' = surface
          /\ \/ pc'["usb"] \in {"add", "recycle"}
             \/ pc'["usb"] = "idle" /\ local' = local
      BY <1>2, ThreadFacts DEF CopyFrame, usbFrame, captureVars, Goto, PcTypes, frameVars
    <2> QED
      BY <2>1, <2>2, ThreadFacts, SlotsApart DEF SlotsFit, Rendering
  <1>3. ASSUME AddPreviewFrame
        PROVE  SlotsFit'
    BY <1>3, ThreadFacts, SlotsApart
    DEF AddPreviewFrame, Goto, usbFrame, captureVars, flagVars, SlotsFit, Rendering,
        FrameInv, FrameTypes, PcTypes, RestTypes, NoNullFrame, CaptureHolds
  <1>4. ASSUME RecycleCopy
        PROVE  SlotsFit'
    BY <1>4, ThreadFacts, SlotsApart
    DEF RecycleCopy, Goto, usbFrame, captureVars, flagVars, Recycle, queueVars, SlotsFit,
        Rendering, FrameInv, FrameTypes, PcTypes, RestTypes, NoNullFrame, CaptureHolds
  <1> QED
    BY <1>1, <1>2, <1>3, <1>4
    DEF Usb

\* the preview thread holds frames only between its steps that use them
LEMMA PreviewSlots ==
    ASSUME IInv, Threading, Threading', SlotsFit, Preview
    PROVE  SlotsFit'
  <1> USE DEF IInv, Threading
  <1>1. ASSUME PreparePreview
        PROVE  SlotsFit'
    BY <1>1, ThreadFacts, SlotsApart
    DEF PreparePreview, Goto, previewLocal, previewFrame, flagVars, frameVars, queueVars,
        SlotsFit, Rendering, FrameInv, FrameTypes, PcTypes, RestTypes, NoNullFrame,
        CaptureHolds
  <1>2. ASSUME StartStreaming
        PROVE  SlotsFit'
    BY <1>2, ThreadFacts, SlotsApart
    DEF StartStreaming, Goto, previewFrame, flagVars, frameVars, queueVars, SlotsFit,
        Rendering, FrameInv, FrameTypes, PcTypes, RestTypes, NoNullFrame, CaptureHolds
  <1>3. ASSUME ClearStalePreview
        PROVE  SlotsFit'
    BY <1>3, ThreadFacts, SlotsApart
    DEF ClearStalePreview, Goto, previewLocal, previewFrame, flagVars, ClearPreviewFrame,
        SlotsFit, Rendering, FrameInv, FrameTypes, PcTypes, RestTypes, NoNullFrame,
        CaptureHolds
  <1>4. ASSUME CreateCaptureThread
        PROVE  SlotsFit'
    <2>1. local' = local /\ surface' = surface
      BY <1>4 DEF CreateCaptureThread, previewFrame, frameVars
    <2>2. PICK d \in CaptureThreads :
             pc[d] = "none" /\ pc' = [pc EXCEPT !["preview"] = "loop", ![d] = "begin"]
      BY <1>4 DEF CreateCaptureThread
    <2>3. /\ \A t \in Threads \ {d, "preview"} : pc'[t] = pc[t]
          /\ pc'[d] = "begin" /\ pc["preview"] = "create" /\ pc'["preview"] = "loop"
      BY <1>4, <2>2, ThreadFacts DEF CreateCaptureThread, PcTypes
    <2> QED
      BY <2>1, <2>2, <2>3, ThreadFacts DEF SlotsFit, Rendering
  <1>5. ASSUME PreviewLoop
        PROVE  SlotsFit'
    BY <1>5, ThreadFacts, SlotsApart
    DEF PreviewLoop, Goto, previewLocal, previewFrame, flagVars, frameVars, queueVars,
        SlotsFit, Rendering, FrameInv, FrameTypes, PcTypes, RestTypes, NoNullFrame,
        CaptureHolds
  <1>6. ASSUME WaitPreviewFrame
        PROVE  SlotsFit'
    <2>1. \/ UNCHANGED local /\ pc'["preview"] \in {"loop", "woken"}
          \/ /\ \A x \in Slots \ {IF Mjpeg THEN MjpegIn ELSE Frame} : local'[x] = local[x]
             /\ pc'["preview"] = IF Mjpeg THEN "decode" ELSE "draw"
      BY <1>6, ThreadFacts, SlotFacts
      DEF WaitPreviewFrame, TakePreviewFrame, Goto, frameVars, FrameInv, FrameTypes, PcTypes
    <2>2. /\ \A t \in Threads \ {"preview"} : pc'[t] = pc[t]
          /\ pc["preview"] \in {"wait", "woken"} /\ surface' = surface
      BY <1>6, ThreadFacts DEF WaitPreviewFrame, TakePreviewFrame, Goto, PcTypes,
         previewLocal, previewFrame
    <2> QED
      BY <2>1, <2>2, ThreadFacts, SlotsApart DEF SlotsFit, Rendering
  <1>7. ASSUME WakePreviewFrame
        PROVE  SlotsFit'
    <2>1. \/ UNCHANGED local /\ pc'["preview"] \in {"loop", "woken"}
          \/ /\ \A x \in Slots \ {IF Mjpeg THEN MjpegIn ELSE Frame} : local'[x] = local[x]
             /\ pc'["preview"] = IF Mjpeg THEN "decode" ELSE "draw"
      BY <1>7, ThreadFacts, SlotFacts
      DEF WakePreviewFrame, TakePreviewFrame, Goto, frameVars, FrameInv, FrameTypes, PcTypes
    <2>2. /\ \A t \in Threads \ {"preview"} : pc'[t] = pc[t]
          /\ pc["preview"] \in {"wait", "woken"} /\ surface' = surface
      BY <1>7, ThreadFacts DEF WakePreviewFrame, TakePreviewFrame, Goto, PcTypes,
         previewLocal, previewFrame
    <2> QED
      BY <2>1, <2>2, ThreadFacts, SlotsApart DEF SlotsFit, Rendering
  <1>8. ASSUME DecodeFrame
        PROVE  SlotsFit'
    <2>1. \A x \in Slots \ {Frame} : local'[x] = local[x]
      BY <1>8, SlotFacts DEF DecodeFrame, GetFrame, frameVars, FrameInv, FrameTypes
    <2>2. /\ \A t \in Threads \ {"preview"} : pc'[t] = pc[t]
          /\ pc["preview"] = "decode" /\ surface' = surface
          /\ \/ pc'["preview"] \in {"decoded", "undecoded"}
             \/ pc'["preview"] = "crashed" /\ local' = local
      BY <1>8, ThreadFacts DEF DecodeFrame, previewLocal, previewFrame, Goto, PcTypes,
         frameVars
    <2> QED
      BY <2>1, <2>2, ThreadFacts, SlotsApart DEF SlotsFit, Rendering
  <1>9. ASSUME RecycleMjpeg
        PROVE  SlotsFit'
    BY <1>9, ThreadFacts, SlotsApart
    DEF RecycleMjpeg, Goto, previewLocal, previewFrame, flagVars, Recycle, queueVars,
        SlotsFit, Rendering, FrameInv, FrameTypes, PcTypes, RestTypes, NoNullFrame,
        CaptureHolds
  <1>10. ASSUME DropFrame
        PROVE  SlotsFit'
    BY <1>10, ThreadFacts, SlotsApart
    DEF DropFrame, Goto, previewLocal, previewFrame, flagVars, Recycle, queueVars, SlotsFit,
        Rendering, FrameInv, FrameTypes, PcTypes, RestTypes, NoNullFrame, CaptureHolds
  <1>11. ASSUME DrawIfWindow
        PROVE  SlotsFit'
    BY <1>11, ThreadFacts, SlotsApart
    DEF DrawIfWindow, Goto, previewLocal, previewFrame, flagVars, frameVars, queueVars,
        SlotsFit, Rendering, FrameInv, FrameTypes, PcTypes, RestTypes, NoNullFrame,
        CaptureHolds
  <1>12. ASSUME ConvertPreview
        PROVE  SlotsFit'
    <2>1. \A x \in Slots \ {Converted} : local'[x] = local[x]
      BY <1>12, SlotFacts DEF ConvertPreview, GetFrame, frameVars, FrameInv, FrameTypes
    <2>2. /\ \A t \in Threads \ {"preview"} : pc'[t] = pc[t]
          /\ pc["preview"] = "convert" /\ surface' = surface
          /\ \/ pc'["preview"] \in {"show"}
             \/ pc'["preview"] = "addCapture" /\ local' = local
      BY <1>12, ThreadFacts DEF ConvertPreview, previewLocal, previewFrame, Goto, PcTypes,
         frameVars
    <2> QED
      BY <2>1, <2>2, ThreadFacts, SlotsApart DEF SlotsFit, Rendering
  <1>13. ASSUME ShowPreview
        PROVE  SlotsFit'
    BY <1>13, ThreadFacts, SlotsApart
    DEF ShowPreview, Goto, previewLocal, previewFrame, flagVars, Recycle, queueVars,
        SlotsFit, Rendering, FrameInv, FrameTypes, PcTypes, RestTypes, NoNullFrame,
        CaptureHolds
  <1>14. ASSUME AddCaptureFrame
        PROVE  SlotsFit'
    BY <1>14, ThreadFacts, SlotsApart
    DEF AddCaptureFrame, Goto, previewLocal, previewFrame, flagVars, SlotsFit, Rendering,
        FrameInv, FrameTypes, PcTypes, RestTypes, NoNullFrame, CaptureHolds
  <1>15. ASSUME PreviewSignal
        PROVE  SlotsFit'
    BY <1>15, ThreadFacts, SlotsApart
    DEF PreviewSignal, Goto, previewLocal, previewFrame, flagVars, frameVars, queueVars,
        SlotsFit, Rendering, FrameInv, FrameTypes, PcTypes, RestTypes, NoNullFrame,
        CaptureHolds
  <1>16. ASSUME StopStreaming
        PROVE  SlotsFit'
    BY <1>16, ThreadFacts, SlotsApart
    DEF StopStreaming, Goto, previewFrame, flagVars, frameVars, queueVars, SlotsFit,
        Rendering, FrameInv, FrameTypes, PcTypes, RestTypes, NoNullFrame, CaptureHolds
  <1> QED
    BY <1>1, <1>2, <1>3, <1>4, <1>5, <1>6, <1>7, <1>8, <1>9, <1>10, <1>11, <1>12, <1>13,
       <1>14, <1>15, <1>16
    DEF Preview

\* a capture thread holds frames only between its steps that use them
LEMMA CaptureSlots ==
    ASSUME IInv, Threading, Threading', SlotsFit, NEW c \in CaptureThreads, Capture(c)
    PROVE  SlotsFit'
  <1> USE DEF IInv, Threading
  <1>1. ASSUME CaptureBegin(c)
        PROVE  SlotsFit'
    BY <1>1, ThreadFacts, SlotsApart
    DEF CaptureBegin, Goto, captureVars, streamVars, flagVars, ClearCaptureFrame, SlotsFit,
        Rendering, FrameInv, FrameTypes, PcTypes, RestTypes, NoNullFrame, CaptureHolds
  <1>2. ASSUME CaptureOuter(c)
        PROVE  SlotsFit'
    BY <1>2, ThreadFacts, SlotsApart
    DEF CaptureOuter, Goto, captureBuffers, captureFrame, flagVars, frameVars, SlotsFit,
        Rendering, FrameInv, FrameTypes, PcTypes, RestTypes, NoNullFrame, CaptureHolds
  <1>3. ASSUME CaptureArm(c)
        PROVE  SlotsFit'
    BY <1>3, ThreadFacts, SlotsApart
    DEF CaptureArm, Goto, captureVars, streamVars, frameVars, queueVars, SlotsFit,
        Rendering, FrameInv, FrameTypes, PcTypes, RestTypes, NoNullFrame, CaptureHolds
  <1>4. ASSUME CaptureChoose(c)
        PROVE  SlotsFit'
    BY <1>4, ThreadFacts, SlotsApart
    DEF CaptureChoose, Goto, captureFrame, flagVars, frameVars, SlotsFit, Rendering,
        FrameInv, FrameTypes, PcTypes, RestTypes, NoNullFrame, CaptureHolds
  <1>5. ASSUME CaptureLoop(c)
        PROVE  SlotsFit'
    BY <1>5, ThreadFacts, SlotsApart
    DEF CaptureLoop, Goto, captureBuffers, captureFrame, flagVars, frameVars, SlotsFit,
        Rendering, FrameInv, FrameTypes, PcTypes, RestTypes, NoNullFrame, CaptureHolds
  <1>6. ASSUME WaitCaptureFrame(c)
        PROVE  SlotsFit'
    <2>1. \/ UNCHANGED local /\ pc'[c] \in {"loop", "woken"}
          \/ /\ \A x \in Slots \ {CapFrame(c)} : local'[x] = local[x]
             /\ pc'[c] = "taken"
      BY <1>6, ThreadFacts, SlotFacts
      DEF WaitCaptureFrame, TakeCaptureFrame, Goto, frameVars, FrameInv, FrameTypes, PcTypes
    <2>2. /\ \A t \in Threads \ {c} : pc'[t] = pc[t]
          /\ pc[c] \in {"wait", "woken"} /\ surface' = surface
      BY <1>6, ThreadFacts DEF WaitCaptureFrame, TakeCaptureFrame, Goto, PcTypes,
         captureFrame
    <2> QED
      BY <2>1, <2>2, ThreadFacts, SlotsApart DEF SlotsFit, Rendering
  <1>7. ASSUME WakeCaptureFrame(c)
        PROVE  SlotsFit'
    <2>1. \/ UNCHANGED local /\ pc'[c] \in {"loop", "woken"}
          \/ /\ \A x \in Slots \ {CapFrame(c)} : local'[x] = local[x]
             /\ pc'[c] = "taken"
      BY <1>7, ThreadFacts, SlotFacts
      DEF WakeCaptureFrame, TakeCaptureFrame, Goto, frameVars, FrameInv, FrameTypes, PcTypes
    <2>2. /\ \A t \in Threads \ {c} : pc'[t] = pc[t]
          /\ pc[c] \in {"wait", "woken"} /\ surface' = surface
      BY <1>7, ThreadFacts DEF WakeCaptureFrame, TakeCaptureFrame, Goto, PcTypes,
         captureFrame
    <2> QED
      BY <2>1, <2>2, ThreadFacts, SlotsApart DEF SlotsFit, Rendering
  <1>8. ASSUME CaptureTaken(c)
        PROVE  SlotsFit'
    BY <1>8, ThreadFacts, SlotsApart
    DEF CaptureTaken, Goto, captureBuffers, captureFrame, flagVars, frameVars, SlotsFit,
        Rendering, FrameInv, FrameTypes, PcTypes, RestTypes, NoNullFrame, CaptureHolds
  <1>9. ASSUME RenderCapture(c)
        PROVE  SlotsFit'
    <2>1. \A x \in Slots \ {CapConverted(c)} : local'[x] = local[x]
      BY <1>9, SlotFacts DEF RenderCapture, GetFrame, frameVars, FrameInv, FrameTypes
    <2>2. /\ \A t \in Threads \ {c} : pc'[t] = pc[t]
          /\ pc[c] = "render" /\ surface' = surface
          /\ \/ pc'[c] \in {"copyToSurface", "callback"}
             \/ pc'[c] = "callback" /\ local' = local
      BY <1>9, ThreadFacts DEF RenderCapture, captureBuffers, captureFrame, Goto, PcTypes,
         frameVars
    <2> QED
      BY <2>1, <2>2, ThreadFacts, SlotsApart DEF SlotsFit, Rendering
  <1>10. ASSUME CopyToSurface(c)
        PROVE  SlotsFit'
    BY <1>10, ThreadFacts, SlotsApart
    DEF CopyToSurface, Goto, captureFrame, flagVars, frameVars, SlotsFit, Rendering,
        FrameInv, FrameTypes, PcTypes, RestTypes, NoNullFrame, CaptureHolds
  <1>11. ASSUME Posted(c)
        PROVE  SlotsFit'
    BY <1>11, ThreadFacts, SlotsApart
    DEF Posted, Goto, captureFrame, flagVars, frameVars, SlotsFit, Rendering, FrameInv,
        FrameTypes, PcTypes, RestTypes, NoNullFrame, CaptureHolds
  <1>12. ASSUME CaptureCallback(c)
        PROVE  SlotsFit'
    BY <1>12, ThreadFacts, SlotsApart
    DEF CaptureCallback, Goto, captureBuffers, captureFrame, flagVars, frameVars, SlotsFit,
        Rendering, FrameInv, FrameTypes, PcTypes, RestTypes, NoNullFrame, CaptureHolds
  <1>13. ASSUME ConvertCallback(c)
        PROVE  SlotsFit'
    <2>1. \A x \in Slots \ {CapCallback(c)} : local'[x] = local[x]
      BY <1>13, SlotFacts DEF ConvertCallback, GetFrame, frameVars, FrameInv, FrameTypes
    <2>2. /\ \A t \in Threads \ {c} : pc'[t] = pc[t]
          /\ pc[c] = "convert" /\ surface' = surface
          /\ \/ pc'[c] \in {"converted", "unconverted"}
             \/ pc'[c] = "recycle" /\ local' = local
      BY <1>13, ThreadFacts DEF ConvertCallback, captureBuffers, captureFrame, Goto,
         PcTypes, frameVars
    <2> QED
      BY <2>1, <2>2, ThreadFacts, SlotsApart DEF SlotsFit, Rendering
  <1>14. ASSUME RecycleConverted(c)
        PROVE  SlotsFit'
    BY <1>14, ThreadFacts, SlotsApart
    DEF RecycleConverted, Goto, captureBuffers, captureFrame, flagVars, Recycle, SlotsFit,
        Rendering, FrameInv, FrameTypes, PcTypes, RestTypes, NoNullFrame, CaptureHolds
  <1>15. ASSUME CallOnFrame(c)
        PROVE  SlotsFit'
    BY <1>15, ThreadFacts, SlotsApart
    DEF CallOnFrame, Goto, captureFrame, flagVars, CallbackSlot, frameVars, SlotsFit,
        Rendering, FrameInv, FrameTypes, PcTypes, RestTypes, NoNullFrame, CaptureHolds
  <1>16. ASSUME ReturnOnFrame(c)
        PROVE  SlotsFit'
    BY <1>16, ThreadFacts, SlotsApart
    DEF ReturnOnFrame, Goto, captureFrame, flagVars, frameVars, SlotsFit, Rendering,
        FrameInv, FrameTypes, PcTypes, RestTypes, NoNullFrame, CaptureHolds
  <1>17. ASSUME RecycleCallback(c)
        PROVE  SlotsFit'
    BY <1>17, ThreadFacts, SlotsApart
    DEF RecycleCallback, Goto, captureBuffers, captureFrame, flagVars, Recycle,
        CallbackSlot, SlotsFit, Rendering, FrameInv, FrameTypes, PcTypes, RestTypes,
        NoNullFrame, CaptureHolds
  <1>18. ASSUME SurfaceEnd(c)
        PROVE  SlotsFit'
    BY <1>18, ThreadFacts, SlotsApart
    DEF SurfaceEnd, Goto, captureBuffers, captureFrame, flagVars, Recycle, frameVars,
        SlotsFit, Rendering, FrameInv, FrameTypes, PcTypes, RestTypes, NoNullFrame,
        CaptureHolds
  <1>19. ASSUME SurfaceRelease(c)
        PROVE  SlotsFit'
    BY <1>19, ThreadFacts, SlotsApart
    DEF SurfaceRelease, Goto, captureFrame, flagVars, frameVars, SlotsFit, Rendering,
        FrameInv, FrameTypes, PcTypes, RestTypes, NoNullFrame, CaptureHolds
  <1>20. ASSUME CaptureBroadcast(c)
        PROVE  SlotsFit'
    BY <1>20, ThreadFacts, SlotsApart
    DEF CaptureBroadcast, Goto, captureFrame, flagVars, frameVars, SlotsFit, Rendering,
        FrameInv, FrameTypes, PcTypes, RestTypes, NoNullFrame, CaptureHolds
  <1> QED
    BY <1>1, <1>2, <1>3, <1>4, <1>5, <1>6, <1>7, <1>8, <1>9, <1>10, <1>11, <1>12, <1>13,
       <1>14, <1>15, <1>16, <1>17, <1>18, <1>19, <1>20
    DEF Capture

\* the control thread holds no frame
LEMMA ControlSlots ==
    ASSUME IInv, Threading, Threading', SlotsFit, Control
    PROVE  SlotsFit'
  <1> USE DEF IInv, Threading
  <1>1. ASSUME NEW w \in Windows, SetPreviewDisplay(w)
        PROVE  SlotsFit'
    BY <1>1, ThreadFacts, SlotsApart
    DEF SetPreviewDisplay, Idle, controlFrame, captureVars, streamVars, flagVars, frameVars,
        queueVars, SlotsFit, Rendering, FrameInv, FrameTypes, PcTypes, RestTypes,
        NoNullFrame, CaptureHolds
  <1>2. ASSUME NEW w \in CaptureWindows, SetCaptureDisplay(w)
        PROVE  SlotsFit'
    BY <1>2, ThreadFacts, SlotsApart
    DEF SetCaptureDisplay, Idle, Sleep, StopCapturing, controlFrame, captureVars,
        streamVars, frameVars, queueVars, SlotsFit, Rendering, FrameInv, FrameTypes,
        PcTypes, RestTypes, NoNullFrame, CaptureHolds
  <1>3. ASSUME NEW cb \in Callbacks, NEW fmt \in PixelFormats, SetFrameCallback(cb, fmt)
        PROVE  SlotsFit'
    BY <1>3, ThreadFacts, SlotsApart
    DEF SetFrameCallback, Idle, FrameCallback, Sleep, StopCapturing, controlFrame,
        captureVars, streamVars, frameVars, queueVars, SlotsFit, Rendering, FrameInv,
        FrameTypes, PcTypes, RestTypes, NoNullFrame, CaptureHolds
  <1>4. ASSUME NEW close \in BOOLEAN, StopPreview(close)
        PROVE  SlotsFit'
    BY <1>4, ThreadFacts, SlotsApart
    DEF StopPreview, Idle, FrameCallback, Sleep, StopCapturing, controlFrame, captureVars,
        streamVars, frameVars, queueVars, SlotsFit, Rendering, FrameInv, FrameTypes,
        PcTypes, RestTypes, NoNullFrame, CaptureHolds
  <1>5. ASSUME SwapFrameCallback
        PROVE  SlotsFit'
    BY <1>5, ThreadFacts, SlotsApart
    DEF SwapFrameCallback, Goto, Wake, controlFrame, captureVars, streamVars, flagVars,
        frameVars, queueVars, SlotsFit, Rendering, FrameInv, FrameTypes, PcTypes, RestTypes,
        NoNullFrame, CaptureHolds
  <1>6. ASSUME SwapCaptureDisplay
        PROVE  SlotsFit'
    BY <1>6, ThreadFacts, SlotsApart
    DEF SwapCaptureDisplay, Goto, Wake, controlFrame, captureVars, streamVars, flagVars,
        frameVars, queueVars, SlotsFit, Rendering, FrameInv, FrameTypes, PcTypes, RestTypes,
        NoNullFrame, CaptureHolds
  <1>7. ASSUME StartPreview
        PROVE  SlotsFit'
    BY <1>7, ThreadFacts, SlotsApart
    DEF StartPreview, Goto, controlTargets, controlFrame, captureVars, streamVars,
        frameVars, queueVars, SlotsFit, Rendering, FrameInv, FrameTypes, PcTypes, RestTypes,
        NoNullFrame, CaptureHolds
  <1>8. ASSUME CreatePreviewThread
        PROVE  SlotsFit'
    <2>1. local' = local /\ surface' = surface
      BY <1>8 DEF CreatePreviewThread, controlTargets, controlFrame, frameVars, captureVars
    <2>2. /\ \A t \in Threads \ {"control", "preview"} : pc'[t] = pc[t]
          /\ pc'["preview"] \in {pc["preview"], "prepare"} /\ pc["preview"] = "none"
      BY <1>8, ThreadFacts
      DEF CreatePreviewThread, Goto, PcTypes, Session, NoPreview, Cleared
    <2> QED
      BY <2>1, <2>2, ThreadFacts DEF SlotsFit, Rendering
  <1>9. ASSUME StartPreviewFailed
        PROVE  SlotsFit'
    BY <1>9, ThreadFacts, SlotsApart
    DEF StartPreviewFailed, Goto, controlTargets, controlFrame, captureVars, streamVars,
        frameVars, queueVars, SlotsFit, Rendering, FrameInv, FrameTypes, PcTypes, RestTypes,
        NoNullFrame, CaptureHolds
  <1>10. ASSUME ClearRunning
        PROVE  SlotsFit'
    BY <1>10, ThreadFacts, SlotsApart
    DEF ClearRunning, controlTargets, controlFrame, captureVars, streamVars, frameVars,
        queueVars, SlotsFit, Rendering, FrameInv, FrameTypes, PcTypes, RestTypes,
        NoNullFrame, CaptureHolds
  <1>11. ASSUME StopSignalPreview
        PROVE  SlotsFit'
    BY <1>11, ThreadFacts, SlotsApart
    DEF StopSignalPreview, Goto, controlTargets, controlFrame, captureVars, streamVars,
        flagVars, frameVars, queueVars, SlotsFit, Rendering, FrameInv, FrameTypes, PcTypes,
        RestTypes, NoNullFrame, CaptureHolds
  <1>12. ASSUME StopSignalCapture
        PROVE  SlotsFit'
    BY <1>12, ThreadFacts, SlotsApart
    DEF StopSignalCapture, Goto, controlTargets, controlFrame, captureVars, streamVars,
        flagVars, frameVars, queueVars, SlotsFit, Rendering, FrameInv, FrameTypes, PcTypes,
        RestTypes, NoNullFrame, CaptureHolds
  <1>13. ASSUME JoinCaptureThread
        PROVE  SlotsFit'
    <2>1. local' = local /\ surface' = surface
      BY <1>13 DEF JoinCaptureThread, frameVars
    <2>2. \A t \in Threads \ {"control"} :
             \/ pc'[t] = pc[t]
             \/ t \in CaptureThreads /\ pc[t] = "exited" /\ pc'[t] = "none"
      <3>1. CASE capture_thread = NULL
        BY <1>13, <3>1, ThreadFacts DEF JoinCaptureThread, PcTypes
      <3>2. CASE capture_thread # NULL
        <4>1. capture_thread \in CaptureThreads /\ pc[capture_thread] = "exited"
          BY <1>13, <3>2 DEF JoinCaptureThread, RestTypes
        <4>2. pc' = [pc EXCEPT !["control"] = "stop.joinPreview", ![capture_thread] = "none"]
          BY <1>13, <3>2 DEF JoinCaptureThread
        <4> QED
          BY <4>1, <4>2, ThreadFacts DEF PcTypes
      <3> QED
        BY <3>1, <3>2
    <2> QED
      BY <2>1, <2>2, ThreadFacts DEF SlotsFit, Rendering
  <1>14. ASSUME JoinPreviewThread
        PROVE  SlotsFit'
    BY <1>14, ThreadFacts, SlotsApart
    DEF JoinPreviewThread, controlTargets, controlFrame, captureVars, streamVars, flagVars,
        frameVars, queueVars, SlotsFit, Rendering, FrameInv, FrameTypes, PcTypes, RestTypes,
        NoNullFrame, CaptureHolds
  <1>15. ASSUME StopClearPreview
        PROVE  SlotsFit'
    BY <1>15, ThreadFacts, SlotsApart
    DEF StopClearPreview, Goto, captureVars, streamVars, flagVars, ClearPreviewFrame,
        SlotsFit, Rendering, FrameInv, FrameTypes, PcTypes, RestTypes, NoNullFrame,
        CaptureHolds
  <1>16. ASSUME StopClearCapture
        PROVE  SlotsFit'
    BY <1>16, ThreadFacts, SlotsApart
    DEF StopClearCapture, Goto, captureVars, streamVars, flagVars, ClearCaptureFrame,
        SlotsFit, Rendering, FrameInv, FrameTypes, PcTypes, RestTypes, NoNullFrame,
        CaptureHolds
  <1>17. ASSUME ReleasePreviewWindow
        PROVE  SlotsFit'
    BY <1>17, ThreadFacts, SlotsApart
    DEF ReleasePreviewWindow, Goto, controlFrame, captureVars, streamVars, flagVars,
        frameVars, queueVars, SlotsFit, Rendering, FrameInv, FrameTypes, PcTypes, RestTypes,
        NoNullFrame, CaptureHolds
  <1>18. ASSUME ReleaseCaptureWindow
        PROVE  SlotsFit'
    BY <1>18, ThreadFacts, SlotsApart
    DEF ReleaseCaptureWindow, Goto, controlFrame, captureVars, streamVars, flagVars,
        frameVars, queueVars, SlotsFit, Rendering, FrameInv, FrameTypes, PcTypes, RestTypes,
        NoNullFrame, CaptureHolds
  <1>19. ASSUME DeletePreview
        PROVE  SlotsFit'
    BY <1>19, ThreadFacts, SlotsApart
    DEF DeletePreview, Goto, captureVars, streamVars, flagVars, SlotsFit, Rendering,
        FrameInv, FrameTypes, PcTypes, RestTypes, NoNullFrame, CaptureHolds
  <1> QED
    BY <1>1, <1>2, <1>3, <1>4, <1>5, <1>6, <1>7, <1>8, <1>9, <1>10, <1>11, <1>12, <1>13,
       <1>14, <1>15, <1>16, <1>17, <1>18, <1>19
    DEF Control

\* no thread, no frame
LEMMA LifeInit == Init => Life
  <1> SUFFICES ASSUME Init
               PROVE  Life
    OBVIOUS
  <1>1. /\ pc["control"] = "idle" /\ pc["usb"] = "idle" /\ pc["preview"] = "none"
        /\ \A c \in CaptureThreads : pc[c] = "none"
        /\ ~mIsRunning /\ ~streaming /\ capture_thread = NULL
        /\ previewFrames = <<>> /\ captureQueu = NULL
        /\ \A s \in Slots : local[s] = NULL
    BY ThreadFacts DEF Init
  <1>2. Threading
    BY <1>1, ThreadFacts
    DEF Threading, Session, NoPreview, Stream, Calling, Cleared
  <1>3. QueuesEmpty
    BY <1>1 DEF QueuesEmpty
  <1>4. SlotsFit
    BY <1>1, SlotsApart DEF SlotsFit
  <1> QED
    BY <1>2, <1>3, <1>4 DEF Life

\* Life is preserved by every step
LEMMA LifeStep ==
    ASSUME IInv, Life, [Next]_vars
    PROVE  Life'
  <1> USE DEF Life
  <1>1. CASE Control
    <2>1. Threading'
      BY <1>1, ControlThreads
    <2> QED
      BY <1>1, <2>1, ControlQueues, ControlSlots
  <1>2. CASE Usb
    <2>1. Threading'
      BY <1>2, UsbThreads
    <2> QED
      BY <1>2, <2>1, UsbQueues, UsbSlots
  <1>3. CASE Preview
    <2>1. Threading'
      BY <1>3, PreviewThreads
    <2> QED
      BY <1>3, <2>1, PreviewQueues, PreviewSlots
  <1>4. ASSUME NEW c \in CaptureThreads, Capture(c)
        PROVE  Life'
    <2>1. Threading'
      BY <1>4, CaptureThreadsStep
    <2> QED
      BY <1>4, <2>1, CaptureQueues, CaptureSlots
  <1>5. CASE SpuriousWakeup \/ UNCHANGED vars
    <2>1. UNCHANGED <<frameVars, queueVars, flagVars, pc, captureVars, streamVars>>
      BY <1>5 DEF SpuriousWakeup, vars
    <2>2. /\ previewFrames' = previewFrames /\ captureQueu' = captureQueu /\ local' = local
          /\ mIsRunning' = mIsRunning /\ pc' = pc /\ capture_thread' = capture_thread
          /\ surface' = surface /\ streaming' = streaming
      BY <2>1 DEF frameVars, queueVars, flagVars, captureVars, streamVars
    <2>3. Threading'
      BY <2>2 DEF Threading, Session, NoPreview, Stream
    <2>4. QueuesEmpty'
      BY <2>2 DEF QueuesEmpty
    <2>5. SlotsFit'
      BY <2>2 DEF SlotsFit, Rendering
    <2> QED
      BY <2>3, <2>4, <2>5
  <1> QED
    BY <1>1, <1>2, <1>3, <1>4, <1>5 DEF Next

\* and Handles by every step of an application that does not stop too early
LEMMA HandlesStep ==
    ASSUME ~EarlyStop, IInv, Life, Handles, [Next]_vars
    PROVE  Handles'
  <1> USE DEF Life
  <1>1. CASE SpuriousWakeup \/ UNCHANGED vars
    <2>1. UNCHANGED <<flagVars, pc, captureVars>>
      BY <1>1 DEF SpuriousWakeup, vars
    <2>2. pc' = pc /\ mIsRunning' = mIsRunning /\ capture_thread' = capture_thread
      BY <2>1 DEF flagVars, captureVars
    <2> QED
      BY <2>2 DEF Handles, Joined, OneCapture
  <1>2. ASSUME NEW c \in CaptureThreads, Capture(c)
        PROVE  Handles'
    BY <1>2, CaptureHandles
  <1> QED
    BY <1>1, <1>2, ControlHandles, UsbHandles, PreviewHandles DEF Next

\* IInv and Life hold throughout
LEMMA LifeInductive == Spec => [](IInv /\ Life)
  <1>1. Init => IInv /\ Life
    BY IInvInit, LifeInit
  <1>2. IInv /\ Life /\ [Next]_vars => (IInv /\ Life)'
    BY IInvStep, LifeStep
  <1> QED
    BY <1>1, <1>2, PTL DEF Spec

\* and Handles, unless a stop may come too early
LEMMA HandlesInductive ==
    ASSUME ~EarlyStop
    PROVE  Spec => [](IInv /\ Life /\ Handles)
  <1>1. Init => IInv /\ Life /\ Handles
    <2>1. Init => Handles
      BY ThreadFacts DEF Init, Handles, Joined, OneCapture, Stopping, Early
    <2> QED
      BY <2>1, IInvInit, LifeInit
  <1>2. IInv /\ Life /\ Handles /\ [Next]_vars => (IInv /\ Life /\ Handles)'
    BY IInvStep, LifeStep, HandlesStep
  <1> QED
    BY <1>1, <1>2, PTL DEF Spec

\* What a stopped preview has left, whenever it was stopped: no frame is queued, and
\* nobody but a capture thread that was not joined runs or holds a frame.
OnlyCaptureLeft ==
    pc["control"] \in {"idle", "delete", "deleted"} /\ ~mIsRunning =>
       /\ ~streaming /\ pc["usb"] = "idle" /\ pc["preview"] = "none"
       /\ previewFrames = <<>> /\ captureQueu = NULL
       /\ \A s \in {Copy, MjpegIn, Frame, Converted} : local[s] = NULL

LEMMA OnlyCaptureIsLeft == IInv /\ Life => OnlyCaptureLeft
  <1> SUFFICES ASSUME IInv, Life, pc["control"] \in {"idle", "delete", "deleted"}, ~mIsRunning
               PROVE  /\ ~streaming /\ pc["usb"] = "idle" /\ pc["preview"] = "none"
                      /\ previewFrames = <<>> /\ captureQueu = NULL
                      /\ \A s \in {Copy, MjpegIn, Frame, Converted} : local[s] = NULL
    BY DEF OnlyCaptureLeft
  <1> USE DEF Life, Threading
  <1>1. ~streaming /\ pc["usb"] = "idle" /\ pc["preview"] = "none"
    BY DEF Session, Cleared, Calling, Stream, NoPreview
  <1>2. previewFrames = <<>> /\ captureQueu = NULL
    BY DEF QueuesEmpty, Cleared, Calling
  <1>3. \A s \in {Copy, MjpegIn, Frame, Converted} : local[s] = NULL
    BY <1>1 DEF SlotsFit
  <1> QED
    BY <1>1, <1>2, <1>3

\* An application may stop a preview before it streams (pc "prepare" to "create"): then
\* the join of stopPreview (361) has no thread to wait for, but all else that
\* stopPreview promises (349-379) is kept.
THEOREM EarlyStopLeavesCapture == Spec => []OnlyCaptureLeft
  BY LifeInductive, OnlyCaptureIsLeft, PTL

\* A stop that is part of release has let go of both windows when it comes to delete.
WindowsLetGo ==
    /\ pc["control"] \in {"stop.releaseCapture", "delete", "deleted"} => mPreviewWindow = NULL
    /\ pc["control"] \in {"delete", "deleted"} => mCaptureWindow = NULL

\* Nobody sets a window while the control thread stops the preview.
LEMMA WindowsLetGoStep ==
    ASSUME IInv, WindowsLetGo, [Next]_vars
    PROVE  WindowsLetGo'
  <1>1. ASSUME mPreviewWindow' = mPreviewWindow, mCaptureWindow' \in {mCaptureWindow, NULL},
               pc'["control"] = pc["control"]
        PROVE  WindowsLetGo'
    BY <1>1 DEF WindowsLetGo
  <1>2. ASSUME pc'["control"] \notin {"stop.releaseCapture", "delete", "deleted"}
        PROVE  WindowsLetGo'
    BY <1>2 DEF WindowsLetGo
  <1>3. CASE Control
    <2>1. ASSUME ReleasePreviewWindow \/ ReleaseCaptureWindow \/ DeletePreview
          PROVE  WindowsLetGo'
      BY <2>1, ThreadFacts
      DEF ReleasePreviewWindow, ReleaseCaptureWindow, DeletePreview, Goto, WindowsLetGo,
          IInv, PcTypes
    <2>2. ASSUME ~(ReleasePreviewWindow \/ ReleaseCaptureWindow \/ DeletePreview)
          PROVE  pc'["control"] \notin {"stop.releaseCapture", "delete", "deleted"}
      BY <1>3, <2>2, ThreadFacts
      DEF Control, SetPreviewDisplay, SetFrameCallback, FrameCallback, StopPreview,
          SetCaptureDisplay, Sleep, Idle, SwapFrameCallback, SwapCaptureDisplay, Wake,
          StartPreview, CreatePreviewThread, StartPreviewFailed, ClearRunning,
          StopSignalPreview, StopSignalCapture, JoinCaptureThread, JoinPreviewThread,
          StopClearPreview, StopClearCapture, Goto, IInv, PcTypes
    <2> QED
      BY <1>2, <2>1, <2>2
  <1>4. CASE Usb
    BY <1>1, <1>4, ThreadFacts
    DEF Usb, DeliverFrame, CopyFrame, AddPreviewFrame, RecycleCopy, usbFrame, targetVars,
        Goto, IInv, PcTypes
  <1>5. CASE Preview
    BY <1>1, <1>5, ThreadFacts
    DEF Preview, PreparePreview, StartStreaming, ClearStalePreview, CreateCaptureThread,
        PreviewLoop, WaitPreviewFrame, WakePreviewFrame, TakePreviewFrame, DecodeFrame,
        RecycleMjpeg, DropFrame, DrawIfWindow, ConvertPreview, ShowPreview, AddCaptureFrame,
        PreviewSignal, StopStreaming, previewLocal, previewFrame, targetVars, Goto, IInv,
        PcTypes
  <1>6. ASSUME NEW c \in CaptureThreads, Capture(c)
        PROVE  WindowsLetGo'
    <2>1. pc'["control"] = pc["control"]
      BY <1>6, ThreadFacts
      DEF IInv, PcTypes, Goto, Capture, CaptureBegin, CaptureOuter, CaptureArm, CaptureChoose,
          CaptureLoop, WaitCaptureFrame, WakeCaptureFrame, TakeCaptureFrame, CaptureTaken,
          RenderCapture, CopyToSurface, Posted, CaptureCallback, ConvertCallback, CallOnFrame,
          ReturnOnFrame, RecycleConverted, RecycleCallback, SurfaceEnd, SurfaceRelease,
          CaptureBroadcast
    <2>2. mPreviewWindow' = mPreviewWindow /\ mCaptureWindow' \in {mCaptureWindow, NULL}
      BY <1>6
      DEF Capture, CaptureBegin, CaptureOuter, CaptureArm, CaptureChoose, CaptureLoop,
          WaitCaptureFrame, WakeCaptureFrame, CaptureTaken, RenderCapture, CopyToSurface,
          Posted, CaptureCallback, ConvertCallback, CallOnFrame, ReturnOnFrame,
          RecycleConverted, RecycleCallback, SurfaceEnd, SurfaceRelease, CaptureBroadcast,
          captureBuffers, captureFrame, targetVars
    <2> QED
      BY <1>1, <2>1, <2>2
  <1>7. CASE SpuriousWakeup \/ UNCHANGED vars
    BY <1>1, <1>7 DEF SpuriousWakeup, vars, targetVars
  <1> QED
    BY <1>3, <1>4, <1>5, <1>6, <1>7 DEF Next

\* After stopPreview (349-379), and before the first start, no thread runs, no
\* frame is queued, no thread variable holds one, and a stop that is part of release
\* has let go of both windows, however the stop, the callbacks and the two other
\* threads interleaved, if the application lets a preview begin to stream before it
\* stops it.
THEOREM StopLeavesNothing ==
    ASSUME ~EarlyStop
    PROVE  Spec => []StoppedIsQuiet
  <1>1. IInv /\ Life /\ Handles /\ WindowsLetGo => StoppedIsQuiet
    <2> SUFFICES ASSUME IInv, Life, Handles, WindowsLetGo,
                        pc["control"] \in {"idle", "delete", "deleted"}, ~mIsRunning
                 PROVE  /\ ~streaming /\ pc["usb"] = "idle" /\ pc["preview"] = "none"
                        /\ \A c \in CaptureThreads : pc[c] \in {"none", "exited"}
                        /\ previewFrames = <<>> /\ captureQueu = NULL
                        /\ \A s \in Slots : local[s] = NULL
      BY DEF StoppedIsQuiet, WindowsLetGo
    <2>1. /\ ~streaming /\ pc["usb"] = "idle" /\ pc["preview"] = "none"
          /\ previewFrames = <<>> /\ captureQueu = NULL
          /\ \A s \in {Copy, MjpegIn, Frame, Converted} : local[s] = NULL
      BY OnlyCaptureIsLeft DEF OnlyCaptureLeft
    <2>2. \A c \in CaptureThreads : pc[c] = "none"
      BY ThreadFacts DEF Handles, Joined, OneCapture, Calling, Cleared
    <2>3. ASSUME NEW s \in Slots
          PROVE  local[s] = NULL
      <3>1. ASSUME NEW c \in CaptureThreads, s \in {CapFrame(c), CapConverted(c), CapCallback(c)}
            PROVE  local[s] = NULL
        BY <2>2, <3>1 DEF Life, SlotsFit, Rendering
      <3> QED
        BY <2>1, <3>1 DEF Slots, CapFrame, CapConverted, CapCallback
    <2> QED
      BY <2>1, <2>2, <2>3
  <1>2. Init => WindowsLetGo
    BY ThreadFacts DEF Init, WindowsLetGo
  <1>3. IInv /\ WindowsLetGo /\ [Next]_vars => WindowsLetGo'
    BY WindowsLetGoStep
  <1> QED
    BY <1>1, <1>2, <1>3, HandlesInductive, PTL DEF Spec

-------------------------------------------------------------------------------
(* Memory that is lost *)

\* the frames that are allocated and that nobody reaches
Lost == {f \in allocated : ~Owned(f)}

\* The preview thread may still come to addCaptureFrame, after the preview has been
\* stopped, with the frame it then drops.
MayLose ==
    \/ pc["control"] = "start"
    \/ mIsRunning /\ pc["preview"] \notin {"none", "signal", "stopStreaming", "exited"}
    \/ pc["preview"] \in {"decode", "decoded", "undecoded", "dropFrame", "draw", "convert",
                          "show", "addCapture"}

\* Each start may lose one frame, and has not lost it while it still may.
LossCounted ==
    /\ IsFiniteSet(Lost)
    /\ Cardinality(Lost) + (IF MayLose THEN 1 ELSE 0) <= starts

\* A frame that keeps an owner or is freed is not lost.
LEMMA NoneLost ==
    ASSUME FrameInv,
           \A f \in allocated : Owned(f) => Owned(f)' \/ f \notin allocated',
           \A f \in allocated' \ allocated : Owned(f)'
    PROVE  Lost' \subseteq Lost
  BY DEF Lost

\* a step that leaves every buffer where it is loses none
LEMMA KeepLosesNone ==
    ASSUME UNCHANGED <<frameVars, queueVars>>
    PROVE  Lost' = Lost
  BY DEF frameVars, queueVars, Lost, Owned

\* what get_frame returns is a buffer no other place holds
LEMMA GetFrameFetched ==
    ASSUME FrameInv, NEW s, NEW n, GetFrame(s, n)
    PROVE  Fetched \in Frames
  <1>1. CASE mFramePool = <<>>
    BY <1>1 DEF GetFrame, Exhausted, Fetched, FreshFrame
  <1>2. CASE mFramePool # <<>>
    <2>1. mFramePool \in Seq(Frames) /\ Distinct(mFramePool)
      BY DEF FrameInv, FrameTypes, OneOwner
    <2> QED
      BY <1>2, <2>1, PopMembers DEF Fetched
  <1> QED
    BY <1>1, <1>2

\* get_frame (96-110)
LEMMA GetLosesNone ==
    ASSUME FrameInv, UNCHANGED queueVars, NEW s \in Slots, NEW n, local[s] = NULL,
           GetFrame(s, n)
    PROVE  Lost' \subseteq Lost
  <1> USE DEF FrameInv
  <1>1. /\ local' = [local EXCEPT ![s] = Fetched] /\ allocated' = allocated \cup {Fetched}
        /\ mFramePool' = SubSeq(mFramePool, 1, Len(mFramePool) - 1)
        /\ previewFrames' = previewFrames /\ captureQueu' = captureQueu
    BY DEF GetFrame, queueVars
  <1>2. /\ mFramePool \in Seq(Frames) /\ Distinct(mFramePool) /\ NULL \notin Frames
        /\ local \in [Slots -> FrameOrNull] /\ allocated \in SUBSET Frames
    BY Sizes DEF FrameTypes, OneOwner
  <1>3. \A f \in Frames : InSeq(f, mFramePool) => InSeq(f, mFramePool') \/ f = Fetched
    <2>1. CASE mFramePool = <<>>
      BY <2>1, EmptySeq DEF InSeq
    <2>2. CASE mFramePool # <<>>
      <3>1. Fetched = mFramePool[Len(mFramePool)]
        BY <2>2 DEF Fetched
      <3> QED
        BY <1>1, <1>2, <2>2, <3>1, PopMembers
    <2> QED
      BY <2>1, <2>2
  <1>4. \A f \in Frames : f = Fetched => Owned(f)'
    BY <1>1, <1>2 DEF Owned
  <1>5. \A f \in allocated : Owned(f) => Owned(f)'
    BY <1>1, <1>2, <1>3, <1>4 DEF Owned
  <1>6. Fetched \in Frames
    BY GetFrameFetched
  <1> QED
    BY <1>1, <1>4, <1>5, <1>6, NoneLost

\* what recycle_frame was given is in the pool or freed
LEMMA RecycledIsKept ==
    ASSUME FrameInv, NEW f \in Frames, PoolOrFree(f)
    PROVE  /\ \A g : InSeq(g, mFramePool) => InSeq(g, mFramePool')
           /\ InSeq(f, mFramePool') \/ f \notin allocated'
           /\ allocated' \subseteq allocated
  <1> USE DEF FrameInv
  <1>1. CASE Len(mFramePool) < PoolSize
    <2>1. mFramePool' = Append(mFramePool, f) /\ allocated' = allocated
      BY <1>1 DEF PoolOrFree
    <2> QED
      BY <2>1, AppendMembers DEF FrameTypes
  <1>2. CASE ~(Len(mFramePool) < PoolSize)
    BY <1>2 DEF PoolOrFree
  <1> QED
    BY <1>1, <1>2

\* recycle_frame on a thread's own buffer (112-122)
LEMMA RecycleLosesNone ==
    ASSUME FrameInv, UNCHANGED queueVars, NEW s \in Slots, local[s] # NULL, Recycle(s)
    PROVE  Lost' \subseteq Lost
  <1> USE DEF FrameInv
  <1>1. /\ PoolOrFree(local[s]) /\ local' = [local EXCEPT ![s] = NULL]
        /\ previewFrames' = previewFrames /\ captureQueu' = captureQueu
    BY DEF Recycle, queueVars
  <1>2. /\ local \in [Slots -> FrameOrNull] /\ local[s] \in Frames
        /\ allocated \in SUBSET Frames /\ NULL \notin Frames
    BY Sizes DEF FrameTypes, FrameOrNull
  <1>3. /\ \A g : InSeq(g, mFramePool) => InSeq(g, mFramePool')
        /\ InSeq(local[s], mFramePool') \/ local[s] \notin allocated'
        /\ allocated' \subseteq allocated
    BY <1>1, <1>2, RecycledIsKept
  <1>4. \A f \in allocated : Owned(f) => Owned(f)' \/ f \notin allocated'
    BY <1>1, <1>2, <1>3 DEF Owned
  <1> QED
    BY <1>3, <1>4, NoneLost

\* clearCaptureFrame (731-739)
LEMMA ClearCaptureLosesNone ==
    ASSUME FrameInv, ClearCaptureFrame
    PROVE  Lost' \subseteq Lost
  <1> USE DEF FrameInv
  <1>1. CASE captureQueu = NULL
    <2>1. UNCHANGED <<frameVars, queueVars>>
      BY <1>1 DEF ClearCaptureFrame, frameVars, queueVars
    <2> QED
      BY <2>1, KeepLosesNone
  <1>2. CASE captureQueu # NULL
    <2>1. /\ PoolOrFree(captureQueu) /\ captureQueu' = NULL /\ captureQueu \in Frames
          /\ previewFrames' = previewFrames /\ local' = local
      BY <1>2 DEF ClearCaptureFrame, FrameTypes, FrameOrNull
    <2>2. /\ \A g : InSeq(g, mFramePool) => InSeq(g, mFramePool')
          /\ InSeq(captureQueu, mFramePool') \/ captureQueu \notin allocated'
          /\ allocated' \subseteq allocated
      BY <2>1, RecycledIsKept
    <2>3. \A f \in allocated : Owned(f) => Owned(f)' \/ f \notin allocated'
      BY <2>1, <2>2 DEF Owned
    <2> QED
      BY <2>2, <2>3, NoneLost
  <1> QED
    BY <1>1, <1>2

\* clearPreviewFrame (444-452)
LEMMA ClearPreviewLosesNone ==
    ASSUME FrameInv, ClearPreviewFrame
    PROVE  Lost' \subseteq Lost
  <1> USE DEF FrameInv
  <1> DEFINE n == Len(previewFrames)
             free == PoolSize - Len(mFramePool)
             room == IF free < n THEN free ELSE n
  <1>1. /\ mFramePool' = mFramePool \o SubSeq(previewFrames, 1, room)
        /\ allocated' = allocated \ {previewFrames[i] : i \in room + 1 .. n}
        /\ previewFrames' = <<>> /\ local' = local /\ captureQueu' = captureQueu
    BY DEF ClearPreviewFrame
  <1>2. /\ mFramePool \in Seq(Frames) /\ previewFrames \in Seq(Frames)
        /\ Distinct(mFramePool) /\ Distinct(previewFrames)
    BY DEF FrameTypes, OneOwner
  <1>3. \A f : ~(InSeq(f, mFramePool) /\ InSeq(f, previewFrames))
    <2>1. ASSUME NEW f, InSeq(f, previewFrames)
          PROVE  f \in Frames
      BY <1>2, <2>1, ElementOfSeq DEF InSeq
    <2> QED
      BY <2>1 DEF OneOwner
  <1>4. n \in Nat /\ room \in 0..n
    BY <1>2, Sizes, LenProperties DEF FrameTypes
  <1>5. \A f : InSeq(f, mFramePool') <=>
                  InSeq(f, mFramePool) \/ \E i \in 1..room : previewFrames[i] = f
    BY <1>1, <1>2, <1>3, <1>4, ConcatMembers
  <1>6. \A i \in 1..n : i \in 1..room \/ i \in room + 1 .. n
    BY <1>4
  <1> HIDE DEF room
  <1>7. \A f \in allocated : InSeq(f, previewFrames) =>
                                InSeq(f, mFramePool') \/ f \notin allocated'
    BY <1>1, <1>5, <1>6 DEF InSeq
  <1>8. \A f \in allocated : Owned(f) => Owned(f)' \/ f \notin allocated'
    BY <1>1, <1>5, <1>7 DEF Owned
  <1> QED
    BY <1>1, <1>8, NoneLost

\* addPreviewFrame, when there is room
LEMMA QueueLosesNone ==
    ASSUME FrameInv, NEW s \in Slots, local[s] # NULL,
           previewFrames' = Queued(local[s]), local' = [local EXCEPT ![s] = NULL],
           UNCHANGED <<mFramePool, allocated, content, captureQueu>>
    PROVE  Lost' \subseteq Lost
  <1> USE DEF FrameInv
  <1>1. /\ local \in [Slots -> FrameOrNull] /\ local[s] \in Frames
        /\ allocated \in SUBSET Frames /\ previewFrames \in Seq(Frames)
    BY DEF FrameTypes, FrameOrNull
  <1>2. \A f : InSeq(f, previewFrames') <=> InSeq(f, previewFrames) \/ f = local[s]
    BY <1>1, AppendMembers DEF Queued
  <1>3. \A f \in allocated : Owned(f) => Owned(f)'
    BY <1>1, <1>2 DEF Owned
  <1> QED
    BY <1>3, NoneLost

\* the take at the end of waitPreviewFrame (436-438)
LEMMA DequeueLosesNone ==
    ASSUME FrameInv, NEW s \in Slots, local[s] = NULL, previewFrames # <<>>,
           previewFrames' = Tail(previewFrames),
           local' = [local EXCEPT ![s] = Head(previewFrames)],
           UNCHANGED <<mFramePool, allocated, content, captureQueu>>
    PROVE  Lost' \subseteq Lost
  <1> USE DEF FrameInv
  <1>1. /\ local \in [Slots -> FrameOrNull] /\ allocated \in SUBSET Frames
        /\ previewFrames \in Seq(Frames) /\ Distinct(previewFrames) /\ NULL \notin Frames
    BY Sizes DEF FrameTypes, OneOwner
  <1>2. \A f : InSeq(f, previewFrames') <=> InSeq(f, previewFrames) /\ f # Head(previewFrames)
    BY <1>1, TailMembers
  <1> DEFINE h == Head(previewFrames)
  <1>3. /\ local' = [local EXCEPT ![s] = h]
        /\ \A f : InSeq(f, previewFrames) => InSeq(f, previewFrames') \/ f = h
    BY <1>2
  <1> HIDE DEF h
  <1>4. \A f \in allocated : Owned(f) => Owned(f)'
    BY <1>1, <1>3 DEF Owned
  <1> QED
    BY <1>4, NoneLost

\* the end of waitCaptureFrame
LEMMA TakeCaptureLosesNone ==
    ASSUME IInv, SlotsFit, NEW c \in CaptureThreads, pc[c] \in {"wait", "woken"}, NEW from,
           TakeCaptureFrame(c, from), UNCHANGED previewFrames
    PROVE  Lost' \subseteq Lost
  <1> USE DEF IInv, FrameInv
  <1>1. CASE mIsRunning /\ captureQueu # NULL
    <2>1. /\ captureQueu' = NULL /\ local' = [local EXCEPT ![CapFrame(c)] = captureQueu]
          /\ UNCHANGED <<mFramePool, allocated, content, previewFrames>>
      BY <1>1 DEF TakeCaptureFrame
    <2>2. /\ local \in [Slots -> FrameOrNull] /\ allocated \in SUBSET Frames
          /\ CapFrame(c) \in Slots /\ local[CapFrame(c)] = NULL /\ NULL \notin Frames
      BY Sizes, SlotsApart DEF FrameTypes, SlotsFit
    <2>3. \A f \in allocated : Owned(f) => Owned(f)'
      BY <2>1, <2>2 DEF Owned
    <2> QED
      BY <2>1, <2>3, NoneLost
  <1>2. CASE ~(mIsRunning /\ captureQueu # NULL)
    <2>1. UNCHANGED <<frameVars, queueVars>>
      BY <1>2 DEF TakeCaptureFrame, frameVars, queueVars
    <2> QED
      BY <2>1, KeepLosesNone
  <1> QED
    BY <1>1, <1>2

\* the end of waitPreviewFrame
LEMMA TakePreviewLosesNone ==
    ASSUME IInv, SlotsFit, pc["preview"] \in {"wait", "woken"}, NEW from,
           TakePreviewFrame(from)
    PROVE  Lost' \subseteq Lost
  <1> USE DEF IInv
  <1>1. CASE mIsRunning /\ previewFrames # <<>>
    <2> DEFINE s == IF Mjpeg THEN MjpegIn ELSE Frame
    <2>1. s \in Slots /\ local[s] = NULL
      BY SlotsApart DEF SlotsFit
    <2>2. /\ previewFrames' = Tail(previewFrames)
          /\ local' = [local EXCEPT ![s] = Head(previewFrames)]
          /\ UNCHANGED <<mFramePool, allocated, content, captureQueu>>
      BY <1>1 DEF TakePreviewFrame
    <2> HIDE DEF s
    <2> QED
      BY <1>1, <2>1, <2>2, DequeueLosesNone
  <1>2. CASE ~(mIsRunning /\ previewFrames # <<>>)
    <2>1. UNCHANGED <<frameVars, queueVars>>
      BY <1>2 DEF TakePreviewFrame, frameVars, queueVars
    <2> QED
      BY <2>1, KeepLosesNone
  <1> QED
    BY <1>1, <1>2

\* addCaptureFrame loses its frame, and only when the preview has been stopped
LEMMA AddCaptureLoses ==
    ASSUME IInv, AddCaptureFrame
    PROVE  /\ Lost' \subseteq Lost \cup {local[Frame]}
           /\ mIsRunning => Lost' \subseteq Lost
  <1> USE DEF IInv, FrameInv
  <1>1. /\ local' = [local EXCEPT ![Frame] = NULL] /\ previewFrames' = previewFrames
        /\ local \in [Slots -> FrameOrNull] /\ Frame \in Slots /\ allocated \in SUBSET Frames
    BY SlotsApart DEF AddCaptureFrame, FrameTypes
  <1>2. CASE ~mIsRunning
    <2>1. UNCHANGED <<mFramePool, allocated, content, captureQueu>>
      BY <1>2 DEF AddCaptureFrame
    <2> QED
      BY <1>1, <1>2, <2>1 DEF Lost, Owned
  <1>3. CASE mIsRunning /\ captureQueu = NULL
    <2>1. UNCHANGED <<mFramePool, allocated, content>> /\ captureQueu' = local[Frame]
      BY <1>3 DEF AddCaptureFrame
    <2>2. \A f \in allocated : Owned(f) => Owned(f)'
      BY <1>1, <1>3, <2>1, Sizes DEF Owned
    <2> QED
      BY <2>1, <2>2, NoneLost
  <1>4. CASE mIsRunning /\ captureQueu # NULL
    <2>1. PoolOrFree(captureQueu) /\ captureQueu' = local[Frame] /\ captureQueu \in Frames
      BY <1>4 DEF AddCaptureFrame, FrameTypes, FrameOrNull
    <2>2. /\ \A g : InSeq(g, mFramePool) => InSeq(g, mFramePool')
          /\ InSeq(captureQueu, mFramePool') \/ captureQueu \notin allocated'
          /\ allocated' \subseteq allocated
      BY <2>1, RecycledIsKept
    <2>3. \A f \in allocated : Owned(f) => Owned(f)' \/ f \notin allocated'
      BY <1>1, <2>1, <2>2 DEF Owned
    <2> QED
      BY <2>2, <2>3, NoneLost
  <1> QED
    BY <1>2, <1>3, <1>4

\* the destructor frees what it reaches, and does not lose it
LEMMA DeleteLosesNone ==
    ASSUME IInv, DeletePreview
    PROVE  Lost' \subseteq Lost
  <1> USE DEF IInv, FrameInv
  <1>1. /\ local' = local /\ allocated' \subseteq allocated
        /\ \A f \in allocated' :
              ~InSeq(f, mFramePool) /\ ~InSeq(f, previewFrames) /\ f # captureQueu
    BY DEF DeletePreview, InSeq
  <1>2. \A f \in allocated : Owned(f) => Owned(f)' \/ f \notin allocated'
    BY <1>1 DEF Owned
  <1> QED
    BY <1>1, <1>2, NoneLost

(* How a step can change the count *)

Costless == Lost' \subseteq Lost /\ (MayLose' => MayLose) /\ starts' = starts
LosesOne == Lost' \subseteq Lost \cup {local[Frame]} /\ MayLose /\ ~MayLose' /\ starts' = starts
Paid     == Lost' \subseteq Lost /\ starts' = starts + 1

\* the callback thread loses no frame
LEMMA UsbCosts ==
    ASSUME IInv, Life, Usb
    PROVE  Costless
  <1> USE DEF IInv, Life
  <1>1. ASSUME DeliverFrame
        PROVE  Costless
    <2>1. Lost' \subseteq Lost
      <3>1. UNCHANGED <<frameVars, queueVars>>
        BY <1>1 DEF DeliverFrame, frameVars, queueVars
      <3> QED
        BY <3>1, KeepLosesNone
    <2>2. (MayLose' => MayLose) /\ starts' = starts
      BY <1>1, ThreadFacts
      DEF DeliverFrame, usbFrame, flagVars, requestVars, MayLose, PcTypes
    <2> QED
      BY <2>1, <2>2 DEF Costless
  <1>2. ASSUME CopyFrame
        PROVE  Costless
    <2>1. Lost' \subseteq Lost
      <3>1. CASE UNCHANGED frameVars
        <4>1. UNCHANGED queueVars
          BY <1>2 DEF CopyFrame, queueVars
        <4> QED
          BY <3>1, <4>1, KeepLosesNone
      <3>2. ASSUME NEW n, GetFrame(Copy, n)
            PROVE  Lost' \subseteq Lost
        <4>1. Copy \in Slots /\ UNCHANGED queueVars
          BY <1>2, SlotsApart DEF CopyFrame, queueVars
        <4>2. CASE local[Copy] = NULL
          BY <3>2, <4>1, <4>2, GetLosesNone
        <4>3. local[Copy] = NULL
          BY <1>2, ThreadFacts DEF CopyFrame, Goto, SlotsFit
        <4> QED
          BY <4>2, <4>3
      <3> QED
        BY <1>2, <3>1, <3>2 DEF CopyFrame
    <2>2. (MayLose' => MayLose) /\ starts' = starts
      BY <1>2, ThreadFacts
      DEF CopyFrame, Goto, usbFrame, flagVars, requestVars, MayLose, PcTypes
    <2> QED
      BY <2>1, <2>2 DEF Costless
  <1>3. ASSUME AddPreviewFrame
        PROVE  Costless
    <2>1. Lost' \subseteq Lost
      <3>1. CASE mIsRunning /\ HasRoom
        <4>1. Copy \in Slots /\ local[Copy] # NULL
          BY <1>3, SlotsApart DEF AddPreviewFrame, Goto, NoNullFrame, UsbHolds
        <4> QED
          BY <1>3, <3>1, <4>1, QueueLosesNone DEF AddPreviewFrame
      <3>2. CASE ~(mIsRunning /\ HasRoom)
        <4>1. UNCHANGED <<frameVars, queueVars>>
          BY <1>3, <3>2 DEF AddPreviewFrame, frameVars, queueVars
        <4> QED
          BY <4>1, KeepLosesNone
      <3> QED
        BY <3>1, <3>2
    <2>2. (MayLose' => MayLose) /\ starts' = starts
      BY <1>3, ThreadFacts
      DEF AddPreviewFrame, Goto, usbFrame, flagVars, requestVars, MayLose, PcTypes
    <2> QED
      BY <2>1, <2>2 DEF Costless
  <1>4. ASSUME RecycleCopy
        PROVE  Costless
    <2>1. Lost' \subseteq Lost
      <3>1. Copy \in Slots /\ local[Copy] # NULL /\ Recycle(Copy) /\ UNCHANGED queueVars
        BY <1>4, SlotsApart
        DEF RecycleCopy, Goto, queueVars, NoNullFrame, UsbHolds
      <3> QED
        BY <3>1, RecycleLosesNone
    <2>2. (MayLose' => MayLose) /\ starts' = starts
      BY <1>4, ThreadFacts
      DEF RecycleCopy, Goto, usbFrame, flagVars, requestVars, MayLose, PcTypes
    <2> QED
      BY <2>1, <2>2 DEF Costless
  <1> QED
    BY <1>1, <1>2, <1>3, <1>4
    DEF Usb

\* the preview thread loses at most its last frame
LEMMA PreviewCosts ==
    ASSUME IInv, Life, Preview
    PROVE  Costless \/ LosesOne
  <1> USE DEF IInv, Life
  <1>1. ASSUME PreparePreview
        PROVE  Costless \/ LosesOne
    <2>1. Lost' \subseteq Lost
      <3>1. UNCHANGED <<frameVars, queueVars>>
        BY <1>1 DEF PreparePreview, frameVars, queueVars
      <3> QED
        BY <3>1, KeepLosesNone
    <2>2. (MayLose' => MayLose) /\ starts' = starts
      BY <1>1, ThreadFacts
      DEF PreparePreview, Goto, previewLocal, previewFrame, flagVars, requestVars, MayLose,
          PcTypes
    <2> QED
      BY <2>1, <2>2 DEF Costless
  <1>2. ASSUME StartStreaming
        PROVE  Costless \/ LosesOne
    <2>1. Lost' \subseteq Lost
      <3>1. UNCHANGED <<frameVars, queueVars>>
        BY <1>2 DEF StartStreaming, frameVars, queueVars
      <3> QED
        BY <3>1, KeepLosesNone
    <2>2. (MayLose' => MayLose) /\ starts' = starts
      BY <1>2, ThreadFacts
      DEF StartStreaming, Goto, previewFrame, flagVars, requestVars, MayLose, PcTypes
    <2> QED
      BY <2>1, <2>2 DEF Costless
  <1>3. ASSUME ClearStalePreview
        PROVE  Costless \/ LosesOne
    <2>1. Lost' \subseteq Lost
      BY <1>3, ClearPreviewLosesNone DEF ClearStalePreview
    <2>2. (MayLose' => MayLose) /\ starts' = starts
      BY <1>3, ThreadFacts
      DEF ClearStalePreview, Goto, previewLocal, previewFrame, flagVars, requestVars,
          MayLose, PcTypes
    <2> QED
      BY <2>1, <2>2 DEF Costless
  <1>4. ASSUME CreateCaptureThread
        PROVE  Costless \/ LosesOne
    <2>1. Lost' \subseteq Lost
      <3>1. UNCHANGED <<frameVars, queueVars>>
        BY <1>4 DEF CreateCaptureThread, frameVars, queueVars
      <3> QED
        BY <3>1, KeepLosesNone
    <2>2. (MayLose' => MayLose) /\ starts' = starts
      BY <1>4, ThreadFacts
      DEF CreateCaptureThread, previewFrame, flagVars, requestVars, MayLose, PcTypes
    <2> QED
      BY <2>1, <2>2 DEF Costless
  <1>5. ASSUME PreviewLoop
        PROVE  Costless \/ LosesOne
    <2>1. Lost' \subseteq Lost
      <3>1. UNCHANGED <<frameVars, queueVars>>
        BY <1>5 DEF PreviewLoop, frameVars, queueVars
      <3> QED
        BY <3>1, KeepLosesNone
    <2>2. (MayLose' => MayLose) /\ starts' = starts
      BY <1>5, ThreadFacts
      DEF PreviewLoop, Goto, previewLocal, previewFrame, flagVars, requestVars, MayLose,
          PcTypes
    <2> QED
      BY <2>1, <2>2 DEF Costless
  <1>6. ASSUME WaitPreviewFrame
        PROVE  Costless \/ LosesOne
    <2>1. Lost' \subseteq Lost
      <3>1. CASE previewFrames = <<>>
        <4>1. UNCHANGED <<frameVars, queueVars>>
          BY <1>6, <3>1 DEF WaitPreviewFrame, queueVars
        <4> QED
          BY <4>1, KeepLosesNone
      <3>2. CASE previewFrames # <<>>
        BY <1>6, <3>2, TakePreviewLosesNone DEF WaitPreviewFrame, TakePreviewFrame, Goto
      <3> QED
        BY <3>1, <3>2
    <2>2. (MayLose' => MayLose) /\ starts' = starts
      BY <1>6, ThreadFacts
      DEF WaitPreviewFrame, Goto, TakePreviewFrame, previewLocal, previewFrame, flagVars,
          requestVars, MayLose, PcTypes
    <2> QED
      BY <2>1, <2>2 DEF Costless
  <1>7. ASSUME WakePreviewFrame
        PROVE  Costless \/ LosesOne
    <2>1. Lost' \subseteq Lost
      BY <1>7, TakePreviewLosesNone DEF WakePreviewFrame, TakePreviewFrame, Goto
    <2>2. (MayLose' => MayLose) /\ starts' = starts
      BY <1>7, ThreadFacts
      DEF WakePreviewFrame, Goto, TakePreviewFrame, previewLocal, previewFrame, flagVars,
          requestVars, MayLose, PcTypes
    <2> QED
      BY <2>1, <2>2 DEF Costless
  <1>8. ASSUME DecodeFrame
        PROVE  Costless \/ LosesOne
    <2>1. Lost' \subseteq Lost
      <3>1. CASE UNCHANGED frameVars
        <4>1. UNCHANGED queueVars
          BY <1>8 DEF DecodeFrame, queueVars
        <4> QED
          BY <3>1, <4>1, KeepLosesNone
      <3>2. ASSUME NEW n, GetFrame(Frame, n)
            PROVE  Lost' \subseteq Lost
        <4>1. Frame \in Slots /\ UNCHANGED queueVars
          BY <1>8, SlotsApart DEF DecodeFrame, queueVars
        <4>2. CASE local[Frame] = NULL
          BY <3>2, <4>1, <4>2, GetLosesNone
        <4>3. local[Frame] = NULL
          BY <1>8, ThreadFacts DEF DecodeFrame, Goto, SlotsFit
        <4> QED
          BY <4>2, <4>3
      <3> QED
        BY <1>8, <3>1, <3>2 DEF DecodeFrame
    <2>2. (MayLose' => MayLose) /\ starts' = starts
      BY <1>8, ThreadFacts
      DEF DecodeFrame, Goto, previewLocal, previewFrame, flagVars, requestVars, MayLose,
          PcTypes
    <2> QED
      BY <2>1, <2>2 DEF Costless
  <1>9. ASSUME RecycleMjpeg
        PROVE  Costless \/ LosesOne
    <2>1. Lost' \subseteq Lost
      <3>1. MjpegIn \in Slots /\ local[MjpegIn] # NULL /\ Recycle(MjpegIn) /\ UNCHANGED queueVars
        BY <1>9, SlotsApart
        DEF RecycleMjpeg, Goto, queueVars, NoNullFrame, PreviewHolds
      <3> QED
        BY <3>1, RecycleLosesNone
    <2>2. (MayLose' => MayLose) /\ starts' = starts
      BY <1>9, ThreadFacts
      DEF RecycleMjpeg, Goto, previewLocal, previewFrame, flagVars, requestVars, MayLose,
          PcTypes
    <2> QED
      BY <2>1, <2>2 DEF Costless
  <1>10. ASSUME DropFrame
        PROVE  Costless \/ LosesOne
    <2>1. Lost' \subseteq Lost
      <3>1. Frame \in Slots /\ local[Frame] # NULL /\ Recycle(Frame) /\ UNCHANGED queueVars
        BY <1>10, SlotsApart
        DEF DropFrame, Goto, queueVars, NoNullFrame, PreviewHolds
      <3> QED
        BY <3>1, RecycleLosesNone
    <2>2. (MayLose' => MayLose) /\ starts' = starts
      BY <1>10, ThreadFacts
      DEF DropFrame, Goto, previewLocal, previewFrame, flagVars, requestVars, MayLose,
          PcTypes
    <2> QED
      BY <2>1, <2>2 DEF Costless
  <1>11. ASSUME DrawIfWindow
        PROVE  Costless \/ LosesOne
    <2>1. Lost' \subseteq Lost
      <3>1. UNCHANGED <<frameVars, queueVars>>
        BY <1>11 DEF DrawIfWindow, frameVars, queueVars
      <3> QED
        BY <3>1, KeepLosesNone
    <2>2. (MayLose' => MayLose) /\ starts' = starts
      BY <1>11, ThreadFacts
      DEF DrawIfWindow, Goto, previewLocal, previewFrame, flagVars, requestVars, MayLose,
          PcTypes
    <2> QED
      BY <2>1, <2>2 DEF Costless
  <1>12. ASSUME ConvertPreview
        PROVE  Costless \/ LosesOne
    <2>1. Lost' \subseteq Lost
      <3>1. CASE UNCHANGED frameVars
        <4>1. UNCHANGED queueVars
          BY <1>12 DEF ConvertPreview, queueVars
        <4> QED
          BY <3>1, <4>1, KeepLosesNone
      <3>2. ASSUME NEW n, GetFrame(Converted, n)
            PROVE  Lost' \subseteq Lost
        <4>1. Converted \in Slots /\ UNCHANGED queueVars
          BY <1>12, SlotsApart DEF ConvertPreview, queueVars
        <4>2. CASE local[Converted] = NULL
          BY <3>2, <4>1, <4>2, GetLosesNone
        <4>3. local[Converted] = NULL
          BY <1>12, ThreadFacts DEF ConvertPreview, Goto, SlotsFit
        <4> QED
          BY <4>2, <4>3
      <3> QED
        BY <1>12, <3>1, <3>2 DEF ConvertPreview
    <2>2. (MayLose' => MayLose) /\ starts' = starts
      BY <1>12, ThreadFacts
      DEF ConvertPreview, Goto, previewLocal, previewFrame, flagVars, requestVars, MayLose,
          PcTypes
    <2> QED
      BY <2>1, <2>2 DEF Costless
  <1>13. ASSUME ShowPreview
        PROVE  Costless \/ LosesOne
    <2>1. Lost' \subseteq Lost
      <3>1. /\ Converted \in Slots /\ local[Converted] # NULL
            /\ Recycle(Converted) /\ UNCHANGED queueVars
        BY <1>13, SlotsApart
        DEF ShowPreview, Goto, queueVars, NoNullFrame, PreviewHolds
      <3> QED
        BY <3>1, RecycleLosesNone
    <2>2. (MayLose' => MayLose) /\ starts' = starts
      BY <1>13, ThreadFacts
      DEF ShowPreview, Goto, previewLocal, previewFrame, flagVars, requestVars, MayLose,
          PcTypes
    <2> QED
      BY <2>1, <2>2 DEF Costless
  <1>14. ASSUME AddCaptureFrame
        PROVE  Costless \/ LosesOne
    <2>1. CASE mIsRunning
      <3>1. Lost' \subseteq Lost /\ starts' = starts
        BY <1>14, <2>1, AddCaptureLoses DEF AddCaptureFrame, previewLocal, previewFrame, requestVars
      <3>2. MayLose
        BY <1>14 DEF AddCaptureFrame, Goto, MayLose
      <3> QED
        BY <3>1, <3>2 DEF Costless
    <2>2. CASE ~mIsRunning
      <3>1. Lost' \subseteq Lost \cup {local[Frame]} /\ starts' = starts
        BY <1>14, AddCaptureLoses DEF AddCaptureFrame, previewLocal, previewFrame, requestVars
      <3>2. pc["control"] # "start"
        BY <1>14 DEF AddCaptureFrame, Goto, Threading, Session, NoPreview, Cleared
      <3>3. MayLose /\ ~MayLose'
        BY <1>14, <2>2, <3>2, ThreadFacts
        DEF AddCaptureFrame, Goto, previewLocal, previewFrame, flagVars, MayLose, PcTypes
      <3> QED
        BY <3>1, <3>3 DEF LosesOne
    <2> QED
      BY <2>1, <2>2
  <1>15. ASSUME PreviewSignal
        PROVE  Costless \/ LosesOne
    <2>1. Lost' \subseteq Lost
      <3>1. UNCHANGED <<frameVars, queueVars>>
        BY <1>15 DEF PreviewSignal, frameVars, queueVars
      <3> QED
        BY <3>1, KeepLosesNone
    <2>2. (MayLose' => MayLose) /\ starts' = starts
      BY <1>15, ThreadFacts
      DEF PreviewSignal, Goto, previewLocal, previewFrame, flagVars, requestVars, MayLose,
          PcTypes
    <2> QED
      BY <2>1, <2>2 DEF Costless
  <1>16. ASSUME StopStreaming
        PROVE  Costless \/ LosesOne
    <2>1. Lost' \subseteq Lost
      <3>1. UNCHANGED <<frameVars, queueVars>>
        BY <1>16 DEF StopStreaming, frameVars, queueVars
      <3> QED
        BY <3>1, KeepLosesNone
    <2>2. (MayLose' => MayLose) /\ starts' = starts
      BY <1>16, ThreadFacts
      DEF StopStreaming, Goto, previewFrame, flagVars, requestVars, MayLose, PcTypes
    <2> QED
      BY <2>1, <2>2 DEF Costless
  <1> QED
    BY <1>1, <1>2, <1>3, <1>4, <1>5, <1>6, <1>7, <1>8, <1>9, <1>10, <1>11, <1>12, <1>13,
       <1>14, <1>15, <1>16
    DEF Preview

\* a capture thread loses no frame
LEMMA CaptureCosts ==
    ASSUME IInv, Life, NEW c \in CaptureThreads, Capture(c)
    PROVE  Costless
  <1> USE DEF IInv, Life
  <1>1. ASSUME CaptureBegin(c)
        PROVE  Costless
    <2>1. Lost' \subseteq Lost
      BY <1>1, ClearCaptureLosesNone DEF CaptureBegin
    <2>2. (MayLose' => MayLose) /\ starts' = starts
      BY <1>1, ThreadFacts
      DEF CaptureBegin, Goto, flagVars, requestVars, MayLose, PcTypes
    <2> QED
      BY <2>1, <2>2 DEF Costless
  <1>2. ASSUME CaptureOuter(c)
        PROVE  Costless
    <2>1. Lost' \subseteq Lost
      <3>1. UNCHANGED <<frameVars, queueVars>>
        BY <1>2 DEF CaptureOuter, captureBuffers, captureFrame, frameVars, queueVars
      <3> QED
        BY <3>1, KeepLosesNone
    <2>2. (MayLose' => MayLose) /\ starts' = starts
      BY <1>2, ThreadFacts
      DEF CaptureOuter, Goto, captureBuffers, captureFrame, flagVars, requestVars, MayLose,
          PcTypes
    <2> QED
      BY <2>1, <2>2 DEF Costless
  <1>3. ASSUME CaptureArm(c)
        PROVE  Costless
    <2>1. Lost' \subseteq Lost
      <3>1. UNCHANGED <<frameVars, queueVars>>
        BY <1>3 DEF CaptureArm, frameVars, queueVars
      <3> QED
        BY <3>1, KeepLosesNone
    <2>2. (MayLose' => MayLose) /\ starts' = starts
      BY <1>3, ThreadFacts
      DEF CaptureArm, Goto, requestVars, MayLose, PcTypes
    <2> QED
      BY <2>1, <2>2 DEF Costless
  <1>4. ASSUME CaptureChoose(c)
        PROVE  Costless
    <2>1. Lost' \subseteq Lost
      <3>1. UNCHANGED <<frameVars, queueVars>>
        BY <1>4 DEF CaptureChoose, captureFrame, frameVars, queueVars
      <3> QED
        BY <3>1, KeepLosesNone
    <2>2. (MayLose' => MayLose) /\ starts' = starts
      BY <1>4, ThreadFacts
      DEF CaptureChoose, Goto, captureFrame, flagVars, requestVars, MayLose, PcTypes
    <2> QED
      BY <2>1, <2>2 DEF Costless
  <1>5. ASSUME CaptureLoop(c)
        PROVE  Costless
    <2>1. Lost' \subseteq Lost
      <3>1. UNCHANGED <<frameVars, queueVars>>
        BY <1>5 DEF CaptureLoop, captureBuffers, captureFrame, frameVars, queueVars
      <3> QED
        BY <3>1, KeepLosesNone
    <2>2. (MayLose' => MayLose) /\ starts' = starts
      BY <1>5, ThreadFacts
      DEF CaptureLoop, Goto, captureBuffers, captureFrame, flagVars, requestVars, MayLose,
          PcTypes
    <2> QED
      BY <2>1, <2>2 DEF Costless
  <1>6. ASSUME WaitCaptureFrame(c)
        PROVE  Costless
    <2>1. Lost' \subseteq Lost
      <3>1. CASE captureQueu = NULL
        <4>1. UNCHANGED <<frameVars, queueVars>>
          BY <1>6, <3>1 DEF WaitCaptureFrame, queueVars, captureFrame
        <4> QED
          BY <4>1, KeepLosesNone
      <3>2. CASE captureQueu # NULL
        BY <1>6, <3>2, TakeCaptureLosesNone
        DEF WaitCaptureFrame, TakeCaptureFrame, Goto, captureFrame
      <3> QED
        BY <3>1, <3>2
    <2>2. (MayLose' => MayLose) /\ starts' = starts
      BY <1>6, ThreadFacts
      DEF WaitCaptureFrame, Goto, TakeCaptureFrame, captureFrame, flagVars, requestVars,
          MayLose, PcTypes
    <2> QED
      BY <2>1, <2>2 DEF Costless
  <1>7. ASSUME WakeCaptureFrame(c)
        PROVE  Costless
    <2>1. Lost' \subseteq Lost
      BY <1>7, TakeCaptureLosesNone DEF WakeCaptureFrame, TakeCaptureFrame, Goto, captureFrame
    <2>2. (MayLose' => MayLose) /\ starts' = starts
      BY <1>7, ThreadFacts
      DEF WakeCaptureFrame, Goto, TakeCaptureFrame, captureFrame, flagVars, requestVars,
          MayLose, PcTypes
    <2> QED
      BY <2>1, <2>2 DEF Costless
  <1>8. ASSUME CaptureTaken(c)
        PROVE  Costless
    <2>1. Lost' \subseteq Lost
      <3>1. UNCHANGED <<frameVars, queueVars>>
        BY <1>8 DEF CaptureTaken, captureBuffers, captureFrame, frameVars, queueVars
      <3> QED
        BY <3>1, KeepLosesNone
    <2>2. (MayLose' => MayLose) /\ starts' = starts
      BY <1>8, ThreadFacts
      DEF CaptureTaken, Goto, captureBuffers, captureFrame, flagVars, requestVars, MayLose,
          PcTypes
    <2> QED
      BY <2>1, <2>2 DEF Costless
  <1>9. ASSUME RenderCapture(c)
        PROVE  Costless
    <2>1. Lost' \subseteq Lost
      <3>1. CASE UNCHANGED frameVars
        <4>1. UNCHANGED queueVars
          BY <1>9 DEF RenderCapture, captureBuffers, captureFrame, queueVars
        <4> QED
          BY <3>1, <4>1, KeepLosesNone
      <3>2. ASSUME NEW n, GetFrame(CapConverted(c), n)
            PROVE  Lost' \subseteq Lost
        <4>1. CapConverted(c) \in Slots /\ UNCHANGED queueVars
          BY <1>9, SlotsApart DEF RenderCapture, captureBuffers, captureFrame, queueVars
        <4>2. CASE local[CapConverted(c)] = NULL
          BY <3>2, <4>1, <4>2, GetLosesNone
        <4>3. CASE local[CapConverted(c)] # NULL
          <5>1. UNCHANGED <<frameVars, queueVars>>
            BY <1>9, <4>1, <4>3 DEF RenderCapture
          <5> QED
            BY <5>1, KeepLosesNone
        <4> QED
          BY <4>2, <4>3
      <3> QED
        BY <1>9, <3>1, <3>2 DEF RenderCapture
    <2>2. (MayLose' => MayLose) /\ starts' = starts
      BY <1>9, ThreadFacts
      DEF RenderCapture, Goto, captureBuffers, captureFrame, flagVars, requestVars, MayLose,
          PcTypes
    <2> QED
      BY <2>1, <2>2 DEF Costless
  <1>10. ASSUME CopyToSurface(c)
        PROVE  Costless
    <2>1. Lost' \subseteq Lost
      <3>1. UNCHANGED <<frameVars, queueVars>>
        BY <1>10 DEF CopyToSurface, captureFrame, frameVars, queueVars
      <3> QED
        BY <3>1, KeepLosesNone
    <2>2. (MayLose' => MayLose) /\ starts' = starts
      BY <1>10, ThreadFacts
      DEF CopyToSurface, Goto, captureFrame, flagVars, requestVars, MayLose, PcTypes
    <2> QED
      BY <2>1, <2>2 DEF Costless
  <1>11. ASSUME Posted(c)
        PROVE  Costless
    <2>1. Lost' \subseteq Lost
      <3>1. UNCHANGED <<frameVars, queueVars>>
        BY <1>11 DEF Posted, captureFrame, frameVars, queueVars
      <3> QED
        BY <3>1, KeepLosesNone
    <2>2. (MayLose' => MayLose) /\ starts' = starts
      BY <1>11, ThreadFacts
      DEF Posted, Goto, captureFrame, flagVars, requestVars, MayLose, PcTypes
    <2> QED
      BY <2>1, <2>2 DEF Costless
  <1>12. ASSUME CaptureCallback(c)
        PROVE  Costless
    <2>1. Lost' \subseteq Lost
      <3>1. UNCHANGED <<frameVars, queueVars>>
        BY <1>12 DEF CaptureCallback, captureBuffers, captureFrame, frameVars, queueVars
      <3> QED
        BY <3>1, KeepLosesNone
    <2>2. (MayLose' => MayLose) /\ starts' = starts
      BY <1>12, ThreadFacts
      DEF CaptureCallback, Goto, captureBuffers, captureFrame, flagVars, requestVars,
          MayLose, PcTypes
    <2> QED
      BY <2>1, <2>2 DEF Costless
  <1>13. ASSUME ConvertCallback(c)
        PROVE  Costless
    <2>1. Lost' \subseteq Lost
      <3>1. CASE UNCHANGED frameVars
        <4>1. UNCHANGED queueVars
          BY <1>13 DEF ConvertCallback, captureBuffers, captureFrame, queueVars
        <4> QED
          BY <3>1, <4>1, KeepLosesNone
      <3>2. ASSUME NEW n, GetFrame(CapCallback(c), n)
            PROVE  Lost' \subseteq Lost
        <4>1. CapCallback(c) \in Slots /\ UNCHANGED queueVars
          BY <1>13, SlotsApart DEF ConvertCallback, captureBuffers, captureFrame, queueVars
        <4>2. CASE local[CapCallback(c)] = NULL
          BY <3>2, <4>1, <4>2, GetLosesNone
        <4>3. local[CapCallback(c)] = NULL
          BY <1>13, ThreadFacts DEF ConvertCallback, Goto, SlotsFit
        <4> QED
          BY <4>2, <4>3
      <3> QED
        BY <1>13, <3>1, <3>2 DEF ConvertCallback
    <2>2. (MayLose' => MayLose) /\ starts' = starts
      BY <1>13, ThreadFacts
      DEF ConvertCallback, Goto, captureBuffers, captureFrame, flagVars, requestVars,
          MayLose, PcTypes
    <2> QED
      BY <2>1, <2>2 DEF Costless
  <1>14. ASSUME RecycleConverted(c)
        PROVE  Costless
    <2>1. Lost' \subseteq Lost
      <3>1. /\ CapFrame(c) \in Slots /\ local[CapFrame(c)] # NULL
            /\ Recycle(CapFrame(c)) /\ UNCHANGED queueVars
        BY <1>14, SlotsApart
        DEF RecycleConverted, Goto, captureBuffers, captureFrame, queueVars, NoNullFrame,
            CaptureHolds
      <3> QED
        BY <3>1, RecycleLosesNone
    <2>2. (MayLose' => MayLose) /\ starts' = starts
      BY <1>14, ThreadFacts
      DEF RecycleConverted, Goto, captureBuffers, captureFrame, flagVars, requestVars,
          MayLose, PcTypes
    <2> QED
      BY <2>1, <2>2 DEF Costless
  <1>15. ASSUME CallOnFrame(c)
        PROVE  Costless
    <2>1. Lost' \subseteq Lost
      <3>1. UNCHANGED <<frameVars, queueVars>>
        BY <1>15 DEF CallOnFrame, captureFrame, frameVars, queueVars
      <3> QED
        BY <3>1, KeepLosesNone
    <2>2. (MayLose' => MayLose) /\ starts' = starts
      BY <1>15, ThreadFacts
      DEF CallOnFrame, Goto, captureFrame, flagVars, requestVars, MayLose, PcTypes
    <2> QED
      BY <2>1, <2>2 DEF Costless
  <1>16. ASSUME ReturnOnFrame(c)
        PROVE  Costless
    <2>1. Lost' \subseteq Lost
      <3>1. UNCHANGED <<frameVars, queueVars>>
        BY <1>16 DEF ReturnOnFrame, captureFrame, frameVars, queueVars
      <3> QED
        BY <3>1, KeepLosesNone
    <2>2. (MayLose' => MayLose) /\ starts' = starts
      BY <1>16, ThreadFacts
      DEF ReturnOnFrame, Goto, captureFrame, flagVars, requestVars, MayLose, PcTypes
    <2> QED
      BY <2>1, <2>2 DEF Costless
  <1>17. ASSUME RecycleCallback(c)
        PROVE  Costless
    <2>1. Lost' \subseteq Lost
      <3>1. /\ CallbackSlot(c) \in Slots /\ local[CallbackSlot(c)] # NULL
            /\ Recycle(CallbackSlot(c)) /\ UNCHANGED queueVars
        BY <1>17, SlotsApart
        DEF RecycleCallback, Goto, captureBuffers, captureFrame, queueVars, NoNullFrame,
            CaptureHolds, CallbackSlot
      <3> QED
        BY <3>1, RecycleLosesNone
    <2>2. (MayLose' => MayLose) /\ starts' = starts
      BY <1>17, ThreadFacts
      DEF RecycleCallback, Goto, captureBuffers, captureFrame, flagVars, requestVars,
          MayLose, PcTypes
    <2> QED
      BY <2>1, <2>2 DEF Costless
  <1>18. ASSUME SurfaceEnd(c)
        PROVE  Costless
    <2>1. Lost' \subseteq Lost
      <3>1. CapConverted(c) \in Slots /\ UNCHANGED queueVars
        BY <1>18, SlotsApart DEF SurfaceEnd, captureBuffers, captureFrame, queueVars
      <3>2. CASE local[CapConverted(c)] # NULL
        BY <1>18, <3>1, <3>2, RecycleLosesNone DEF SurfaceEnd
      <3>3. CASE local[CapConverted(c)] = NULL
        BY <1>18, <3>1, <3>3, KeepLosesNone DEF SurfaceEnd
      <3> QED
        BY <3>2, <3>3
    <2>2. (MayLose' => MayLose) /\ starts' = starts
      BY <1>18, ThreadFacts
      DEF SurfaceEnd, Goto, captureBuffers, captureFrame, flagVars, requestVars, MayLose,
          PcTypes
    <2> QED
      BY <2>1, <2>2 DEF Costless
  <1>19. ASSUME SurfaceRelease(c)
        PROVE  Costless
    <2>1. Lost' \subseteq Lost
      <3>1. UNCHANGED <<frameVars, queueVars>>
        BY <1>19 DEF SurfaceRelease, captureFrame, frameVars, queueVars
      <3> QED
        BY <3>1, KeepLosesNone
    <2>2. (MayLose' => MayLose) /\ starts' = starts
      BY <1>19, ThreadFacts
      DEF SurfaceRelease, Goto, captureFrame, flagVars, requestVars, MayLose, PcTypes
    <2> QED
      BY <2>1, <2>2 DEF Costless
  <1>20. ASSUME CaptureBroadcast(c)
        PROVE  Costless
    <2>1. Lost' \subseteq Lost
      <3>1. UNCHANGED <<frameVars, queueVars>>
        BY <1>20 DEF CaptureBroadcast, captureFrame, frameVars, queueVars
      <3> QED
        BY <3>1, KeepLosesNone
    <2>2. (MayLose' => MayLose) /\ starts' = starts
      BY <1>20, ThreadFacts
      DEF CaptureBroadcast, Goto, captureFrame, flagVars, requestVars, MayLose, PcTypes
    <2> QED
      BY <2>1, <2>2 DEF Costless
  <1> QED
    BY <1>1, <1>2, <1>3, <1>4, <1>5, <1>6, <1>7, <1>8, <1>9, <1>10, <1>11, <1>12, <1>13,
       <1>14, <1>15, <1>16, <1>17, <1>18, <1>19, <1>20
    DEF Capture

\* the control thread loses no frame
LEMMA ControlCosts ==
    ASSUME IInv, Life, Control
    PROVE  Costless \/ Paid
  <1> USE DEF IInv, Life
  <1>1. ASSUME NEW w \in Windows, SetPreviewDisplay(w)
        PROVE  Costless \/ Paid
    <2>1. Lost' \subseteq Lost
      <3>1. UNCHANGED <<frameVars, queueVars>>
        BY <1>1 DEF SetPreviewDisplay, controlFrame, frameVars, queueVars
      <3> QED
        BY <3>1, KeepLosesNone
    <2>2. (MayLose' => MayLose) /\ starts' = starts
      BY <1>1, ThreadFacts
      DEF SetPreviewDisplay, Idle, controlFrame, flagVars, requestVars, MayLose, PcTypes
    <2> QED
      BY <2>1, <2>2 DEF Costless
  <1>2. ASSUME NEW w \in CaptureWindows, SetCaptureDisplay(w)
        PROVE  Costless \/ Paid
    <2>1. Lost' \subseteq Lost
      <3>1. UNCHANGED <<frameVars, queueVars>>
        BY <1>2 DEF SetCaptureDisplay, controlFrame, frameVars, queueVars
      <3> QED
        BY <3>1, KeepLosesNone
    <2>2. (MayLose' => MayLose) /\ starts' = starts
      BY <1>2, ThreadFacts
      DEF SetCaptureDisplay, Idle, Sleep, controlFrame, MayLose, PcTypes
    <2> QED
      BY <2>1, <2>2 DEF Costless
  <1>3. ASSUME NEW cb \in Callbacks, NEW fmt \in PixelFormats, SetFrameCallback(cb, fmt)
        PROVE  Costless \/ Paid
    <2>1. Lost' \subseteq Lost
      <3>1. UNCHANGED <<frameVars, queueVars>>
        BY <1>3 DEF SetFrameCallback, FrameCallback, controlFrame, frameVars, queueVars
      <3> QED
        BY <3>1, KeepLosesNone
    <2>2. (MayLose' => MayLose) /\ starts' = starts
      BY <1>3, ThreadFacts
      DEF SetFrameCallback, Idle, FrameCallback, Sleep, controlFrame, MayLose, PcTypes
    <2> QED
      BY <2>1, <2>2 DEF Costless
  <1>4. ASSUME NEW close \in BOOLEAN, StopPreview(close)
        PROVE  Costless \/ Paid
    <2>1. Lost' \subseteq Lost
      <3>1. UNCHANGED <<frameVars, queueVars>>
        BY <1>4 DEF StopPreview, FrameCallback, controlFrame, frameVars, queueVars
      <3> QED
        BY <3>1, KeepLosesNone
    <2>2. (MayLose' => MayLose) /\ starts' = starts
      BY <1>4, ThreadFacts
      DEF StopPreview, Idle, FrameCallback, Sleep, controlFrame, MayLose, PcTypes
    <2> QED
      BY <2>1, <2>2 DEF Costless
  <1>5. ASSUME SwapFrameCallback
        PROVE  Costless \/ Paid
    <2>1. Lost' \subseteq Lost
      <3>1. UNCHANGED <<frameVars, queueVars>>
        BY <1>5 DEF SwapFrameCallback, Wake, controlFrame, frameVars, queueVars
      <3> QED
        BY <3>1, KeepLosesNone
    <2>2. (MayLose' => MayLose) /\ starts' = starts
      BY <1>5, ThreadFacts
      DEF SwapFrameCallback, Goto, Wake, controlFrame, flagVars, MayLose, PcTypes
    <2> QED
      BY <2>1, <2>2 DEF Costless
  <1>6. ASSUME SwapCaptureDisplay
        PROVE  Costless \/ Paid
    <2>1. Lost' \subseteq Lost
      <3>1. UNCHANGED <<frameVars, queueVars>>
        BY <1>6 DEF SwapCaptureDisplay, Wake, controlFrame, frameVars, queueVars
      <3> QED
        BY <3>1, KeepLosesNone
    <2>2. (MayLose' => MayLose) /\ starts' = starts
      BY <1>6, ThreadFacts
      DEF SwapCaptureDisplay, Goto, Wake, controlFrame, flagVars, MayLose, PcTypes
    <2> QED
      BY <2>1, <2>2 DEF Costless
  <1>7. ASSUME StartPreview
        PROVE  Costless \/ Paid
    <2>1. Lost' \subseteq Lost
      <3>1. UNCHANGED <<frameVars, queueVars>>
        BY <1>7 DEF StartPreview, controlTargets, controlFrame, frameVars, queueVars
      <3> QED
        BY <3>1, KeepLosesNone
    <2>2. starts' = starts + 1
      BY <1>7 DEF StartPreview
    <2> QED
      BY <2>1, <2>2 DEF Paid
  <1>8. ASSUME CreatePreviewThread
        PROVE  Costless \/ Paid
    <2>1. Lost' \subseteq Lost
      <3>1. UNCHANGED <<frameVars, queueVars>>
        BY <1>8 DEF CreatePreviewThread, controlTargets, controlFrame, frameVars, queueVars
      <3> QED
        BY <3>1, KeepLosesNone
    <2>2. (MayLose' => MayLose) /\ starts' = starts
      BY <1>8, ThreadFacts
      DEF CreatePreviewThread, controlTargets, controlFrame, flagVars, MayLose, PcTypes
    <2> QED
      BY <2>1, <2>2 DEF Costless
  <1>9. ASSUME StartPreviewFailed
        PROVE  Costless \/ Paid
    <2>1. Lost' \subseteq Lost
      <3>1. UNCHANGED <<frameVars, queueVars>>
        BY <1>9 DEF StartPreviewFailed, controlTargets, controlFrame, frameVars, queueVars
      <3> QED
        BY <3>1, KeepLosesNone
    <2>2. (MayLose' => MayLose) /\ starts' = starts
      BY <1>9, ThreadFacts
      DEF StartPreviewFailed, Goto, controlTargets, controlFrame, MayLose, PcTypes
    <2> QED
      BY <2>1, <2>2 DEF Costless
  <1>10. ASSUME ClearRunning
        PROVE  Costless \/ Paid
    <2>1. Lost' \subseteq Lost
      <3>1. UNCHANGED <<frameVars, queueVars>>
        BY <1>10 DEF ClearRunning, controlTargets, controlFrame, frameVars, queueVars
      <3> QED
        BY <3>1, KeepLosesNone
    <2>2. (MayLose' => MayLose) /\ starts' = starts
      BY <1>10, ThreadFacts
      DEF ClearRunning, controlTargets, controlFrame, MayLose, PcTypes
    <2> QED
      BY <2>1, <2>2 DEF Costless
  <1>11. ASSUME StopSignalPreview
        PROVE  Costless \/ Paid
    <2>1. Lost' \subseteq Lost
      <3>1. UNCHANGED <<frameVars, queueVars>>
        BY <1>11 DEF StopSignalPreview, controlTargets, controlFrame, frameVars, queueVars
      <3> QED
        BY <3>1, KeepLosesNone
    <2>2. (MayLose' => MayLose) /\ starts' = starts
      BY <1>11, ThreadFacts
      DEF StopSignalPreview, Goto, controlTargets, controlFrame, flagVars, MayLose, PcTypes
    <2> QED
      BY <2>1, <2>2 DEF Costless
  <1>12. ASSUME StopSignalCapture
        PROVE  Costless \/ Paid
    <2>1. Lost' \subseteq Lost
      <3>1. UNCHANGED <<frameVars, queueVars>>
        BY <1>12 DEF StopSignalCapture, controlTargets, controlFrame, frameVars, queueVars
      <3> QED
        BY <3>1, KeepLosesNone
    <2>2. (MayLose' => MayLose) /\ starts' = starts
      BY <1>12, ThreadFacts
      DEF StopSignalCapture, Goto, controlTargets, controlFrame, flagVars, MayLose, PcTypes
    <2> QED
      BY <2>1, <2>2 DEF Costless
  <1>13. ASSUME JoinCaptureThread
        PROVE  Costless \/ Paid
    <2>1. Lost' \subseteq Lost
      <3>1. UNCHANGED <<frameVars, queueVars>>
        BY <1>13 DEF JoinCaptureThread, frameVars, queueVars
      <3> QED
        BY <3>1, KeepLosesNone
    <2>2. (MayLose' => MayLose) /\ starts' = starts
      BY <1>13, ThreadFacts
      DEF JoinCaptureThread, flagVars, requestVars, MayLose, PcTypes
    <2> QED
      BY <2>1, <2>2 DEF Costless
  <1>14. ASSUME JoinPreviewThread
        PROVE  Costless \/ Paid
    <2>1. Lost' \subseteq Lost
      <3>1. UNCHANGED <<frameVars, queueVars>>
        BY <1>14 DEF JoinPreviewThread, controlTargets, controlFrame, frameVars, queueVars
      <3> QED
        BY <3>1, KeepLosesNone
    <2>2. (MayLose' => MayLose) /\ starts' = starts
      BY <1>14, ThreadFacts
      DEF JoinPreviewThread, controlTargets, controlFrame, flagVars, MayLose, PcTypes
    <2> QED
      BY <2>1, <2>2 DEF Costless
  <1>15. ASSUME StopClearPreview
        PROVE  Costless \/ Paid
    <2>1. Lost' \subseteq Lost
      BY <1>15, ClearPreviewLosesNone DEF StopClearPreview
    <2>2. (MayLose' => MayLose) /\ starts' = starts
      BY <1>15, ThreadFacts
      DEF StopClearPreview, Goto, flagVars, requestVars, MayLose, PcTypes
    <2> QED
      BY <2>1, <2>2 DEF Costless
  <1>16. ASSUME StopClearCapture
        PROVE  Costless \/ Paid
    <2>1. Lost' \subseteq Lost
      BY <1>16, ClearCaptureLosesNone DEF StopClearCapture
    <2>2. (MayLose' => MayLose) /\ starts' = starts
      BY <1>16, ThreadFacts
      DEF StopClearCapture, Goto, flagVars, requestVars, MayLose, PcTypes
    <2> QED
      BY <2>1, <2>2 DEF Costless
  <1>17. ASSUME ReleasePreviewWindow
        PROVE  Costless \/ Paid
    <2>1. Lost' \subseteq Lost
      <3>1. UNCHANGED <<frameVars, queueVars>>
        BY <1>17 DEF ReleasePreviewWindow, controlFrame, frameVars, queueVars
      <3> QED
        BY <3>1, KeepLosesNone
    <2>2. (MayLose' => MayLose) /\ starts' = starts
      BY <1>17, ThreadFacts
      DEF ReleasePreviewWindow, Goto, controlFrame, flagVars, requestVars, MayLose, PcTypes
    <2> QED
      BY <2>1, <2>2 DEF Costless
  <1>18. ASSUME ReleaseCaptureWindow
        PROVE  Costless \/ Paid
    <2>1. Lost' \subseteq Lost
      <3>1. UNCHANGED <<frameVars, queueVars>>
        BY <1>18 DEF ReleaseCaptureWindow, controlFrame, frameVars, queueVars
      <3> QED
        BY <3>1, KeepLosesNone
    <2>2. (MayLose' => MayLose) /\ starts' = starts
      BY <1>18, ThreadFacts
      DEF ReleaseCaptureWindow, Goto, controlFrame, flagVars, requestVars, MayLose, PcTypes
    <2> QED
      BY <2>1, <2>2 DEF Costless
  <1>19. ASSUME DeletePreview
        PROVE  Costless \/ Paid
    <2>1. Lost' \subseteq Lost
      BY <1>19, DeleteLosesNone
    <2>2. (MayLose' => MayLose) /\ starts' = starts
      BY <1>19, ThreadFacts
      DEF DeletePreview, Goto, flagVars, requestVars, MayLose, PcTypes
    <2> QED
      BY <2>1, <2>2 DEF Costless
  <1> QED
    BY <1>1, <1>2, <1>3, <1>4, <1>5, <1>6, <1>7, <1>8, <1>9, <1>10, <1>11, <1>12, <1>13,
       <1>14, <1>15, <1>16, <1>17, <1>18, <1>19
    DEF Control

\* the count is kept by every step
LEMMA LossStep ==
    ASSUME IInv, Life, LossCounted, [Next]_vars
    PROVE  LossCounted'
  <1>1. Costless \/ LosesOne \/ Paid
    <2>1. CASE SpuriousWakeup \/ UNCHANGED vars
      <3>1. UNCHANGED <<frameVars, queueVars>> /\ pc' = pc /\ mIsRunning' = mIsRunning
            /\ starts' = starts
        BY <2>1 DEF SpuriousWakeup, vars, flagVars, requestVars
      <3> QED
        BY <3>1, KeepLosesNone DEF Costless, MayLose
    <2> QED
      BY <2>1, UsbCosts, PreviewCosts, CaptureCosts, ControlCosts DEF Next
  <1>2. IsFiniteSet(Lost) /\ Cardinality(Lost) \in Nat /\ starts \in Nat
    BY FS_CardinalityType DEF LossCounted, IInv, RestTypes
  <1>3. CASE Costless \/ Paid
    <2>1. IsFiniteSet(Lost') /\ Cardinality(Lost') <= Cardinality(Lost)
      BY <1>2, <1>3, FS_Subset DEF Costless, Paid
    <2>2. Cardinality(Lost') \in Nat
      BY <2>1, FS_CardinalityType
    <2> DEFINE card == Cardinality(Lost)
               next == Cardinality(Lost')
    <2>3. card \in Nat /\ next \in Nat /\ next <= card
          /\ card + (IF MayLose THEN 1 ELSE 0) <= starts
      BY <1>2, <2>1, <2>2 DEF LossCounted
    <2> HIDE DEF card, next
    <2>4. next + (IF MayLose' THEN 1 ELSE 0) <= starts'
      BY <1>2, <1>3, <2>3 DEF Costless, Paid
    <2> QED
      BY <2>1, <2>4 DEF LossCounted, next
  <1>4. CASE LosesOne
    <2> DEFINE more == Lost \cup {local[Frame]}
    <2>1. IsFiniteSet(more) /\ Cardinality(more) <= Cardinality(Lost) + 1
          /\ Cardinality(more) \in Nat
      BY <1>2, FS_AddElement, FS_CardinalityType
    <2>2. IsFiniteSet(Lost') /\ Cardinality(Lost') <= Cardinality(more)
      BY <1>4, <2>1, FS_Subset DEF LosesOne
    <2>3. Cardinality(Lost') \in Nat
      BY <2>2, FS_CardinalityType
    <2> DEFINE card == Cardinality(Lost)
               next == Cardinality(Lost')
               bound == Cardinality(more)
    <2>4. card \in Nat /\ next \in Nat /\ bound \in Nat /\ next <= bound /\ bound <= card + 1
          /\ card + 1 <= starts
      BY <1>2, <1>4, <2>1, <2>2, <2>3 DEF LossCounted, LosesOne
    <2> HIDE DEF card, next, bound
    <2>5. next + (IF MayLose' THEN 1 ELSE 0) <= starts'
      BY <1>2, <1>4, <2>4 DEF LosesOne
    <2> QED
      BY <2>2, <2>5 DEF LossCounted, next
  <1> QED
    BY <1>1, <1>3, <1>4

\* nothing is lost at first
LEMMA LossInit == Init => LossCounted
  <1> SUFFICES ASSUME Init
               PROVE  LossCounted
    OBVIOUS
  <1>1. Lost = {} /\ ~MayLose /\ starts = 0
    BY ThreadFacts DEF Init, Lost, MayLose
  <1> QED
    BY <1>1, FS_EmptySet DEF LossCounted

\* addCaptureFrame forgets its frame when the preview has been stopped (698); that
\* is the only leak of the pipeline and happens at most once for each start,
\* through any number of sessions and wherever they are stopped.
THEOREM LeakOncePerStart == Spec => []LeakBounded
  <1>1. Init => IInv /\ Life /\ LossCounted
    BY IInvInit, LifeInit, LossInit
  <1>2. IInv /\ Life /\ LossCounted /\ [Next]_vars => (IInv /\ Life /\ LossCounted)'
    BY IInvStep, LifeStep, LossStep
  <1>3. IInv /\ LossCounted => LeakBounded
    <2> SUFFICES ASSUME IInv, LossCounted
                 PROVE  Cardinality(Lost) <= starts
      BY DEF LeakBounded, Lost
    <2> DEFINE card == Cardinality(Lost)
    <2>1. card \in Nat /\ starts \in Nat /\ card + (IF MayLose THEN 1 ELSE 0) <= starts
      BY FS_CardinalityType DEF LossCounted, IInv, RestTypes
    <2> HIDE DEF card
    <2>2. card <= starts
      BY <2>1
    <2> QED
      BY <2>2 DEF card
  <1> QED
    BY <1>1, <1>2, <1>3, PTL DEF Spec

-------------------------------------------------------------------------------
(* Threads that sleep *)

\* waitPreviewFrame sleeps on an empty queue, waitCaptureFrame on no frame
PreviewSleeps == "preview" \in preview_sync => pc["preview"] = "woken" /\ previewFrames = <<>>
CaptureSleeps(c) == c \in capture_sync => pc[c] = "woken" /\ captureQueu = NULL
SetterSleeps ==
    "control" \in capture_sync =>
        pc["control"] \in {"setFrameCallback", "stop.setFrameCallback", "setCaptureDisplay"}

\* What a thread sleeps for is not there: no frame is queued for a sleeping preview or
\* capture thread.
NoFrameSleptThrough ==
    /\ PreviewSleeps
    /\ \A c \in CaptureThreads : CaptureSleeps(c)
    /\ SetterSleeps

\* the callback thread queues a frame and signals in one critical section (415-427)
LEMMA UsbWakes ==
    ASSUME IInv, Life, NoFrameSleptThrough, Usb
    PROVE  NoFrameSleptThrough'
  <1> USE DEF IInv, Life, Threading
  <1>1. ASSUME DeliverFrame
        PROVE  NoFrameSleptThrough'
    BY <1>1, ThreadFacts
    DEF DeliverFrame, usbFrame, flagVars, targetVars, captureVars, requestVars, frameVars,
        queueVars, syncVars, NoFrameSleptThrough, PreviewSleeps, CaptureSleeps, SetterSleeps,
        PcTypes
  <1>2. ASSUME CopyFrame
        PROVE  NoFrameSleptThrough'
    BY <1>2, ThreadFacts
    DEF CopyFrame, Goto, usbFrame, flagVars, targetVars, captureVars, requestVars, frameVars,
        queueVars, syncVars, NoFrameSleptThrough, PreviewSleeps, CaptureSleeps, SetterSleeps,
        PcTypes
  <1>3. ASSUME AddPreviewFrame
        PROVE  NoFrameSleptThrough'
    BY <1>3, ThreadFacts
    DEF AddPreviewFrame, Goto, usbFrame, flagVars, targetVars, captureVars, requestVars,
        SignalPreview, Queued, NoFrameSleptThrough, PreviewSleeps, CaptureSleeps, SetterSleeps,
        PcTypes
  <1>4. ASSUME RecycleCopy
        PROVE  NoFrameSleptThrough'
    BY <1>4, ThreadFacts
    DEF RecycleCopy, Goto, usbFrame, flagVars, targetVars, captureVars, requestVars, queueVars,
        syncVars, NoFrameSleptThrough, PreviewSleeps, CaptureSleeps, SetterSleeps, PcTypes
  <1> QED
    BY <1>1, <1>2, <1>3, <1>4
    DEF Usb

\* the preview thread sleeps on an empty queue, and wakes all when it leaves a frame
LEMMA PreviewWakes ==
    ASSUME IInv, Life, NoFrameSleptThrough, Preview
    PROVE  NoFrameSleptThrough'
  <1> USE DEF IInv, Life, Threading
  <1>1. ASSUME PreparePreview
        PROVE  NoFrameSleptThrough'
    BY <1>1, ThreadFacts
    DEF PreparePreview, Goto, previewLocal, previewFrame, flagVars, targetVars, requestVars,
        frameVars, queueVars, syncVars, NoFrameSleptThrough, PreviewSleeps, CaptureSleeps,
        SetterSleeps, PcTypes
  <1>2. ASSUME StartStreaming
        PROVE  NoFrameSleptThrough'
    BY <1>2, ThreadFacts
    DEF StartStreaming, Goto, previewFrame, flagVars, targetVars, requestVars, frameVars,
        queueVars, syncVars, NoFrameSleptThrough, PreviewSleeps, CaptureSleeps, SetterSleeps,
        PcTypes
  <1>3. ASSUME ClearStalePreview
        PROVE  NoFrameSleptThrough'
    BY <1>3, ThreadFacts
    DEF ClearStalePreview, Goto, previewLocal, previewFrame, flagVars, targetVars, requestVars,
        syncVars, ClearPreviewFrame, NoFrameSleptThrough, PreviewSleeps, CaptureSleeps,
        SetterSleeps, PcTypes
  <1>4. ASSUME CreateCaptureThread
        PROVE  NoFrameSleptThrough'
    BY <1>4, ThreadFacts
    DEF CreateCaptureThread, previewFrame, flagVars, targetVars, requestVars, frameVars,
        queueVars, syncVars, NoFrameSleptThrough, PreviewSleeps, CaptureSleeps, SetterSleeps,
        PcTypes, RestTypes
  <1>5. ASSUME PreviewLoop
        PROVE  NoFrameSleptThrough'
    BY <1>5, ThreadFacts
    DEF PreviewLoop, Goto, previewLocal, previewFrame, flagVars, targetVars, requestVars,
        frameVars, queueVars, syncVars, NoFrameSleptThrough, PreviewSleeps, CaptureSleeps,
        SetterSleeps, PcTypes
  <1>6. ASSUME WaitPreviewFrame
        PROVE  NoFrameSleptThrough'
    BY <1>6, ThreadFacts
    DEF WaitPreviewFrame, Goto, previewLocal, previewFrame, flagVars, targetVars, requestVars,
        frameVars, queueVars, TakePreviewFrame, NoFrameSleptThrough, PreviewSleeps,
        CaptureSleeps, SetterSleeps, PcTypes
  <1>7. ASSUME WakePreviewFrame
        PROVE  NoFrameSleptThrough'
    BY <1>7, ThreadFacts
    DEF WakePreviewFrame, previewLocal, previewFrame, flagVars, targetVars, requestVars,
        syncVars, TakePreviewFrame, Goto, NoFrameSleptThrough, PreviewSleeps, CaptureSleeps,
        SetterSleeps, PcTypes
  <1>8. ASSUME DecodeFrame
        PROVE  NoFrameSleptThrough'
    BY <1>8, ThreadFacts
    DEF DecodeFrame, Goto, previewLocal, previewFrame, flagVars, targetVars, requestVars,
        queueVars, syncVars, NoFrameSleptThrough, PreviewSleeps, CaptureSleeps, SetterSleeps,
        PcTypes
  <1>9. ASSUME RecycleMjpeg
        PROVE  NoFrameSleptThrough'
    BY <1>9, ThreadFacts
    DEF RecycleMjpeg, Goto, previewLocal, previewFrame, flagVars, targetVars, requestVars,
        queueVars, syncVars, NoFrameSleptThrough, PreviewSleeps, CaptureSleeps, SetterSleeps,
        PcTypes
  <1>10. ASSUME DropFrame
        PROVE  NoFrameSleptThrough'
    BY <1>10, ThreadFacts
    DEF DropFrame, Goto, previewLocal, previewFrame, flagVars, targetVars, requestVars,
        queueVars, syncVars, NoFrameSleptThrough, PreviewSleeps, CaptureSleeps, SetterSleeps,
        PcTypes
  <1>11. ASSUME DrawIfWindow
        PROVE  NoFrameSleptThrough'
    BY <1>11, ThreadFacts
    DEF DrawIfWindow, Goto, previewLocal, previewFrame, flagVars, targetVars, requestVars,
        frameVars, queueVars, syncVars, NoFrameSleptThrough, PreviewSleeps, CaptureSleeps,
        SetterSleeps, PcTypes
  <1>12. ASSUME ConvertPreview
        PROVE  NoFrameSleptThrough'
    BY <1>12, ThreadFacts
    DEF ConvertPreview, Goto, previewLocal, previewFrame, flagVars, targetVars, requestVars,
        frameVars, queueVars, syncVars, NoFrameSleptThrough, PreviewSleeps, CaptureSleeps,
        SetterSleeps, PcTypes
  <1>13. ASSUME ShowPreview
        PROVE  NoFrameSleptThrough'
    BY <1>13, ThreadFacts
    DEF ShowPreview, Goto, previewLocal, previewFrame, flagVars, targetVars, requestVars,
        queueVars, syncVars, NoFrameSleptThrough, PreviewSleeps, CaptureSleeps, SetterSleeps,
        PcTypes
  <1>14. ASSUME AddCaptureFrame
        PROVE  NoFrameSleptThrough'
    BY <1>14, ThreadFacts
    DEF AddCaptureFrame, Goto, previewLocal, previewFrame, flagVars, targetVars, requestVars,
        BroadcastCapture, NoFrameSleptThrough, PreviewSleeps, CaptureSleeps, SetterSleeps,
        PcTypes
  <1>15. ASSUME PreviewSignal
        PROVE  NoFrameSleptThrough'
    BY <1>15, ThreadFacts
    DEF PreviewSignal, Goto, previewLocal, previewFrame, flagVars, targetVars, requestVars,
        frameVars, queueVars, SignalCapture, NoFrameSleptThrough, PreviewSleeps, CaptureSleeps,
        SetterSleeps, PcTypes
  <1>16. ASSUME StopStreaming
        PROVE  NoFrameSleptThrough'
    BY <1>16, ThreadFacts
    DEF StopStreaming, Goto, previewFrame, flagVars, targetVars, requestVars, frameVars,
        queueVars, syncVars, NoFrameSleptThrough, PreviewSleeps, CaptureSleeps, SetterSleeps,
        PcTypes
  <1> QED
    BY <1>1, <1>2, <1>3, <1>4, <1>5, <1>6, <1>7, <1>8, <1>9, <1>10, <1>11, <1>12, <1>13,
       <1>14, <1>15, <1>16
    DEF Preview

\* a capture thread sleeps when there is no frame
LEMMA CaptureWakes ==
    ASSUME IInv, Life, NoFrameSleptThrough, NEW d \in CaptureThreads, Capture(d)
    PROVE  NoFrameSleptThrough'
  <1> USE DEF IInv, Life, Threading
  <1>1. ASSUME CaptureBegin(d)
        PROVE  NoFrameSleptThrough'
    BY <1>1, ThreadFacts
    DEF CaptureBegin, Goto, flagVars, targetVars, syncVars, captureVars, requestVars, streamVars,
        ClearCaptureFrame, NoFrameSleptThrough, PreviewSleeps, CaptureSleeps, SetterSleeps,
        PcTypes
  <1>2. ASSUME CaptureOuter(d)
        PROVE  NoFrameSleptThrough'
    BY <1>2, ThreadFacts
    DEF CaptureOuter, Goto, captureBuffers, captureFrame, flagVars, requestVars, frameVars,
        NoFrameSleptThrough, PreviewSleeps, CaptureSleeps, SetterSleeps, PcTypes
  <1>3. ASSUME CaptureArm(d)
        PROVE  NoFrameSleptThrough'
    BY <1>3, ThreadFacts
    DEF CaptureArm, Goto, frameVars, queueVars, targetVars, syncVars, captureVars, requestVars,
        streamVars, NoFrameSleptThrough, PreviewSleeps, CaptureSleeps, SetterSleeps, PcTypes
  <1>4. ASSUME CaptureChoose(d)
        PROVE  NoFrameSleptThrough'
    BY <1>4, ThreadFacts
    DEF CaptureChoose, Goto, captureFrame, flagVars, requestVars, frameVars, NoFrameSleptThrough,
        PreviewSleeps, CaptureSleeps, SetterSleeps, PcTypes
  <1>5. ASSUME CaptureLoop(d)
        PROVE  NoFrameSleptThrough'
    BY <1>5, ThreadFacts
    DEF CaptureLoop, Goto, captureBuffers, captureFrame, flagVars, requestVars, frameVars,
        NoFrameSleptThrough, PreviewSleeps, CaptureSleeps, SetterSleeps, PcTypes
  <1>6. ASSUME WaitCaptureFrame(d)
        PROVE  NoFrameSleptThrough'
    BY <1>6, ThreadFacts
    DEF WaitCaptureFrame, Goto, captureFrame, flagVars, requestVars, frameVars, TakeCaptureFrame,
        NoFrameSleptThrough, PreviewSleeps, CaptureSleeps, SetterSleeps, PcTypes
  <1>7. ASSUME WakeCaptureFrame(d)
        PROVE  NoFrameSleptThrough'
    BY <1>7, ThreadFacts
    DEF WakeCaptureFrame, captureFrame, flagVars, requestVars, TakeCaptureFrame, Goto,
        NoFrameSleptThrough, PreviewSleeps, CaptureSleeps, SetterSleeps, PcTypes
  <1>8. ASSUME CaptureTaken(d)
        PROVE  NoFrameSleptThrough'
    BY <1>8, ThreadFacts
    DEF CaptureTaken, Goto, captureBuffers, captureFrame, flagVars, requestVars, frameVars,
        NoFrameSleptThrough, PreviewSleeps, CaptureSleeps, SetterSleeps, PcTypes
  <1>9. ASSUME RenderCapture(d)
        PROVE  NoFrameSleptThrough'
    BY <1>9, ThreadFacts
    DEF RenderCapture, Goto, captureBuffers, captureFrame, flagVars, requestVars, frameVars,
        NoFrameSleptThrough, PreviewSleeps, CaptureSleeps, SetterSleeps, PcTypes
  <1>10. ASSUME CopyToSurface(d)
        PROVE  NoFrameSleptThrough'
    BY <1>10, ThreadFacts
    DEF CopyToSurface, Goto, captureFrame, flagVars, requestVars, frameVars, NoFrameSleptThrough,
        PreviewSleeps, CaptureSleeps, SetterSleeps, PcTypes
  <1>11. ASSUME Posted(d)
        PROVE  NoFrameSleptThrough'
    BY <1>11, ThreadFacts
    DEF Posted, Goto, captureFrame, flagVars, requestVars, frameVars, NoFrameSleptThrough,
        PreviewSleeps, CaptureSleeps, SetterSleeps, PcTypes
  <1>12. ASSUME CaptureCallback(d)
        PROVE  NoFrameSleptThrough'
    BY <1>12, ThreadFacts
    DEF CaptureCallback, Goto, captureBuffers, captureFrame, flagVars, requestVars, frameVars,
        NoFrameSleptThrough, PreviewSleeps, CaptureSleeps, SetterSleeps, PcTypes
  <1>13. ASSUME ConvertCallback(d)
        PROVE  NoFrameSleptThrough'
    BY <1>13, ThreadFacts
    DEF ConvertCallback, Goto, captureBuffers, captureFrame, flagVars, requestVars, frameVars,
        NoFrameSleptThrough, PreviewSleeps, CaptureSleeps, SetterSleeps, PcTypes
  <1>14. ASSUME RecycleConverted(d)
        PROVE  NoFrameSleptThrough'
    BY <1>14, ThreadFacts
    DEF RecycleConverted, Goto, captureBuffers, captureFrame, flagVars, requestVars,
        NoFrameSleptThrough, PreviewSleeps, CaptureSleeps, SetterSleeps, PcTypes
  <1>15. ASSUME CallOnFrame(d)
        PROVE  NoFrameSleptThrough'
    BY <1>15, ThreadFacts
    DEF CallOnFrame, Goto, captureFrame, flagVars, requestVars, frameVars, NoFrameSleptThrough,
        PreviewSleeps, CaptureSleeps, SetterSleeps, PcTypes
  <1>16. ASSUME ReturnOnFrame(d)
        PROVE  NoFrameSleptThrough'
    BY <1>16, ThreadFacts
    DEF ReturnOnFrame, Goto, captureFrame, flagVars, requestVars, frameVars, NoFrameSleptThrough,
        PreviewSleeps, CaptureSleeps, SetterSleeps, PcTypes
  <1>17. ASSUME RecycleCallback(d)
        PROVE  NoFrameSleptThrough'
    BY <1>17, ThreadFacts
    DEF RecycleCallback, Goto, captureBuffers, captureFrame, flagVars, requestVars,
        NoFrameSleptThrough, PreviewSleeps, CaptureSleeps, SetterSleeps, PcTypes
  <1>18. ASSUME SurfaceEnd(d)
        PROVE  NoFrameSleptThrough'
    BY <1>18, ThreadFacts
    DEF SurfaceEnd, Goto, captureBuffers, captureFrame, flagVars, requestVars, frameVars,
        NoFrameSleptThrough, PreviewSleeps, CaptureSleeps, SetterSleeps, PcTypes
  <1>19. ASSUME SurfaceRelease(d)
        PROVE  NoFrameSleptThrough'
    BY <1>19, ThreadFacts
    DEF SurfaceRelease, Goto, captureFrame, flagVars, requestVars, frameVars,
        NoFrameSleptThrough, PreviewSleeps, CaptureSleeps, SetterSleeps, PcTypes
  <1>20. ASSUME CaptureBroadcast(d)
        PROVE  NoFrameSleptThrough'
    BY <1>20, ThreadFacts
    DEF CaptureBroadcast, Goto, captureFrame, flagVars, requestVars, frameVars, BroadcastCapture,
        NoFrameSleptThrough, PreviewSleeps, CaptureSleeps, SetterSleeps, PcTypes
  <1> QED
    BY <1>1, <1>2, <1>3, <1>4, <1>5, <1>6, <1>7, <1>8, <1>9, <1>10, <1>11, <1>12, <1>13,
       <1>14, <1>15, <1>16, <1>17, <1>18, <1>19, <1>20
    DEF Capture

\* the control thread sleeps in a setter, and starts and joins no thread that sleeps
LEMMA ControlWakes ==
    ASSUME IInv, Life, NoFrameSleptThrough, Control
    PROVE  NoFrameSleptThrough'
  <1> USE DEF IInv, Life, Threading
  <1>1. ASSUME NEW w \in Windows, SetPreviewDisplay(w)
        PROVE  NoFrameSleptThrough'
    BY <1>1, ThreadFacts
    DEF SetPreviewDisplay, Idle, controlFrame, frameVars, queueVars, captureVars, streamVars,
        flagVars, syncVars, requestVars, NoFrameSleptThrough, PreviewSleeps, CaptureSleeps,
        SetterSleeps, PcTypes
  <1>2. ASSUME NEW w \in CaptureWindows, SetCaptureDisplay(w)
        PROVE  NoFrameSleptThrough'
    BY <1>2, ThreadFacts
    DEF SetCaptureDisplay, Sleep, targetVars, StopCapturing, Idle, controlFrame, frameVars,
        queueVars, captureVars, streamVars, MustWait, NoFrameSleptThrough, PreviewSleeps,
        CaptureSleeps, SetterSleeps, PcTypes
  <1>3. ASSUME NEW cb \in Callbacks, NEW fmt \in PixelFormats, SetFrameCallback(cb, fmt)
        PROVE  NoFrameSleptThrough'
    BY <1>3, ThreadFacts
    DEF SetFrameCallback, FrameCallback, Sleep, targetVars, StopCapturing, Idle, controlFrame,
        frameVars, queueVars, captureVars, streamVars, MustWait, NoFrameSleptThrough,
        PreviewSleeps, CaptureSleeps, SetterSleeps, PcTypes
  <1>4. ASSUME NEW close \in BOOLEAN, StopPreview(close)
        PROVE  NoFrameSleptThrough'
    BY <1>4, ThreadFacts
    DEF StopPreview, FrameCallback, Sleep, targetVars, StopCapturing, Idle, controlFrame,
        frameVars, queueVars, captureVars, streamVars, MustWait, NoFrameSleptThrough,
        PreviewSleeps, CaptureSleeps, SetterSleeps, PcTypes
  <1>5. ASSUME SwapFrameCallback
        PROVE  NoFrameSleptThrough'
    BY <1>5, ThreadFacts
    DEF SwapFrameCallback, Wake, Goto, controlFrame, frameVars, queueVars, captureVars,
        streamVars, flagVars, syncVars, NoFrameSleptThrough, PreviewSleeps, CaptureSleeps,
        SetterSleeps, PcTypes
  <1>6. ASSUME SwapCaptureDisplay
        PROVE  NoFrameSleptThrough'
    BY <1>6, ThreadFacts
    DEF SwapCaptureDisplay, Wake, Goto, controlFrame, frameVars, queueVars, captureVars,
        streamVars, flagVars, syncVars, NoFrameSleptThrough, PreviewSleeps, CaptureSleeps,
        SetterSleeps, PcTypes
  <1>7. ASSUME StartPreview
        PROVE  NoFrameSleptThrough'
    BY <1>7, ThreadFacts
    DEF StartPreview, Goto, controlTargets, controlFrame, frameVars, queueVars, captureVars,
        streamVars, targetVars, syncVars, NoFrameSleptThrough, PreviewSleeps, CaptureSleeps,
        SetterSleeps, PcTypes
  <1>8. ASSUME CreatePreviewThread
        PROVE  NoFrameSleptThrough'
    BY <1>8, ThreadFacts
    DEF CreatePreviewThread, controlTargets, controlFrame, frameVars, queueVars, captureVars,
        streamVars, targetVars, flagVars, syncVars, NoFrameSleptThrough, PreviewSleeps,
        CaptureSleeps, SetterSleeps, PcTypes, Session, NoPreview, Cleared
  <1>9. ASSUME StartPreviewFailed
        PROVE  NoFrameSleptThrough'
    BY <1>9, ThreadFacts
    DEF StartPreviewFailed, Goto, controlTargets, controlFrame, frameVars, queueVars,
        captureVars, streamVars, targetVars, SignalPreview, NoFrameSleptThrough, PreviewSleeps,
        CaptureSleeps, SetterSleeps, PcTypes
  <1>10. ASSUME ClearRunning
        PROVE  NoFrameSleptThrough'
    BY <1>10, ThreadFacts
    DEF ClearRunning, controlTargets, controlFrame, frameVars, queueVars, captureVars,
        streamVars, targetVars, syncVars, NoFrameSleptThrough, PreviewSleeps, CaptureSleeps,
        SetterSleeps, PcTypes
  <1>11. ASSUME StopSignalPreview
        PROVE  NoFrameSleptThrough'
    BY <1>11, ThreadFacts
    DEF StopSignalPreview, Goto, controlTargets, controlFrame, frameVars, queueVars, captureVars,
        streamVars, targetVars, flagVars, SignalPreview, NoFrameSleptThrough, PreviewSleeps,
        CaptureSleeps, SetterSleeps, PcTypes
  <1>12. ASSUME StopSignalCapture
        PROVE  NoFrameSleptThrough'
    BY <1>12, ThreadFacts
    DEF StopSignalCapture, Goto, controlTargets, controlFrame, frameVars, queueVars, captureVars,
        streamVars, targetVars, flagVars, SignalCapture, NoFrameSleptThrough, PreviewSleeps,
        CaptureSleeps, SetterSleeps, PcTypes
  <1>13. ASSUME JoinCaptureThread
        PROVE  NoFrameSleptThrough'
    BY <1>13, ThreadFacts
    DEF JoinCaptureThread, frameVars, queueVars, flagVars, targetVars, syncVars, requestVars,
        streamVars, NoFrameSleptThrough, PreviewSleeps, CaptureSleeps, SetterSleeps, PcTypes,
        RestTypes
  <1>14. ASSUME JoinPreviewThread
        PROVE  NoFrameSleptThrough'
    BY <1>14, ThreadFacts
    DEF JoinPreviewThread, controlTargets, controlFrame, frameVars, queueVars, captureVars,
        streamVars, targetVars, flagVars, syncVars, NoFrameSleptThrough, PreviewSleeps,
        CaptureSleeps, SetterSleeps, PcTypes, Session, NoPreview, Cleared
  <1>15. ASSUME StopClearPreview
        PROVE  NoFrameSleptThrough'
    BY <1>15, ThreadFacts
    DEF StopClearPreview, Goto, flagVars, targetVars, syncVars, captureVars, requestVars,
        streamVars, ClearPreviewFrame, NoFrameSleptThrough, PreviewSleeps, CaptureSleeps,
        SetterSleeps, PcTypes
  <1>16. ASSUME StopClearCapture
        PROVE  NoFrameSleptThrough'
    BY <1>16, ThreadFacts
    DEF StopClearCapture, Goto, flagVars, targetVars, syncVars, captureVars, requestVars,
        streamVars, ClearCaptureFrame, NoFrameSleptThrough, PreviewSleeps, CaptureSleeps,
        SetterSleeps, PcTypes
  <1>17. ASSUME ReleasePreviewWindow
        PROVE  NoFrameSleptThrough'
    BY <1>17, ThreadFacts
    DEF ReleasePreviewWindow, Goto, controlFrame, frameVars, queueVars, captureVars, streamVars,
        flagVars, syncVars, requestVars, NoFrameSleptThrough, PreviewSleeps, CaptureSleeps,
        SetterSleeps, PcTypes
  <1>18. ASSUME ReleaseCaptureWindow
        PROVE  NoFrameSleptThrough'
    BY <1>18, ThreadFacts
    DEF ReleaseCaptureWindow, Goto, controlFrame, frameVars, queueVars, captureVars, streamVars,
        flagVars, syncVars, requestVars, NoFrameSleptThrough, PreviewSleeps, CaptureSleeps,
        SetterSleeps, PcTypes
  <1>19. ASSUME DeletePreview
        PROVE  NoFrameSleptThrough'
    BY <1>19, ThreadFacts
    DEF DeletePreview, Goto, flagVars, syncVars, captureVars, requestVars, streamVars,
        NoFrameSleptThrough, PreviewSleeps, CaptureSleeps, SetterSleeps, PcTypes
  <1> QED
    BY <1>1, <1>2, <1>3, <1>4, <1>5, <1>6, <1>7, <1>8, <1>9, <1>10, <1>11, <1>12, <1>13,
       <1>14, <1>15, <1>16, <1>17, <1>18, <1>19
    DEF Control

\* A queued frame is not slept through: the preview thread sleeps on preview_sync
\* (waitPreviewFrame, 429-442) only while its queue is empty, a capture thread on
\* capture_sync (waitCaptureFrame, 712-726) only while there is no captured frame, and
\* nobody else but a setter does, whatever wakes them and wherever a stop comes.  A
\* signal that comes too early is never that of a frame, but that of a stop.
THEOREM FramesAreNotSleptThrough == Spec => []NoFrameSleptThrough
  <1>1. Init => NoFrameSleptThrough
    BY DEF Init, NoFrameSleptThrough, PreviewSleeps, CaptureSleeps, SetterSleeps
  <1>2. IInv /\ Life /\ NoFrameSleptThrough /\ [Next]_vars => NoFrameSleptThrough'
    <2> SUFFICES ASSUME IInv, Life, NoFrameSleptThrough, [Next]_vars
                 PROVE  NoFrameSleptThrough'
      OBVIOUS
    <2>1. CASE SpuriousWakeup \/ UNCHANGED vars
      <3>1. /\ preview_sync' \subseteq preview_sync /\ capture_sync' \subseteq capture_sync
            /\ UNCHANGED <<queueVars, pc>>
        BY <2>1 DEF SpuriousWakeup, vars, syncVars
      <3>2. UNCHANGED <<previewFrames, captureQueu, pc>>
        BY <3>1 DEF queueVars
      <3> QED
        BY <3>1, <3>2
        DEF NoFrameSleptThrough, PreviewSleeps, CaptureSleeps, SetterSleeps
    <2>2. ASSUME NEW c \in CaptureThreads, Capture(c)
          PROVE  NoFrameSleptThrough'
      BY <2>2, CaptureWakes
    <2> QED
      BY <2>1, <2>2, ControlWakes, UsbWakes, PreviewWakes DEF Next
  <1> QED
    BY <1>1, <1>2, LifeInductive, PTL DEF Spec

===============================================================================
