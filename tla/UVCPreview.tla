------------------------------ MODULE UVCPreview ------------------------------
(***************************************************************************)
(* The native preview pipeline of one opened camera: class UVCPreview of    *)
(* UVCPreview.cpp, driven by the calls UVCCamera.java makes.                *)
(*                                                                         *)
(*   "control"       the Java camera thread, the only caller of the API     *)
(*   "usb"           libuvc's callback thread, runs uvc_preview_frame_      *)
(*                   callback while a stream is open                        *)
(*   "preview"       preview_thread_func                                    *)
(*   CaptureThreads  capture_thread_func; one per successful start          *)
(*                                                                         *)
(* A critical section of preview_mutex, capture_mutex or pool_mutex is one  *)
(* step; a read or a write of the volatile flags outside a mutex and a      *)
(* signal sent without one are steps of their own.  A condition variable is *)
(* the set of threads that sleep on it.                                     *)
(***************************************************************************)
EXTENDS Integers, Sequences, FiniteSets

CONSTANTS
    Frames,         \* addresses uvc_allocate_frame can return
    CaptureThreads, \* identities pthread_create can give a capture thread
    Callbacks,      \* what the application passes to setFrameCallback,
    Windows,        \* to setPreviewDisplay
    CaptureWindows, \* and to setCaptureDisplay: objects, and NULL if it does
    PixelFormats,   \* formats the application asks for in setFrameCallback
    NULL,
    MaxFrame,       \* MAX_FRAME
    Mjpeg,          \* requestMode # 0
    Spurious,       \* pthread_cond_wait may return without a signal
    Faults,         \* frames may be broken, conversions and starts may fail
    EarlyStop,      \* stopPreview may be called before streaming has begun
    Endless,        \* the camera never stops delivering; sent saturates
    MaxSent,        \* bound: frames numbered apart
    MaxStarts       \* bound: calls of startPreview

Fixed == {"control", "usb", "preview"}
Threads == Fixed \cup CaptureThreads

ASSUME PreviewAssumption ==
    /\ MaxFrame \in Nat \ {0}
    /\ MaxSent \in Nat /\ MaxStarts \in Nat
    /\ {Mjpeg, Spurious, Faults, EarlyStop, Endless} \subseteq BOOLEAN
    /\ NULL \notin Frames \cup CaptureThreads
    /\ CaptureThreads \cap Fixed = {}

\* FRAME_POOL_SZ
PoolSize == MaxFrame + 2

(* The frame pointers that live in a thread's own variables. *)
Copy      == <<"usb", "copy">>
MjpegIn   == <<"preview", "frame_mjpeg">>
Frame     == <<"preview", "frame">>
Converted == <<"preview", "converted">>
CapFrame(c)     == <<c, "frame">>
CapConverted(c) == <<c, "converted">>
CapCallback(c)  == <<c, "callback_frame">>
Slots == {Copy, MjpegIn, Frame, Converted}
           \cup (CaptureThreads \X {"frame", "converted", "callback_frame"})

VARIABLES
    mIsRunning, mIsCapturing,       \* the volatile flags
    mFramePool,                     \* ObjectArray used as a stack
    previewFrames,                  \* ObjectArray used as a queue
    captureQueu,                    \* the latest frame, or NULL
    local,                          \* frame pointers in thread variables
    allocated,                      \* frames that are not free memory
    content,                        \* number of the camera frame a buffer holds
    mPreviewWindow, mCaptureWindow,
    mFrameCallbackObj, mPixelFormat,
    preview_sync, capture_sync,     \* threads asleep on the conditions
    capture_thread,                 \* the handle pthread_create stored last
    pc,
    surface,                        \* the capture thread is in do_capture_surface
    request,                        \* argument of the setter in progress
    closing,                        \* the stop in progress is part of release
    streaming,                      \* between uvc_start_ and uvc_stop_streaming
    sent, delivered,                \* last camera frame sent, last given to onFrame
    starts

frameVars  == <<mFramePool, local, allocated, content>>
queueVars  == <<previewFrames, captureQueu>>
flagVars   == <<mIsRunning, mIsCapturing>>
targetVars == <<mPreviewWindow, mCaptureWindow, mFrameCallbackObj, mPixelFormat>>
syncVars   == <<preview_sync, capture_sync>>
captureVars == <<capture_thread, surface>>
requestVars == <<request, closing, starts>>
streamVars == <<streaming, sent, delivered>>
vars == <<frameVars, queueVars, flagVars, targetVars, syncVars, pc,
          captureVars, requestVars, streamVars>>

NoRequest == <<NULL, NULL>>

(* The constructor (37-68).  capture_thread is not initialised there; on the *)
(* targeted API level pthread_join answers ESRCH for a handle of no thread.  *)
Init ==
    /\ mIsRunning = FALSE /\ mIsCapturing = FALSE
    /\ mFramePool = <<>> /\ previewFrames = <<>> /\ captureQueu = NULL
    /\ local = [s \in Slots |-> NULL]
    /\ allocated = {}
    /\ content = [f \in Frames |-> 0]
    /\ mPreviewWindow = NULL /\ mCaptureWindow = NULL
    /\ mFrameCallbackObj = NULL /\ mPixelFormat = NULL
    /\ preview_sync = {} /\ capture_sync = {}
    /\ capture_thread = NULL
    /\ pc = [t \in Threads |-> IF t \in {"control", "usb"} THEN "idle" ELSE "none"]
    /\ surface = [c \in CaptureThreads |-> FALSE]
    /\ request = NoRequest /\ closing = FALSE /\ starts = 0
    /\ streaming = FALSE /\ sent = 0 /\ delivered = 0

Goto(t, from, to) == pc[t] = from /\ pc' = [pc EXCEPT ![t] = to]

-------------------------------------------------------------------------------
(* Frame buffers *)

FreshFrame == CHOOSE f \in Frames \ allocated : TRUE
Exhausted == mFramePool = <<>> /\ Frames \subseteq allocated

\* get_frame returns NULL: the pool is empty and uvc_allocate_frame fails
OutOfMemory == mFramePool = <<>> /\ (Faults \/ Frames \subseteq allocated)

\* the buffer get_frame returns: the last of the pool, else a new one
Fetched == IF mFramePool # <<>> THEN mFramePool[Len(mFramePool)] ELSE FreshFrame

\* get_frame into slot s, then a conversion or copy that writes n into it
GetFrame(s, n) ==
    /\ ~Exhausted
    /\ local' = [local EXCEPT ![s] = Fetched]
    /\ mFramePool' = SubSeq(mFramePool, 1, Len(mFramePool) - 1)
    /\ allocated' = allocated \cup {Fetched}
    /\ content' = [content EXCEPT ![Fetched] = n]

\* slip: the buffer is freed although the pool took it
PoolAndFree(f) ==
    /\ mFramePool' = IF Len(mFramePool) < PoolSize THEN Append(mFramePool, f)
                                                   ELSE mFramePool
    /\ allocated' = allocated \ {f}
    /\ content' = [content EXCEPT ![f] = 0]

\* recycle_frame: back to the pool, or freed when the pool is full
PoolOrFree(f) ==
    /\ mFramePool' = IF Len(mFramePool) < PoolSize THEN Append(mFramePool, f)
                                                   ELSE mFramePool
    /\ allocated' = IF Len(mFramePool) < PoolSize THEN allocated
                                                  ELSE allocated \ {f}
    /\ content' = [content EXCEPT ![f] = 0]   \* nobody reads a recycled buffer

\* slip: the pointer is used again after recycle_frame
RecycleKeepsPointer(s) == PoolOrFree(local[s]) /\ UNCHANGED local

\* recycle_frame on a thread's own pointer, which it does not use any more
Recycle(s) ==
    /\ PoolOrFree(local[s])
    /\ local' = [local EXCEPT ![s] = NULL]

\* clearPreviewFrame: recycle_frame on every queued frame, then empty the queue
ClearPreviewFrame ==
    LET n == Len(previewFrames)
        room == IF PoolSize - Len(mFramePool) < n THEN PoolSize - Len(mFramePool)
                                                  ELSE n
    IN /\ mFramePool' = mFramePool \o SubSeq(previewFrames, 1, room)
       /\ allocated' = allocated \ {previewFrames[i] : i \in room + 1 .. n}
       /\ content' = [f \in Frames |->
                        IF \E i \in 1..n : previewFrames[i] = f THEN 0 ELSE content[f]]
       /\ previewFrames' = <<>>
       /\ UNCHANGED <<local, captureQueu>>

\* slip: the queued frame is forgotten instead of recycled
ForgetCaptureFrame == captureQueu' = NULL /\ UNCHANGED <<frameVars, previewFrames>>

\* slip: the queued frame is recycled but stays queued
KeepCaptureFrame ==
    /\ IF captureQueu # NULL THEN PoolOrFree(captureQueu)
                             ELSE UNCHANGED <<mFramePool, allocated, content>>
    /\ UNCHANGED <<local, captureQueu, previewFrames>>

\* clearCaptureFrame
ClearCaptureFrame ==
    /\ IF captureQueu # NULL THEN PoolOrFree(captureQueu)
                             ELSE UNCHANGED <<mFramePool, allocated, content>>
    /\ captureQueu' = NULL
    /\ UNCHANGED <<local, previewFrames>>

\* callbackPixelFormatChanged: mFrameCallbackFunc is set for these formats only
NeedsConversion(fmt) == fmt \notin {"PIXEL_FORMAT_RAW", "PIXEL_FORMAT_YUV"}

-------------------------------------------------------------------------------
(* Condition variables *)

\* slips: no signal
NoSignal == UNCHANGED preview_sync
NoBroadcast == UNCHANGED capture_sync

\* "preview" is the only thread that sleeps on preview_sync
SignalPreview == preview_sync' = {}
SignalCapture == IF capture_sync = {} THEN UNCHANGED capture_sync
                 ELSE \E t \in capture_sync : capture_sync' = capture_sync \ {t}
BroadcastCapture == capture_sync' = {}

SpuriousWakeup ==
    /\ Spurious
    /\ \/ \E t \in preview_sync : preview_sync' = preview_sync \ {t} /\ UNCHANGED capture_sync
       \/ \E t \in capture_sync : capture_sync' = capture_sync \ {t} /\ UNCHANGED preview_sync
    /\ UNCHANGED <<frameVars, queueVars, flagVars, targetVars, pc, captureVars,
                   requestVars, streamVars>>

-------------------------------------------------------------------------------
(* The control thread: the calls of UVCCamera.java *)

Idle == pc["control"] = "idle"
controlFrame == <<frameVars, queueVars, captureVars, streamVars>>

\* setPreviewDisplay: under preview_mutex
SetPreviewDisplay(w) ==
    /\ Idle /\ w # mPreviewWindow
    /\ mPreviewWindow' = w
    /\ UNCHANGED <<controlFrame, flagVars, syncVars, requestVars, pc, mCaptureWindow,
                   mFrameCallbackObj, mPixelFormat>>

(* setFrameCallback and setCaptureDisplay ask the capture thread to leave its *)
(* loop; when there is a target it may be using they wake it and sleep on     *)
(* capture_sync before they replace the target, otherwise they replace it in  *)
(* the same critical section.                                                *)
MustWait(target) == mIsRunning /\ mIsCapturing /\ target # NULL

StopCapturing == mIsCapturing' = (mIsCapturing /\ ~mIsRunning)

Sleep(label, target, format) ==
    /\ pc' = [pc EXCEPT !["control"] = label]
    /\ request' = <<target, format>>
    /\ \/ capture_sync = {} /\ capture_sync' = {"control"}
       \/ \E t \in capture_sync : capture_sync' = (capture_sync \ {t}) \cup {"control"}
    /\ UNCHANGED targetVars

Wake(label, next) ==
    /\ "control" \notin capture_sync
    /\ Goto("control", label, next)
    /\ request' = NoRequest
    /\ UNCHANGED <<controlFrame, flagVars, syncVars, closing, starts>>

NewCallback(cb, fmt) ==
    /\ mFrameCallbackObj' = cb
    /\ mPixelFormat' = IF cb # NULL THEN fmt ELSE mPixelFormat
    /\ UNCHANGED <<mPreviewWindow, mCaptureWindow>>

NewCaptureWindow(w) ==
    /\ mCaptureWindow' = w
    /\ UNCHANGED <<mPreviewWindow, mFrameCallbackObj, mPixelFormat>>

FrameCallback(cb, fmt, label, next) ==
    /\ Idle
    /\ StopCapturing
    /\ IF MustWait(mFrameCallbackObj)
         THEN Sleep(label, cb, fmt)
         ELSE /\ NewCallback(cb, fmt)
              /\ pc' = [pc EXCEPT !["control"] = next]
              /\ UNCHANGED <<request, capture_sync>>
    /\ UNCHANGED <<controlFrame, mIsRunning, preview_sync, starts>>

SetFrameCallback(cb, fmt) ==
    /\ FrameCallback(cb, fmt, "setFrameCallback", "idle")
    /\ UNCHANGED closing

\* UVCCamera.java stopPreview: setFrameCallback(null, 0), then nativeStopPreview;
\* close and destroy do the same before they delete the UVCPreview
StopPreview(close) ==
    /\ EarlyStop \/ pc["preview"] \notin {"prepare", "start", "clear", "create"}
    /\ FrameCallback(NULL, NULL, "stop.setFrameCallback", "stop")
    /\ closing' = close

SetCaptureDisplay(w) ==
    /\ Idle
    /\ StopCapturing
    /\ IF MustWait(mCaptureWindow)
         THEN Sleep("setCaptureDisplay", w, NULL)
         ELSE /\ NewCaptureWindow(w)
              /\ UNCHANGED <<request, capture_sync, pc>>
    /\ UNCHANGED <<controlFrame, mIsRunning, preview_sync, closing, starts>>

\* back from pthread_cond_wait, capture_mutex held again
SwapFrameCallback ==
    /\ \/ Wake("setFrameCallback", "idle")
       \/ Wake("stop.setFrameCallback", "stop")
    /\ NewCallback(request[1], request[2])

SwapCaptureDisplay ==
    /\ Wake("setCaptureDisplay", "idle")
    /\ NewCaptureWindow(request[1])

controlTargets == <<controlFrame, targetVars, request, closing>>

\* startPreview: the flag first, then the thread if there is a window
StartPreview ==
    /\ ~mIsRunning /\ starts < MaxStarts
    /\ Goto("control", "idle", "start")
    /\ mIsRunning' = TRUE
    /\ starts' = starts + 1
    /\ UNCHANGED <<controlTargets, mIsCapturing, syncVars>>

CreatePreviewThread ==
    /\ pc["control"] = "start"
    /\ \/ /\ mPreviewWindow # NULL
          /\ pc' = [pc EXCEPT !["control"] = "idle", !["preview"] = "prepare"]
       \/ /\ mPreviewWindow = NULL \/ Faults
          /\ pc' = [pc EXCEPT !["control"] = "start.failed"]
    /\ UNCHANGED <<controlTargets, flagVars, syncVars, starts>>

StartPreviewFailed ==
    /\ Goto("control", "start.failed", "idle")
    /\ mIsRunning' = FALSE
    /\ SignalPreview
    /\ UNCHANGED <<controlTargets, mIsCapturing, capture_sync, starts>>

\* native stopPreview
ClearRunning ==
    /\ pc["control"] = "stop"
    /\ pc' = [pc EXCEPT !["control"] = IF mIsRunning THEN "stop.signalPreview"
                                                     ELSE "stop.clearPreview"]
    /\ mIsRunning' = FALSE
    /\ UNCHANGED <<controlTargets, mIsCapturing, syncVars, starts>>

StopSignalPreview ==
    /\ Goto("control", "stop.signalPreview", "stop.signalCapture")
    /\ SignalPreview
    /\ UNCHANGED <<controlTargets, flagVars, capture_sync, starts>>

StopSignalCapture ==
    /\ Goto("control", "stop.signalCapture", "stop.joinCapture")
    /\ SignalCapture
    /\ UNCHANGED <<controlTargets, flagVars, preview_sync, starts>>

\* pthread_join(capture_thread): fails at once when the handle names no thread
JoinCaptureThread ==
    /\ pc["control"] = "stop.joinCapture"
    /\ IF capture_thread = NULL
         THEN pc' = [pc EXCEPT !["control"] = "stop.joinPreview"]
         ELSE /\ pc[capture_thread] = "exited"
              /\ pc' = [pc EXCEPT !["control"] = "stop.joinPreview",
                                  ![capture_thread] = "none"]
    /\ capture_thread' = NULL
    /\ UNCHANGED <<frameVars, queueVars, flagVars, targetVars, syncVars, surface,
                   requestVars, streamVars>>

\* slip: stopPreview does not wait for the preview thread
LeavePreviewThread ==
    /\ Goto("control", "stop.joinPreview", "stop.clearPreview")
    /\ UNCHANGED <<controlTargets, flagVars, syncVars, starts>>

\* pthread_join(preview_thread), then clearDisplay (blank pixels, no state here)
JoinPreviewThread ==
    /\ pc["control"] = "stop.joinPreview" /\ pc["preview"] = "exited"
    /\ pc' = [pc EXCEPT !["control"] = "stop.clearPreview", !["preview"] = "none"]
    /\ UNCHANGED <<controlTargets, flagVars, syncVars, starts>>

StopClearPreview ==
    /\ Goto("control", "stop.clearPreview", "stop.clearCapture")
    /\ ClearPreviewFrame
    /\ UNCHANGED <<flagVars, targetVars, syncVars, captureVars, requestVars, streamVars>>

StopClearCapture ==
    /\ Goto("control", "stop.clearCapture", "stop.releasePreview")
    /\ ClearCaptureFrame
    /\ UNCHANGED <<flagVars, targetVars, syncVars, captureVars, requestVars, streamVars>>

ReleasePreviewWindow ==
    /\ Goto("control", "stop.releasePreview", "stop.releaseCapture")
    /\ mPreviewWindow' = NULL
    /\ UNCHANGED <<controlFrame, flagVars, syncVars, requestVars, mCaptureWindow,
                   mFrameCallbackObj, mPixelFormat>>

ReleaseCaptureWindow ==
    /\ Goto("control", "stop.releaseCapture", IF closing THEN "delete" ELSE "idle")
    /\ mCaptureWindow' = NULL
    /\ UNCHANGED <<controlFrame, flagVars, syncVars, requestVars, mPreviewWindow,
                   mFrameCallbackObj, mPixelFormat>>

\* UVCCamera::release runs stopPreview again, which finds nothing to stop, and
\* deletes the UVCPreview: the destructor frees every frame it still reaches
DeletePreview ==
    /\ Goto("control", "delete", "deleted")
    /\ allocated' = allocated \ ({mFramePool[i] : i \in 1..Len(mFramePool)}
                       \cup {previewFrames[i] : i \in 1..Len(previewFrames)}
                       \cup {captureQueu})
    /\ mFramePool' = <<>> /\ previewFrames' = <<>> /\ captureQueu' = NULL
    /\ mPreviewWindow' = NULL /\ mCaptureWindow' = NULL
    /\ UNCHANGED <<local, content, flagVars, syncVars, captureVars, requestVars,
                   streamVars, mFrameCallbackObj, mPixelFormat>>

Control ==
    \/ \E w \in Windows : SetPreviewDisplay(w)
    \/ \E w \in CaptureWindows : SetCaptureDisplay(w)
    \/ \E cb \in Callbacks, fmt \in PixelFormats : SetFrameCallback(cb, fmt)
    \/ \E close \in BOOLEAN : StopPreview(close)
    \/ SwapFrameCallback \/ SwapCaptureDisplay
    \/ StartPreview \/ CreatePreviewThread \/ StartPreviewFailed
    \/ ClearRunning \/ StopSignalPreview \/ StopSignalCapture
    \/ JoinCaptureThread \/ JoinPreviewThread
    \/ StopClearPreview \/ StopClearCapture
    \/ ReleasePreviewWindow \/ ReleaseCaptureWindow \/ DeletePreview

-------------------------------------------------------------------------------
(* The USB callback thread *)

usbFrame == <<flagVars, targetVars, requestVars, captureVars, streaming, delivered>>

\* libuvc calls uvc_preview_frame_callback with the next camera frame; it is
\* dropped when the preview does not run or the frame has not the expected size
DeliverFrame ==
    /\ streaming /\ pc["usb"] = "idle"
    /\ Endless \/ sent < MaxSent
    /\ sent' = IF sent < MaxSent THEN sent + 1 ELSE sent
    /\ \/ mIsRunning /\ pc' = [pc EXCEPT !["usb"] = "copy"]
       \/ (~mIsRunning \/ Faults) /\ UNCHANGED pc
    /\ UNCHANGED <<usbFrame, frameVars, queueVars, syncVars>>

\* get_frame, then uvc_duplicate_frame, which may fail to enlarge the buffer
CopyFrame ==
    /\ pc["usb"] = "copy"
    /\ \/ /\ \/ Goto("usb", "copy", "add")
             \/ Faults /\ Goto("usb", "copy", "recycle")
          /\ GetFrame(Copy, sent)
       \/ OutOfMemory /\ Goto("usb", "copy", "idle") /\ UNCHANGED frameVars
    /\ UNCHANGED <<usbFrame, sent, queueVars, syncVars>>

\* slip: one frame too many
HasRoomOffByOne == Len(previewFrames) <= MaxFrame

HasRoom == Len(previewFrames) < MaxFrame

\* slip: the new frame goes first
QueuedFirst(f) == <<f>> \o previewFrames

Queued(f) == Append(previewFrames, f)

\* addPreviewFrame
AddPreviewFrame ==
    /\ IF mIsRunning /\ HasRoom
         THEN /\ Goto("usb", "add", "idle")
              /\ previewFrames' = Queued(local[Copy])
              /\ local' = [local EXCEPT ![Copy] = NULL]
              /\ SignalPreview
         ELSE /\ Goto("usb", "add", "recycle")
              /\ UNCHANGED <<previewFrames, local, preview_sync>>
    /\ UNCHANGED <<usbFrame, sent, mFramePool, allocated, content, captureQueu, capture_sync>>

RecycleCopy ==
    /\ Goto("usb", "recycle", "idle")
    /\ Recycle(Copy)
    /\ UNCHANGED <<usbFrame, sent, queueVars, syncVars>>

Usb == DeliverFrame \/ CopyFrame \/ AddPreviewFrame \/ RecycleCopy

-------------------------------------------------------------------------------
(* The preview thread *)

previewFrame == <<flagVars, targetVars, requestVars, surface, sent, delivered>>
previewLocal == <<previewFrame, capture_thread, streaming>>

\* prepare_preview negotiates a stream; on failure the thread ends and
\* mIsRunning stays set
PreparePreview ==
    /\ \/ Goto("preview", "prepare", "start")
       \/ Faults /\ Goto("preview", "prepare", "exited")
    /\ UNCHANGED <<previewLocal, frameVars, queueVars, syncVars>>

StartStreaming ==
    /\ \/ Goto("preview", "start", "clear") /\ streaming' = TRUE
       \/ Faults /\ Goto("preview", "start", "exited") /\ UNCHANGED streaming
    /\ UNCHANGED <<previewFrame, capture_thread, frameVars, queueVars, syncVars>>

ClearStalePreview ==
    /\ Goto("preview", "clear", "create")
    /\ ClearPreviewFrame
    /\ UNCHANGED <<previewLocal, syncVars>>

CreateCaptureThread ==
    /\ pc["preview"] = "create"
    /\ \E c \in CaptureThreads :
         /\ pc[c] = "none"
         /\ pc' = [pc EXCEPT !["preview"] = "loop", ![c] = "begin"]
         /\ capture_thread' = c
    /\ UNCHANGED <<previewFrame, streaming, frameVars, queueVars, syncVars>>

PreviewLoop ==
    /\ Goto("preview", "loop", IF mIsRunning THEN "wait" ELSE "signal")
    /\ UNCHANGED <<previewLocal, frameVars, queueVars, syncVars>>

\* the end of waitPreviewFrame: take the oldest frame unless stopped or none
TakePreviewFrame(from) ==
    LET taken == mIsRunning /\ previewFrames # <<>>
    IN /\ Goto("preview", from, IF ~taken THEN "loop" ELSE IF Mjpeg THEN "decode" ELSE "draw")
       /\ previewFrames' = IF taken THEN Tail(previewFrames) ELSE previewFrames
       /\ local' = IF taken
                   THEN [local EXCEPT ![IF Mjpeg THEN MjpegIn ELSE Frame] = Head(previewFrames)]
                   ELSE local
       /\ UNCHANGED <<mFramePool, allocated, content, captureQueu>>

\* waitPreviewFrame sleeps at most once, and only on an empty queue
WaitPreviewFrame ==
    /\ IF previewFrames = <<>>
         THEN /\ Goto("preview", "wait", "woken")
              /\ preview_sync' = preview_sync \cup {"preview"}
              /\ UNCHANGED <<frameVars, queueVars>>
         ELSE TakePreviewFrame("wait") /\ UNCHANGED preview_sync
    /\ UNCHANGED <<previewLocal, capture_sync>>

WakePreviewFrame ==
    /\ "preview" \notin preview_sync
    /\ TakePreviewFrame("woken")
    /\ UNCHANGED <<previewLocal, syncVars>>

\* MJPEG: get_frame and uvc_mjpeg2yuyv.  get_frame's result is not tested: out of
\* memory, uvc_mjpeg2yuyv begins with a write through NULL, which ends the process.
DecodeFrame ==
    /\ \/ /\ \/ Goto("preview", "decode", "decoded")
             \/ Faults /\ Goto("preview", "decode", "undecoded")
          /\ GetFrame(Frame, content[local[MjpegIn]])
       \/ OutOfMemory /\ Goto("preview", "decode", "crashed") /\ UNCHANGED frameVars
    /\ UNCHANGED <<previewLocal, queueVars, syncVars>>

RecycleMjpeg ==
    /\ \/ Goto("preview", "decoded", "draw")
       \/ Goto("preview", "undecoded", "dropFrame")
    /\ Recycle(MjpegIn)
    /\ UNCHANGED <<previewLocal, queueVars, syncVars>>

DropFrame ==
    /\ Goto("preview", "dropFrame", "loop")
    /\ Recycle(Frame)
    /\ UNCHANGED <<previewLocal, queueVars, syncVars>>

\* draw_preview_one
DrawIfWindow ==
    /\ Goto("preview", "draw", IF mPreviewWindow # NULL THEN "convert" ELSE "addCapture")
    /\ UNCHANGED <<previewLocal, frameVars, queueVars, syncVars>>

ConvertPreview ==
    /\ \/ Goto("preview", "convert", "show") /\ GetFrame(Converted, content[local[Frame]])
       \/ OutOfMemory /\ Goto("preview", "convert", "addCapture") /\ UNCHANGED frameVars
    /\ UNCHANGED <<previewLocal, queueVars, syncVars>>

\* copyToSurface puts pixels in the window under preview_mutex; the state that
\* changes is the pool
ShowPreview ==
    /\ Goto("preview", "show", "addCapture")
    /\ Recycle(Converted)
    /\ UNCHANGED <<previewLocal, queueVars, syncVars>>

\* addCaptureFrame keeps the latest frame only; when the preview has been
\* stopped the frame is neither queued nor recycled
AddCaptureFrame ==
    /\ Goto("preview", "addCapture", "loop")
    /\ IF mIsRunning
         THEN /\ IF captureQueu # NULL THEN PoolOrFree(captureQueu)
                                       ELSE UNCHANGED <<mFramePool, allocated, content>>
              /\ captureQueu' = local[Frame]
              /\ BroadcastCapture
         ELSE UNCHANGED <<mFramePool, allocated, content, captureQueu, capture_sync>>
    /\ local' = [local EXCEPT ![Frame] = NULL]
    /\ UNCHANGED <<previewLocal, previewFrames, preview_sync>>

PreviewSignal ==
    /\ Goto("preview", "signal", "stopStreaming")
    /\ SignalCapture
    /\ UNCHANGED <<previewLocal, frameVars, queueVars, preview_sync>>

\* uvc_stop_streaming joins the USB callback thread
StopStreaming ==
    /\ pc["usb"] = "idle"
    /\ Goto("preview", "stopStreaming", "exited")
    /\ streaming' = FALSE
    /\ UNCHANGED <<previewFrame, capture_thread, frameVars, queueVars, syncVars>>

Preview ==
    \/ PreparePreview \/ StartStreaming \/ ClearStalePreview \/ CreateCaptureThread
    \/ PreviewLoop \/ WaitPreviewFrame \/ WakePreviewFrame
    \/ DecodeFrame \/ RecycleMjpeg \/ DropFrame
    \/ DrawIfWindow \/ ConvertPreview \/ ShowPreview \/ AddCaptureFrame
    \/ PreviewSignal \/ StopStreaming

-------------------------------------------------------------------------------
(* A capture thread *)

captureFrame == <<flagVars, requestVars, streaming, sent, capture_thread, previewFrames,
                  preview_sync, mPreviewWindow, mFrameCallbackObj, mPixelFormat>>
\* what a step that only touches frame buffers leaves alone
captureBuffers == <<captureFrame, captureQueu, capture_sync, surface, delivered,
                    mCaptureWindow>>

\* do_capture: clearCaptureFrame once
CaptureBegin(c) ==
    /\ Goto(c, "begin", "outer")
    /\ ClearCaptureFrame
    /\ UNCHANGED <<flagVars, requestVars, streamVars, captureVars, targetVars, syncVars>>

CaptureOuter(c) ==
    /\ Goto(c, "outer", IF mIsRunning THEN "arm" ELSE "exited")
    /\ UNCHANGED <<captureBuffers, frameVars>>

\* mIsCapturing = true
CaptureArm(c) ==
    /\ Goto(c, "arm", "choose")
    /\ mIsCapturing' = TRUE
    /\ UNCHANGED <<mIsRunning, requestVars, streamVars, captureVars, targetVars, syncVars,
                   frameVars, queueVars>>

\* the choice between do_capture_surface and do_capture_idle_loop
CaptureChoose(c) ==
    /\ Goto(c, "choose", "loop")
    /\ surface' = [surface EXCEPT ![c] = mCaptureWindow # NULL]
    /\ UNCHANGED <<captureFrame, captureQueu, capture_sync, delivered,
                   mCaptureWindow, frameVars>>

CaptureLoop(c) ==
    /\ Goto(c, "loop", IF mIsRunning /\ mIsCapturing THEN "wait"
                       ELSE IF surface[c] THEN "surfaceEnd" ELSE "broadcast")
    /\ UNCHANGED <<captureBuffers, frameVars>>

\* slip: a woken thread takes it that there is a frame
TakeUntested(c, from) ==
    /\ Goto(c, from, IF mIsRunning THEN "taken" ELSE "loop")
    /\ local' = IF mIsRunning THEN [local EXCEPT ![CapFrame(c)] = captureQueu] ELSE local
    /\ captureQueu' = IF mIsRunning THEN NULL ELSE captureQueu
    /\ UNCHANGED <<mFramePool, allocated, content>>

\* the end of waitCaptureFrame
TakeCaptureFrame(c, from) ==
    LET taken == mIsRunning /\ captureQueu # NULL
    IN /\ Goto(c, from, IF taken THEN "taken" ELSE "loop")
       /\ local' = IF taken THEN [local EXCEPT ![CapFrame(c)] = captureQueu] ELSE local
       /\ captureQueu' = IF taken THEN NULL ELSE captureQueu
       /\ UNCHANGED <<mFramePool, allocated, content>>

\* waitCaptureFrame sleeps at most once, and only when there is no frame
WaitCaptureFrame(c) ==
    /\ IF captureQueu = NULL
         THEN /\ Goto(c, "wait", "woken")
              /\ capture_sync' = capture_sync \cup {c}
              /\ UNCHANGED <<frameVars, captureQueu>>
         ELSE TakeCaptureFrame(c, "wait") /\ UNCHANGED capture_sync
    /\ UNCHANGED <<captureFrame, surface, delivered, mCaptureWindow>>

WakeCaptureFrame(c) ==
    /\ c \notin capture_sync
    /\ TakeCaptureFrame(c, "woken")
    /\ UNCHANGED <<captureFrame, capture_sync, surface, delivered, mCaptureWindow>>

\* do_capture_surface: isCapturing is read again before the frame is converted
CaptureTaken(c) ==
    /\ Goto(c, "taken", IF surface[c] /\ mIsCapturing THEN "render" ELSE "callback")
    /\ UNCHANGED <<captureBuffers, frameVars>>

\* the buffer for the converted frame is fetched once per do_capture_surface
RenderCapture(c) ==
    /\ pc[c] = "render"
    /\ \/ (local[CapConverted(c)] # NULL \/ OutOfMemory) /\ UNCHANGED frameVars
       \/ local[CapConverted(c)] = NULL
          /\ GetFrame(CapConverted(c), content[local[CapFrame(c)]])
    /\ \/ Goto(c, "render", IF mCaptureWindow # NULL /\ local'[CapConverted(c)] # NULL
                            THEN "copyToSurface" ELSE "callback")
       \/ Faults /\ Goto(c, "render", "callback")
    /\ UNCHANGED captureBuffers

\* copyToSurface locks, fills and posts the window it finds
CopyToSurface(c) ==
    /\ Goto(c, "copyToSurface", "posted")
    /\ UNCHANGED <<captureFrame, captureQueu, capture_sync, surface, delivered,
                   mCaptureWindow, frameVars>>

Posted(c) ==
    /\ Goto(c, "posted", "callback")
    /\ UNCHANGED <<captureFrame, captureQueu, capture_sync, surface, delivered,
                   mCaptureWindow, frameVars>>

\* do_capture_callback: nothing to do without a callback
CaptureCallback(c) ==
    /\ Goto(c, "callback", IF mFrameCallbackObj = NULL THEN "recycle"
                           ELSE IF NeedsConversion(mPixelFormat) THEN "convert" ELSE "call")
    /\ UNCHANGED <<captureBuffers, frameVars>>

ConvertCallback(c) ==
    /\ \/ /\ \/ Goto(c, "convert", "converted")
             \/ Faults /\ Goto(c, "convert", "unconverted")
          /\ GetFrame(CapCallback(c), content[local[CapFrame(c)]])
       \/ OutOfMemory /\ Goto(c, "convert", "recycle") /\ UNCHANGED frameVars
    /\ UNCHANGED captureBuffers

\* the frame goes back to the pool before the callback sees the converted copy
RecycleConverted(c) ==
    /\ \/ Goto(c, "converted", "call")
       \/ Goto(c, "unconverted", "recycle")
    /\ Recycle(CapFrame(c))
    /\ UNCHANGED captureBuffers

\* callback_frame: the converted copy if there is one, else the frame itself
CallbackSlot(c) == IF local[CapCallback(c)] # NULL THEN CapCallback(c) ELSE CapFrame(c)

\* CallVoidMethod(mFrameCallbackObj, onFrame): the field is read once more
CallOnFrame(c) ==
    /\ Goto(c, "call", "onFrame")
    /\ delivered' = content[local[CallbackSlot(c)]]
    /\ UNCHANGED <<captureFrame, captureQueu, capture_sync, surface, mCaptureWindow,
                   frameVars>>

ReturnOnFrame(c) ==
    /\ Goto(c, "onFrame", "recycle")
    /\ UNCHANGED <<captureFrame, captureQueu, capture_sync, surface, delivered,
                   mCaptureWindow, frameVars>>

RecycleCallback(c) ==
    /\ Goto(c, "recycle", "loop")
    /\ Recycle(CallbackSlot(c))
    /\ UNCHANGED captureBuffers

\* leaving do_capture_surface: recycle the buffer, then release the window
SurfaceEnd(c) ==
    /\ Goto(c, "surfaceEnd", IF mCaptureWindow # NULL THEN "release" ELSE "broadcast")
    /\ IF local[CapConverted(c)] # NULL THEN Recycle(CapConverted(c)) ELSE UNCHANGED frameVars
    /\ UNCHANGED captureBuffers

\* ANativeWindow_release without capture_mutex; the field is cleared after it
SurfaceRelease(c) ==
    /\ Goto(c, "release", "broadcast")
    /\ mCaptureWindow' = NULL
    /\ UNCHANGED <<captureFrame, captureQueu, capture_sync, surface, delivered,
                   frameVars>>

CaptureBroadcast(c) ==
    /\ Goto(c, "broadcast", "outer")
    /\ BroadcastCapture
    /\ surface' = [surface EXCEPT ![c] = FALSE]
    /\ UNCHANGED <<captureFrame, captureQueu, delivered, mCaptureWindow, frameVars>>

Capture(c) ==
    \/ CaptureBegin(c) \/ CaptureOuter(c) \/ CaptureArm(c) \/ CaptureChoose(c)
    \/ CaptureLoop(c) \/ WaitCaptureFrame(c) \/ WakeCaptureFrame(c)
    \/ CaptureTaken(c) \/ RenderCapture(c) \/ CopyToSurface(c) \/ Posted(c)
    \/ CaptureCallback(c) \/ ConvertCallback(c) \/ RecycleConverted(c)
    \/ CallOnFrame(c) \/ ReturnOnFrame(c) \/ RecycleCallback(c)
    \/ SurfaceEnd(c) \/ SurfaceRelease(c) \/ CaptureBroadcast(c)

-------------------------------------------------------------------------------
Crashed == pc["preview"] = "crashed"

Next ==
    /\ ~Crashed
    /\ \/ Control \/ Usb \/ Preview
       \/ \E c \in CaptureThreads : Capture(c)
       \/ SpuriousWakeup

Spec == Init /\ [][Next]_vars

(* Once called, an operation goes on; each thread is scheduled; the camera      *)
(* delivers while a stream is open and onFrame returns.  Whether and when the   *)
(* application calls an operation is left open.                                *)
Fairness ==
    /\ WF_vars(~Crashed /\ ~Idle /\ Control)
    /\ WF_vars(~Crashed /\ Usb)
    /\ WF_vars(~Crashed /\ Preview)
    /\ \A c \in CaptureThreads : WF_vars(~Crashed /\ Capture(c))

LiveSpec == Spec /\ Fairness

-------------------------------------------------------------------------------
(* Properties *)

FrameOrNull == Frames \cup {NULL}

ControlPC == {"idle", "setFrameCallback", "stop.setFrameCallback", "setCaptureDisplay",
    "start", "start.failed", "stop", "stop.signalPreview", "stop.signalCapture",
    "stop.joinCapture", "stop.joinPreview", "stop.clearPreview", "stop.clearCapture",
    "stop.releasePreview", "stop.releaseCapture", "delete", "deleted"}
UsbPC == {"idle", "copy", "add", "recycle"}
PreviewPC == {"none", "prepare", "start", "clear", "create", "loop", "wait", "woken",
    "decode", "decoded", "undecoded", "dropFrame", "draw", "convert", "show",
    "addCapture", "signal", "stopStreaming", "exited", "crashed"}
CapturePC == {"none", "begin", "outer", "arm", "choose", "loop", "wait", "woken", "taken",
    "render", "copyToSurface", "posted", "callback", "convert", "converted",
    "unconverted", "call", "onFrame", "recycle", "surfaceEnd", "release", "broadcast",
    "exited"}

\* Every variable has the type its declaration in UVCPreview.h gives it, and the
\* two containers stay within FRAME_POOL_SZ and MAX_FRAME (112-122, 415-427).
TypeOK ==
    /\ mIsRunning \in BOOLEAN /\ mIsCapturing \in BOOLEAN
    /\ mFramePool \in Seq(Frames) /\ Len(mFramePool) <= PoolSize
    /\ previewFrames \in Seq(Frames) /\ Len(previewFrames) <= MaxFrame
    /\ captureQueu \in FrameOrNull
    /\ local \in [Slots -> FrameOrNull]
    /\ allocated \in SUBSET Frames
    /\ content \in [Frames -> 0..MaxSent]
    /\ mPreviewWindow \in Windows \cup {NULL} /\ mCaptureWindow \in CaptureWindows \cup {NULL}
    /\ mFrameCallbackObj \in Callbacks \cup {NULL}
    /\ mPixelFormat \in PixelFormats \cup {NULL}
    /\ preview_sync \in SUBSET {"preview"}
    /\ capture_sync \in SUBSET ({"control"} \cup CaptureThreads)
    /\ capture_thread \in CaptureThreads \cup {NULL}
    /\ pc \in [Threads -> ControlPC \cup UsbPC \cup PreviewPC \cup CapturePC]
    /\ pc["control"] \in ControlPC /\ pc["usb"] \in UsbPC /\ pc["preview"] \in PreviewPC
    /\ \A c \in CaptureThreads : pc[c] \in CapturePC
    /\ surface \in [CaptureThreads -> BOOLEAN]
    /\ request \in (Callbacks \cup CaptureWindows \cup {NULL}) \X (PixelFormats \cup {NULL})
    /\ closing \in BOOLEAN /\ streaming \in BOOLEAN
    /\ sent \in 0..MaxSent /\ delivered \in 0..MaxSent /\ starts \in 0..MaxStarts

Distinct(s) == \A i, j \in 1..Len(s) : s[i] = s[j] => i = j
InSeq(f, s) == \E i \in 1..Len(s) : s[i] = f

\* A frame buffer has at most one owner: it is in the pool, in the preview queue,
\* in captureQueu or in one variable of one thread, never in two of them, so it
\* is never recycled twice, reused while a thread still reads it, or used after
\* it was freed.  (get_frame and recycle_frame, 96-122, and all their callers.)
OneOwner ==
    /\ Distinct(mFramePool)
    /\ Distinct(previewFrames)
    /\ \A x, y \in Slots : local[x] = local[y] /\ local[x] # NULL => x = y
    /\ \A f \in Frames :
         /\ InSeq(f, mFramePool) =>
              /\ ~InSeq(f, previewFrames)
              /\ f # captureQueu
              /\ \A x \in Slots : local[x] # f
         /\ InSeq(f, previewFrames) => f # captureQueu /\ \A x \in Slots : local[x] # f
         /\ f = captureQueu => \A x \in Slots : local[x] # f

Owned(f) == \/ InSeq(f, mFramePool) \/ InSeq(f, previewFrames)
            \/ f = captureQueu \/ \E x \in Slots : local[x] = f

UsbHolds == pc["usb"] \in {"add", "recycle"} => local[Copy] # NULL
PreviewHolds ==
    /\ pc["preview"] \in {"decode", "decoded", "undecoded"} => local[MjpegIn] # NULL
    /\ pc["preview"] \in {"decoded", "undecoded", "dropFrame", "draw", "convert", "show",
                          "addCapture"} => local[Frame] # NULL
    /\ pc["preview"] = "show" => local[Converted] # NULL
CaptureHolds(c) ==
    /\ pc[c] \in {"taken", "render", "copyToSurface", "posted", "callback", "convert",
                  "converted", "unconverted"} => local[CapFrame(c)] # NULL
    /\ pc[c] \in {"converted", "unconverted"} => local[CapCallback(c)] # NULL
    /\ pc[c] \in {"call", "onFrame", "recycle"} => local[CallbackSlot(c)] # NULL

\* Where a thread uses a frame pointer it holds a frame: no path from a failed
\* conversion, a stop, a wakeup without a frame or a get_frame that found no memory
\* leads to a null pointer (384-427, 529-546, 787-871).  One use is not claimed: the
\* MJPEG loop hands get_frame's NULL to uvc_mjpeg2yuyv (527-528), see "crashed".
NoNullFrame ==
    UsbHolds /\ PreviewHolds /\ \A c \in CaptureThreads : CaptureHolds(c)

\* No thread and no container holds a frame that has been freed, whoever recycles it
\* and however full the pool is (96-122; the frames only, not the UVCPreview itself).
NoUseAfterFree == \A f \in Frames : Owned(f) => f \in allocated

\* addCaptureFrame drops its frame without recycling it when the preview has been
\* stopped (698): a memory leak, but of at most one buffer for each start.
LeakBounded == Cardinality({f \in allocated : ~Owned(f)}) <= starts

\* The pipeline implements the lossy channel: what onFrame is given is always a
\* frame the camera has sent and newer than the one before it, though four
\* hand-overs, two conversions and the reuse of buffers lie in between
\* (384-427, 520-546, 696-726, 841-871).
Channel == INSTANCE FrameChannel WITH busy <- \E c \in CaptureThreads : pc[c] = "onFrame"
ImplementsChannel == Channel!Spec

\* When stopPreview has returned nothing of the session is left: no thread runs and
\* no frame is queued or held; a stop that is part of release has let go of both
\* windows as well, while after another one the application may set new ones
\* (stopPreview 349-379; CameraHandler.java 128-130 relies on it).
StoppedIsQuiet ==
    pc["control"] \in {"idle", "delete", "deleted"} /\ ~mIsRunning =>
        /\ ~streaming /\ pc["usb"] = "idle" /\ pc["preview"] = "none"
        /\ \A c \in CaptureThreads : pc[c] \in {"none", "exited"}
        /\ previewFrames = <<>> /\ captureQueu = NULL
        /\ \A s \in Slots : local[s] = NULL
        /\ pc["control"] # "idle" => mPreviewWindow = NULL /\ mCaptureWindow = NULL

\* While a running preview has a callback, the camera delivers and the
\* application has stopped interrupting the capture thread with setters, onFrame
\* is called again and again: no wakeup of waitPreviewFrame or waitCaptureFrame
\* that matters to a running preview is lost (429-442, 712-726).
KeepsDelivering ==
    (<>[](mIsRunning /\ mFrameCallbackObj # NULL) /\ <>[][mIsCapturing => mIsCapturing']_vars)
        => []<>(\E c \in CaptureThreads : pc[c] = "onFrame")

\* A setFrameCallback that sleeps on capture_sync is woken as long as the camera
\* delivers, also when the capture thread missed the signal (194-205, 782).
SetterReturns ==
    pc["control"] \in {"setFrameCallback", "stop.setFrameCallback"} ~>
        pc["control"] \in {"idle", "stop"}

\* "stop preview" (UVCCamera.java 303): a stop that has begun comes to its end.
StopReturns == pc["control"] = "stop" ~> pc["control"] \in {"idle", "deleted"}

===============================================================================
