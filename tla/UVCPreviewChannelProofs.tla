---------------------- MODULE UVCPreviewChannelProofs ----------------------
(***************************************************************************)
(* UVCPreview implements FrameChannel.  The buffers are put aside first:   *)
(* what matters is the number of the camera frame each place holds, and    *)
(* because a buffer has one owner an operation on a buffer changes the     *)
(* number at its own place only.                                           *)
(***************************************************************************)
EXTENDS UVCPreviewStopProofs

-------------------------------------------------------------------------------
(* One capture thread at a time *)

\* no capture thread works beside another
OneRuns ==
    \A c, d \in CaptureThreads : pc[c] # "none" /\ pc[d] # "none" => c = d

\* Before the first preview has created its capture thread there is none.
FirstSession ==
    /\ starts = 0 => pc["preview"] = "none" /\ pc["control"] # "start"
    /\ starts = 0 \/ pc["control"] = "start" \/ pc["preview"] \in Early =>
          \A c \in CaptureThreads : pc[c] = "none"

\* the control thread starts one preview, and creates no capture thread
LEMMA ControlFirst ==
    ASSUME MaxStarts <= 1, IInv, OneRuns, FirstSession, Control
    PROVE  OneRuns' /\ FirstSession'
  <1> USE DEF IInv, PcTypes
  <1>1. CASE StartPreview
    <2>1. starts = 0 /\ starts' = starts + 1 /\ pc' = [pc EXCEPT !["control"] = "start"]
      BY <1>1, PreviewAssumption DEF StartPreview, Goto, RestTypes
    <2> QED
      BY <2>1, ThreadFacts DEF OneRuns, FirstSession
  <1>2. CASE CreatePreviewThread
    <2>1. starts # 0 /\ starts' = starts /\ \A c \in CaptureThreads : pc[c] = "none"
      BY <1>2 DEF CreatePreviewThread, FirstSession
    <2>2. \A c \in CaptureThreads : pc'[c] = "none"
      BY <1>2, <2>1, ThreadFacts DEF CreatePreviewThread
    <2> QED
      BY <2>1, <2>2 DEF OneRuns, FirstSession
  <1>3. CASE JoinCaptureThread
    <2>1. /\ pc'["preview"] = pc["preview"] /\ pc'["control"] # "start" /\ starts' = starts
          /\ \A c \in CaptureThreads : pc'[c] \in {pc[c], "none"}
      BY <1>3, ThreadFacts DEF JoinCaptureThread, RestTypes, requestVars
    <2> QED
      BY <2>1 DEF OneRuns, FirstSession
  <1>4. CASE ~StartPreview /\ ~CreatePreviewThread /\ ~JoinCaptureThread
    <2>1. starts' = starts
      BY <1>4
      DEF Control, SetPreviewDisplay, SetCaptureDisplay, SetFrameCallback, StopPreview,
          FrameCallback, SwapFrameCallback, SwapCaptureDisplay, Wake, StartPreviewFailed,
          ClearRunning, StopSignalPreview, StopSignalCapture, JoinPreviewThread,
          StopClearPreview, StopClearCapture, ReleasePreviewWindow, ReleaseCaptureWindow,
          DeletePreview, controlTargets, controlFrame, requestVars
    <2>2. /\ pc'["preview"] \in {pc["preview"], "none"} /\ pc'["control"] # "start"
          /\ \A c \in CaptureThreads : pc'[c] = pc[c]
      BY <1>4, ThreadFacts
      DEF Control, Idle, SetPreviewDisplay, SetCaptureDisplay, SetFrameCallback, StopPreview,
          FrameCallback, Sleep, SwapFrameCallback, SwapCaptureDisplay, Wake,
          StartPreviewFailed, ClearRunning, StopSignalPreview, StopSignalCapture,
          JoinPreviewThread, StopClearPreview, StopClearCapture, ReleasePreviewWindow,
          ReleaseCaptureWindow, DeletePreview, Goto
    <2> QED
      BY <2>1, <2>2 DEF OneRuns, FirstSession, Early
  <1> QED
    BY <1>1, <1>2, <1>3, <1>4

\* the preview thread creates the capture thread when there is none
LEMMA PreviewFirst ==
    ASSUME IInv, Life, OneRuns, FirstSession, Preview
    PROVE  OneRuns' /\ FirstSession'
  <1> USE DEF IInv, PcTypes
  <1>1. pc["preview"] # "none"
    BY DEF Preview, PreparePreview, StartStreaming, ClearStalePreview, CreateCaptureThread,
           PreviewLoop, WaitPreviewFrame, WakePreviewFrame, TakePreviewFrame, DecodeFrame,
           RecycleMjpeg, DropFrame, DrawIfWindow, ConvertPreview, ShowPreview,
           AddCaptureFrame, PreviewSignal, StopStreaming, Goto
  <1>2. starts # 0 /\ pc["control"] # "start"
    BY <1>1 DEF FirstSession, Life, Threading, Session, NoPreview, Cleared
  <1>3. starts' = starts
    BY DEF Preview, PreparePreview, StartStreaming, ClearStalePreview, CreateCaptureThread,
           PreviewLoop, WaitPreviewFrame, WakePreviewFrame, DecodeFrame, RecycleMjpeg,
           DropFrame, DrawIfWindow, ConvertPreview, ShowPreview, AddCaptureFrame,
           PreviewSignal, StopStreaming, previewLocal, previewFrame, requestVars
  <1>4. CASE CreateCaptureThread
    <2>1. \A c \in CaptureThreads : pc[c] = "none"
      BY <1>4 DEF CreateCaptureThread, FirstSession, Early
    <2>2. PICK d \in CaptureThreads :
             pc' = [pc EXCEPT !["preview"] = "loop", ![d] = "begin"]
      BY <1>4 DEF CreateCaptureThread
    <2>3. /\ \A c \in CaptureThreads : c # d => pc'[c] = "none"
          /\ pc'["preview"] = "loop" /\ pc'["control"] = pc["control"]
      BY <2>1, <2>2, ThreadFacts
    <2> QED
      BY <1>2, <1>3, <2>3 DEF OneRuns, FirstSession, Early
  <1>5. CASE ~CreateCaptureThread
    <2>1. /\ \A t \in Threads \ {"preview"} : pc'[t] = pc[t]
          /\ pc'["preview"] \in Early => pc["preview"] \in Early
      BY <1>5, ThreadFacts
      DEF Preview, PreparePreview, StartStreaming, ClearStalePreview, PreviewLoop,
          WaitPreviewFrame, WakePreviewFrame, TakePreviewFrame, DecodeFrame, RecycleMjpeg,
          DropFrame, DrawIfWindow, ConvertPreview, ShowPreview, AddCaptureFrame,
          PreviewSignal, StopStreaming, Goto, Early
    <2> QED
      BY <1>2, <1>3, <2>1, ThreadFacts DEF OneRuns, FirstSession
  <1> QED
    BY <1>4, <1>5

\* a capture thread that runs is the only one and stays so
LEMMA CaptureFirst ==
    ASSUME IInv, OneRuns, FirstSession, NEW c \in CaptureThreads, Capture(c)
    PROVE  OneRuns' /\ FirstSession'
  <1>1. pc[c] # "none" /\ \A t \in Threads \ {c} : pc'[t] = pc[t]
    BY ThreadFacts
    DEF IInv, PcTypes, Goto, Capture, CaptureBegin, CaptureOuter, CaptureArm, CaptureChoose,
        CaptureLoop, WaitCaptureFrame, WakeCaptureFrame, TakeCaptureFrame, CaptureTaken,
        RenderCapture, CopyToSurface, Posted, CaptureCallback, ConvertCallback, CallOnFrame,
        ReturnOnFrame, RecycleConverted, RecycleCallback, SurfaceEnd, SurfaceRelease,
        CaptureBroadcast
  <1>2. starts' = starts
    BY DEF Capture, CaptureBegin, CaptureOuter, CaptureArm, CaptureChoose, CaptureLoop,
           WaitCaptureFrame, WakeCaptureFrame, CaptureTaken, RenderCapture, CopyToSurface,
           Posted, CaptureCallback, ConvertCallback, CallOnFrame, ReturnOnFrame,
           RecycleConverted, RecycleCallback, SurfaceEnd, SurfaceRelease, CaptureBroadcast,
           captureBuffers, captureFrame, requestVars
  <1> QED
    BY <1>1, <1>2, ThreadFacts DEF OneRuns, FirstSession

\* In the first session, and in every session if no stop comes too early, there is one
\* capture thread at a time.
LEMMA OneRunsAlways ==
    ASSUME ~EarlyStop \/ MaxStarts <= 1
    PROVE  Spec => []OneRuns
  <1>1. CASE ~EarlyStop
    <2>1. Handles => OneRuns
      BY DEF Handles, OneCapture, OneRuns
    <2> QED
      BY <1>1, <2>1, HandlesInductive, PTL
  <1>2. CASE MaxStarts <= 1
    <2>1. Init => OneRuns /\ FirstSession
      BY ThreadFacts DEF Init, OneRuns, FirstSession
    <2>2. IInv /\ Life /\ OneRuns /\ FirstSession /\ [Next]_vars => (OneRuns /\ FirstSession)'
      <3> SUFFICES ASSUME IInv, Life, OneRuns, FirstSession, [Next]_vars
                   PROVE  (OneRuns /\ FirstSession)'
        OBVIOUS
      <3>1. CASE Usb
        <4>1. starts' = starts /\ \A t \in Threads \ {"usb"} : pc'[t] = pc[t]
          BY <3>1, ThreadFacts
          DEF IInv, PcTypes, Usb, DeliverFrame, CopyFrame, AddPreviewFrame, RecycleCopy, Goto,
              usbFrame, requestVars
        <4> QED
          BY <4>1, ThreadFacts DEF OneRuns, FirstSession
      <3>2. CASE SpuriousWakeup \/ UNCHANGED vars
        <4>1. pc' = pc /\ starts' = starts
          BY <3>2 DEF SpuriousWakeup, vars, requestVars
        <4> QED
          BY <4>1 DEF OneRuns, FirstSession
      <3> QED
        BY <1>2, <3>1, <3>2, ControlFirst, PreviewFirst, CaptureFirst DEF Next
    <2> QED
      BY <2>1, <2>2, LifeInductive, PTL DEF Spec
  <1> QED
    BY <1>1, <1>2

-------------------------------------------------------------------------------
(* The numbers at the places *)

\* the number of the frame in a thread's variable, as a set: empty for NULL
Number == [x \in Slots |-> IF local[x] = NULL THEN {} ELSE {content[local[x]]}]

\* of the frame in captureQueu
Latest == IF captureQueu = NULL THEN {} ELSE {content[captureQueu]}

\* of the frame at a position of previewFrames
Queue == [i \in 1 .. Len(previewFrames) |-> content[previewFrames[i]]]

\* a step that touches no buffer changes no number
LEMMA NumbersKept ==
    ASSUME UNCHANGED <<frameVars, queueVars>>
    PROVE  Number' = Number /\ Latest' = Latest /\ Queue' = Queue
  BY DEF frameVars, queueVars, Number, Latest, Queue

\* A number at a place changes with the content of the buffer there only.
LEMMA SameQueue ==
    ASSUME FrameInv, UNCHANGED previewFrames,
           \A f \in Frames : InSeq(f, previewFrames) => content'[f] = content[f]
    PROVE  Queue' = Queue
  <1>1. previewFrames \in Seq(Frames)
    BY DEF FrameInv, FrameTypes
  <1>2. ASSUME NEW i \in 1 .. Len(previewFrames)
        PROVE  content'[previewFrames[i]] = content[previewFrames[i]]
    BY <1>1, ElementOfSeq DEF InSeq
  <1> QED
    BY <1>2 DEF Queue

\* get_frame and the copy into the buffer it returns (96-110)
LEMMA GetNumbers ==
    ASSUME FrameInv, UNCHANGED queueVars, NEW s \in Slots, NEW n, GetFrame(s, n)
    PROVE  Number' = [Number EXCEPT ![s] = {n}] /\ Latest' = Latest /\ Queue' = Queue
  <1> USE DEF FrameInv
  <1>1. /\ Fetched \in Frames /\ ~InSeq(Fetched, previewFrames) /\ Fetched # captureQueu
        /\ \A x \in Slots : local[x] # Fetched
    <2>1. CASE mFramePool = <<>>
      <3>1. Fetched \in Frames /\ Fetched \notin allocated
        BY <2>1 DEF GetFrame, Exhausted, Fetched, FreshFrame
      <3> QED
        BY <3>1 DEF NoUseAfterFree, Owned
    <2>2. CASE mFramePool # <<>>
      <3>1. mFramePool \in Seq(Frames) /\ Distinct(mFramePool)
        BY DEF FrameTypes, OneOwner
      <3>2. Fetched \in Frames /\ InSeq(Fetched, mFramePool)
        BY <2>2, <3>1, PopMembers DEF Fetched
      <3> QED
        BY <3>2 DEF OneOwner
    <2> QED
      BY <2>1, <2>2
  <1>2. /\ local' = [local EXCEPT ![s] = Fetched]
        /\ content' = [content EXCEPT ![Fetched] = n]
        /\ previewFrames' = previewFrames /\ captureQueu' = captureQueu
        /\ local \in [Slots -> FrameOrNull] /\ captureQueu \in FrameOrNull
        /\ content \in [Frames -> 0 .. MaxSent] /\ NULL \notin Frames
    BY Sizes DEF GetFrame, queueVars, FrameTypes
  <1>3. \A f \in Frames : f # Fetched => content'[f] = content[f]
    BY <1>2
  <1>4. content'[Fetched] = n
    BY <1>1, <1>2
  <1>5. Number' = [Number EXCEPT ![s] = {n}]
    <2>1. ASSUME NEW x \in Slots
          PROVE  (IF local'[x] = NULL THEN {} ELSE {content'[local'[x]]})
                    = IF x = s THEN {n}
                      ELSE IF local[x] = NULL THEN {} ELSE {content[local[x]]}
      BY <1>1, <1>2, <1>3, <1>4 DEF FrameOrNull
    <2> QED
      BY <2>1 DEF Number
  <1>6. Latest' = Latest
    BY <1>1, <1>2, <1>3 DEF Latest, FrameOrNull
  <1>7. Queue' = Queue
    BY <1>1, <1>2, <1>3, SameQueue
  <1> QED
    BY <1>5, <1>6, <1>7

\* recycle_frame on a thread's own buffer (112-122)
LEMMA RecycleNumbers ==
    ASSUME FrameInv, UNCHANGED queueVars, NEW s \in Slots, local[s] # NULL, Recycle(s)
    PROVE  Number' = [Number EXCEPT ![s] = {}] /\ Latest' = Latest /\ Queue' = Queue
  <1> USE DEF FrameInv
  <1>1. /\ local[s] \in Frames /\ ~InSeq(local[s], previewFrames) /\ local[s] # captureQueu
        /\ \A x \in Slots : local[x] = local[s] => x = s
    BY DEF FrameTypes, FrameOrNull, OneOwner
  <1>2. /\ local' = [local EXCEPT ![s] = NULL]
        /\ content' = [content EXCEPT ![local[s]] = 0]
        /\ previewFrames' = previewFrames /\ captureQueu' = captureQueu
        /\ local \in [Slots -> FrameOrNull] /\ captureQueu \in FrameOrNull
        /\ content \in [Frames -> 0 .. MaxSent]
    BY DEF Recycle, PoolOrFree, queueVars, FrameTypes
  <1>3. \A f \in Frames : f # local[s] => content'[f] = content[f]
    BY <1>2
  <1>4. Number' = [Number EXCEPT ![s] = {}]
    <2>1. ASSUME NEW x \in Slots
          PROVE  (IF local'[x] = NULL THEN {} ELSE {content'[local'[x]]})
                    = IF x = s THEN {}
                      ELSE IF local[x] = NULL THEN {} ELSE {content[local[x]]}
      BY <1>1, <1>2, <1>3 DEF FrameOrNull
    <2> QED
      BY <2>1 DEF Number
  <1>5. Latest' = Latest
    BY <1>1, <1>2, <1>3 DEF Latest, FrameOrNull
  <1>6. Queue' = Queue
    BY <1>1, <1>2, <1>3, SameQueue
  <1> QED
    BY <1>4, <1>5, <1>6

\* clearCaptureFrame
LEMMA ClearCaptureNumbers ==
    ASSUME FrameInv, ClearCaptureFrame
    PROVE  Number' = Number /\ Latest' = {} /\ Queue' = Queue
  <1> USE DEF FrameInv
  <1>1. captureQueu' = NULL /\ local' = local /\ previewFrames' = previewFrames
    BY DEF ClearCaptureFrame
  <1>2. \A f \in Frames : f # captureQueu => content'[f] = content[f]
    BY DEF ClearCaptureFrame, PoolOrFree, FrameTypes
  <1>3. \A x \in Slots : local[x] # NULL => local[x] \in Frames /\ local[x] # captureQueu
    BY DEF FrameTypes, FrameOrNull, OneOwner
  <1>4. \A f \in Frames : InSeq(f, previewFrames) => f # captureQueu
    BY DEF OneOwner
  <1> QED
    BY <1>1, <1>2, <1>3, <1>4, SameQueue DEF Number, Latest

\* clearPreviewFrame
LEMMA ClearPreviewNumbers ==
    ASSUME FrameInv, ClearPreviewFrame
    PROVE  Number' = Number /\ Latest' = Latest /\ previewFrames' = <<>>
  <1> USE DEF FrameInv
  <1>1. previewFrames' = <<>> /\ local' = local /\ captureQueu' = captureQueu
    BY DEF ClearPreviewFrame
  <1>2. \A f \in Frames : ~InSeq(f, previewFrames) => content'[f] = content[f]
    BY DEF ClearPreviewFrame, InSeq
  <1>3. \A x \in Slots : local[x] # NULL => local[x] \in Frames /\ ~InSeq(local[x], previewFrames)
    BY DEF FrameTypes, FrameOrNull, OneOwner
  <1>4. captureQueu # NULL => captureQueu \in Frames /\ ~InSeq(captureQueu, previewFrames)
    BY DEF FrameTypes, FrameOrNull, OneOwner
  <1> QED
    BY <1>1, <1>2, <1>3, <1>4 DEF Number, Latest

\* addPreviewFrame, when there is room
LEMMA QueueNumbers ==
    ASSUME FrameInv, NEW s \in Slots, local[s] # NULL,
           previewFrames' = Queued(local[s]), local' = [local EXCEPT ![s] = NULL],
           UNCHANGED <<mFramePool, allocated, content, captureQueu>>
    PROVE  /\ Number' = [Number EXCEPT ![s] = {}] /\ Latest' = Latest
           /\ Len(previewFrames) \in Nat /\ Len(previewFrames') = Len(previewFrames) + 1
           /\ \A i \in 1 .. Len(previewFrames) : Queue'[i] = Queue[i]
           /\ Number[s] = {Queue'[Len(previewFrames) + 1]}
  <1> USE DEF FrameInv
  <1>1. /\ local[s] \in Frames /\ previewFrames \in Seq(Frames)
        /\ local \in [Slots -> FrameOrNull]
    BY DEF FrameTypes, FrameOrNull
  <1>2. /\ Len(previewFrames) \in Nat /\ Len(previewFrames') = Len(previewFrames) + 1
        /\ \A i \in 1 .. Len(previewFrames) : previewFrames'[i] = previewFrames[i]
        /\ previewFrames'[Len(previewFrames) + 1] = local[s]
    BY <1>1, AppendProperties, LenProperties DEF Queued
  <1>3. \A i \in 1 .. Len(previewFrames) + 1 : Queue'[i] = content[previewFrames'[i]]
    BY <1>2 DEF Queue
  <1>4. Number' = [Number EXCEPT ![s] = {}] /\ Latest' = Latest
    BY <1>1 DEF Number, Latest
  <1>5. ASSUME NEW i \in 1 .. Len(previewFrames)
        PROVE  Queue'[i] = Queue[i]
    BY <1>2, <1>3 DEF Queue
  <1>6. Number[s] = {Queue'[Len(previewFrames) + 1]}
    <2>1. Len(previewFrames) + 1 \in 1 .. Len(previewFrames) + 1
      BY <1>2
    <2> QED
      BY <1>2, <1>3, <2>1 DEF Number
  <1> QED
    BY <1>2, <1>4, <1>5, <1>6

\* waitPreviewFrame, when there is a frame
LEMMA DequeueNumbers ==
    ASSUME FrameInv, NEW s \in Slots, previewFrames # <<>>,
           previewFrames' = Tail(previewFrames),
           local' = [local EXCEPT ![s] = Head(previewFrames)],
           UNCHANGED <<mFramePool, allocated, content, captureQueu>>
    PROVE  /\ Latest' = Latest
           /\ Len(previewFrames) \in Nat \ {0} /\ Len(previewFrames') = Len(previewFrames) - 1
           /\ \A i \in 1 .. Len(previewFrames') : Queue'[i] = Queue[i + 1]
           /\ Number' = [Number EXCEPT ![s] = {Queue[1]}]
  <1> USE DEF FrameInv
  <1>1. previewFrames \in Seq(Frames) /\ local \in [Slots -> FrameOrNull] /\ NULL \notin Frames
    BY Sizes DEF FrameTypes
  <1>2. /\ Len(previewFrames) \in Nat \ {0} /\ Head(previewFrames) = previewFrames[1]
        /\ Len(previewFrames') = Len(previewFrames) - 1
        /\ \A i \in 1 .. Len(previewFrames') : previewFrames'[i] = previewFrames[i + 1]
        /\ Head(previewFrames) \in Frames
    BY <1>1, HeadTailProperties, EmptySeq, LenProperties
  <1>3. ASSUME NEW i \in 1 .. Len(previewFrames')
        PROVE  Queue'[i] = Queue[i + 1]
    <2>1. i + 1 \in 1 .. Len(previewFrames)
      BY <1>2
    <2> QED
      BY <1>2, <2>1 DEF Queue
  <1>4. Queue[1] = content[Head(previewFrames)]
    <2>1. 1 \in 1 .. Len(previewFrames)
      BY <1>2
    <2> QED
      BY <1>2, <2>1 DEF Queue
  <1> DEFINE h == Head(previewFrames)
  <1>5. local' = [local EXCEPT ![s] = h] /\ h \in Frames /\ Queue[1] = content[h]
    BY <1>2, <1>4
  <1> HIDE DEF h
  <1>6. Number' = [Number EXCEPT ![s] = {content[h]}]
    BY <1>1, <1>5 DEF Number
  <1>7. Latest' = Latest
    BY DEF Latest
  <1> QED
    BY <1>2, <1>3, <1>5, <1>6, <1>7

\* waitCaptureFrame, when there is a frame
LEMMA TakeNumbers ==
    ASSUME FrameInv, NEW s \in Slots, captureQueu # NULL, captureQueu' = NULL,
           local' = [local EXCEPT ![s] = captureQueu],
           UNCHANGED <<mFramePool, allocated, content, previewFrames>>
    PROVE  Number' = [Number EXCEPT ![s] = Latest] /\ Latest' = {} /\ Queue' = Queue
  <1>1. local \in [Slots -> FrameOrNull]
    BY DEF FrameInv, FrameTypes
  <1> QED
    BY <1>1 DEF Number, Latest, Queue

\* addCaptureFrame: the frame takes the place of the one before it, or is forgotten
LEMMA AddCaptureNumbers ==
    ASSUME FrameInv, local[Frame] # NULL, AddCaptureFrame
    PROVE  /\ Number' = [Number EXCEPT ![Frame] = {}] /\ Queue' = Queue
           /\ Latest' = IF mIsRunning THEN Number[Frame] ELSE Latest
  <1> USE DEF FrameInv
  <1>1. /\ local' = [local EXCEPT ![Frame] = NULL] /\ previewFrames' = previewFrames
        /\ captureQueu' = IF mIsRunning THEN local[Frame] ELSE captureQueu
        /\ Frame \in Slots /\ local \in [Slots -> FrameOrNull] /\ captureQueu \in FrameOrNull
    BY SlotsApart DEF AddCaptureFrame, FrameTypes
  <1>2. \A f \in Frames : f = captureQueu \/ content'[f] = content[f]
    BY DEF AddCaptureFrame, PoolOrFree, FrameTypes
  <1>3. ~mIsRunning => content' = content
    BY DEF AddCaptureFrame
  <1>4. \A x \in Slots : local[x] # NULL => local[x] \in Frames /\ local[x] # captureQueu
    BY <1>1 DEF FrameOrNull, OneOwner
  <1>5. \A f \in Frames : InSeq(f, previewFrames) => f # captureQueu
    BY DEF OneOwner
  <1>6. Queue' = Queue
    BY <1>1, <1>2, <1>5, SameQueue
  <1>7. Number' = [Number EXCEPT ![Frame] = {}]
    <2>1. ASSUME NEW x \in Slots
          PROVE  (IF local'[x] = NULL THEN {} ELSE {content'[local'[x]]})
                    = IF x = Frame THEN {}
                      ELSE IF local[x] = NULL THEN {} ELSE {content[local[x]]}
      BY <1>1, <1>2, <1>4
    <2> QED
      BY <2>1 DEF Number
  <1>8. Latest' = IF mIsRunning THEN Number[Frame] ELSE Latest
    BY <1>1, <1>2, <1>3, <1>4 DEF Latest, Number
  <1> QED
    BY <1>6, <1>7, <1>8

\* the destructor
LEMMA DeleteNumbers ==
    ASSUME DeletePreview
    PROVE  Number' = Number /\ Latest' = {} /\ previewFrames' = <<>>
  BY DEF DeletePreview, Number, Latest

-------------------------------------------------------------------------------
(* The order of the frames.  Six stages lie between the callback and the      *)
(* camera: what was delivered, the capture thread's frame until it is given   *)
(* to onFrame, captureQueu, the preview thread's frame, previewFrames, and    *)
(* the copy the USB thread makes.                                            *)

Pending(c) == pc[c] \notin {"onFrame", "recycle"}

AtCapture == UNION {Number[CapFrame(c)] \cup Number[CapCallback(c)] :
                       c \in {d \in CaptureThreads : Pending(d)}}
AtPreview == Number[MjpegIn] \cup Number[Frame]
AtQueue   == {Queue[i] : i \in 1 .. Len(previewFrames)}
AtCopy    == Number[Copy] \cup {n \in {sent} : pc["usb"] = "copy"}

Stages(s0, s1, s2, s3, s4, s5) ==
    [k \in 0 .. 5 |-> CASE k = 0 -> s0 [] k = 1 -> s1 [] k = 2 -> s2
                        [] k = 3 -> s3 [] k = 4 -> s4 [] k = 5 -> s5]

At == Stages({delivered}, AtCapture, Latest, AtPreview, AtQueue, AtCopy)

\* Whoever is closer to the callback holds the older frames.
Sorted(A, last) ==
    /\ \A i, j \in 0 .. 5 : i < j => \A a \in A[i], b \in A[j] : a < b
    /\ \A i \in 0 .. 5 : \A a \in A[i] : a <= last

\* and in the queue the older ones come first
Increasing ==
    \A i, j \in 1 .. Len(previewFrames) : i < j => Queue[i] < Queue[j]

Order == Sorted(At, sent) /\ Increasing

\* the stages by name
LEMMA StagesAre ==
    ASSUME NEW s0, NEW s1, NEW s2, NEW s3, NEW s4, NEW s5
    PROVE  LET A == Stages(s0, s1, s2, s3, s4, s5)
           IN /\ A[0] = s0 /\ A[1] = s1 /\ A[2] = s2 /\ A[3] = s3 /\ A[4] = s4 /\ A[5] = s5
  BY DEF Stages

\* taking numbers out of the stages keeps them sorted
LEMMA Kept ==
    ASSUME NEW A, NEW B, NEW last \in Nat, NEW next \in Nat, last <= next,
           \A k \in 0 .. 5 : A[k] \subseteq Nat,
           Sorted(A, last), \A k \in 0 .. 5 : B[k] \subseteq A[k]
    PROVE  Sorted(B, next)
  BY DEF Sorted

\* so does passing the least number of a stage to the one before it
LEMMA Passed ==
    ASSUME NEW A, NEW B, NEW last, NEW k \in 0 .. 4, NEW n \in A[k + 1],
           Sorted(A, last),
           \A j \in 0 .. 5 : j # k => B[j] \subseteq A[j],
           B[k] \subseteq A[k] \cup {n},
           \A m \in B[k + 1] : n < m
    PROVE  Sorted(B, last)
  <1>1. ASSUME NEW i \in 0 .. 5, NEW j \in 0 .. 5, i < j, NEW a \in B[i], NEW b \in B[j]
        PROVE  a < b
    <2>1. CASE i # k /\ j # k
      BY <1>1, <2>1 DEF Sorted
    <2>2. CASE i = k /\ j = k + 1
      BY <1>1, <2>2 DEF Sorted
    <2>3. CASE i = k /\ j # k + 1
      <3>1. k + 1 \in 0 .. 5 /\ k + 1 < j /\ j # k
        BY <1>1, <2>3
      <3> QED
        BY <1>1, <2>3, <3>1 DEF Sorted
    <2>4. CASE j = k
      <3>1. k + 1 \in 0 .. 5 /\ i < k + 1 /\ i # k
        BY <1>1, <2>4
      <3> QED
        BY <1>1, <2>4, <3>1 DEF Sorted
    <2> QED
      BY <2>1, <2>2, <2>3, <2>4
  <1>2. ASSUME NEW i \in 0 .. 5, NEW a \in B[i]
        PROVE  a <= last
    <2>1. k + 1 \in 0 .. 5
      OBVIOUS
    <2> QED
      BY <1>2, <2>1 DEF Sorted
  <1> QED
    BY <1>1, <1>2 DEF Sorted

\* and so does a newer number in the last stage
LEMMA Entered ==
    ASSUME NEW A, NEW B, NEW last \in Nat,
           \A k \in 0 .. 5 : A[k] \subseteq Nat,
           Sorted(A, last), \A k \in 0 .. 4 : B[k] \subseteq A[k], B[5] \subseteq {last + 1}
    PROVE  Sorted(B, last + 1)
  <1>1. ASSUME NEW i \in 0 .. 5, NEW j \in 0 .. 5, i < j, NEW a \in B[i], NEW b \in B[j]
        PROVE  a < b
    <2>1. i \in 0 .. 4 /\ a \in A[i] /\ a \in Nat /\ a <= last
      BY <1>1 DEF Sorted
    <2>2. CASE j = 5
      BY <1>1, <2>1, <2>2
    <2>3. CASE j # 5
      <3>1. j \in 0 .. 4 /\ b \in A[j]
        BY <1>1, <2>3
      <3> QED
        BY <1>1, <2>1, <3>1 DEF Sorted
    <2> QED
      BY <2>2, <2>3
  <1>2. ASSUME NEW i \in 0 .. 5, NEW a \in B[i]
        PROVE  a <= last + 1
    <2>1. CASE i = 5
      BY <1>2, <2>1
    <2>2. CASE i # 5
      <3>1. i \in 0 .. 4 /\ a \in A[i] /\ a \in Nat /\ a <= last
        BY <1>2, <2>2 DEF Sorted
      <3> QED
        BY <3>1
    <2> QED
      BY <2>1, <2>2
  <1> QED
    BY <1>1, <1>2 DEF Sorted

\* the numbers are numbers
LEMMA NumbersAre ==
    ASSUME IInv
    PROVE  /\ sent \in Nat /\ delivered \in Nat
           /\ \A k \in 0 .. 5 : At[k] \subseteq Nat
           /\ \A i \in 1 .. Len(previewFrames) : Queue[i] \in Nat
  <1> USE DEF IInv, FrameInv
  <1>1. MaxSent \in Nat /\ sent \in Nat /\ delivered \in Nat
    BY PreviewAssumption DEF RestTypes
  <1>2. \A f \in Frames : content[f] \in Nat
    BY <1>1 DEF FrameTypes
  <1>3. \A x \in Slots : Number[x] \subseteq Nat
    BY <1>2 DEF Number, FrameTypes, FrameOrNull
  <1>4. Latest \subseteq Nat
    BY <1>2 DEF Latest, FrameTypes, FrameOrNull
  <1>5. \A i \in 1 .. Len(previewFrames) : Queue[i] \in Nat
    BY <1>2, ElementOfSeq DEF Queue, FrameTypes
  <1>6. AtCapture \subseteq Nat /\ AtPreview \subseteq Nat /\ AtQueue \subseteq Nat
        /\ AtCopy \subseteq Nat
    BY <1>1, <1>3, <1>5, SlotsApart DEF AtCapture, AtPreview, AtQueue, AtCopy
  <1> HIDE DEF IInv, FrameInv
  <1>7. /\ At[0] = {delivered} /\ At[1] = AtCapture /\ At[2] = Latest /\ At[3] = AtPreview
        /\ At[4] = AtQueue /\ At[5] = AtCopy
    BY StagesAre DEF At
  <1>8. ASSUME NEW k \in 0 .. 5
        PROVE  At[k] \subseteq Nat
    <2>1. k = 0 \/ k = 1 \/ k = 2 \/ k = 3 \/ k = 4 \/ k = 5
      OBVIOUS
    <2> QED
      BY <1>1, <1>4, <1>6, <1>7, <2>1
  <1> QED
    BY <1>1, <1>5, <1>8

\* a step that only takes frames out of the stages, or leaves everything as it is
LEMMA OrderKept ==
    ASSUME IInv, Order, sent' \in Nat, sent <= sent', delivered' = delivered,
           AtCapture' \subseteq AtCapture, Latest' \subseteq Latest,
           AtPreview' \subseteq AtPreview, AtCopy' \subseteq AtCopy,
           \/ previewFrames' = <<>>
           \/ Len(previewFrames') = Len(previewFrames) /\ Queue' = Queue
    PROVE  Order'
  <1>1. /\ At[0] = {delivered} /\ At[1] = AtCapture /\ At[2] = Latest /\ At[3] = AtPreview
        /\ At[4] = AtQueue /\ At[5] = AtCopy
    BY StagesAre DEF At
  <1>2. /\ At'[0] = {delivered'} /\ At'[1] = AtCapture' /\ At'[2] = Latest'
        /\ At'[3] = AtPreview' /\ At'[4] = AtQueue' /\ At'[5] = AtCopy'
    BY StagesAre DEF At
  <1>3. AtQueue' \subseteq AtQueue /\ Increasing'
    <2>1. CASE previewFrames' = <<>>
      <3>1. Len(previewFrames') = 0
        BY <2>1, EmptySeq
      <3> QED
        BY <3>1 DEF AtQueue, Increasing
    <2>2. CASE Len(previewFrames') = Len(previewFrames) /\ Queue' = Queue
      BY <2>2 DEF AtQueue, Increasing, Order
    <2> QED
      BY <2>1, <2>2
  <1>4. ASSUME NEW k \in 0 .. 5
        PROVE  At'[k] \subseteq At[k]
    <2>1. k = 0 \/ k = 1 \/ k = 2 \/ k = 3 \/ k = 4 \/ k = 5
      OBVIOUS
    <2> QED
      BY <1>1, <1>2, <1>3, <2>1
  <1>5. Sorted(At', sent')
    BY <1>4, NumbersAre, Kept DEF Order
  <1> QED
    BY <1>3, <1>5 DEF Order

\* the type of Number
LEMMA NumberTyped ==
    ASSUME IInv
    PROVE  Number \in [Slots -> SUBSET Nat]
  <1> USE DEF IInv, FrameInv
  <1>1. \A f \in Frames : content[f] \in Nat
    BY PreviewAssumption DEF FrameTypes
  <1> QED
    BY <1>1 DEF Number, FrameTypes, FrameOrNull

\* a step that passes a frame from one stage to the next
LEMMA OrderPassed ==
    ASSUME IInv, Order, sent' = sent, NEW k \in 0 .. 4, NEW n \in At[k + 1],
           \A j \in 0 .. 5 : j # k => At'[j] \subseteq At[j],
           At'[k] \subseteq At[k] \cup {n},
           \A m \in At'[k + 1] : n < m,
           Increasing'
    PROVE  Order'
  BY Passed DEF Order

\* the stages before and after a step
LEMMA StagesNow ==
    /\ At[0] = {delivered} /\ At[1] = AtCapture /\ At[2] = Latest /\ At[3] = AtPreview
    /\ At[4] = AtQueue /\ At[5] = AtCopy
    /\ At'[0] = {delivered'} /\ At'[1] = AtCapture' /\ At'[2] = Latest'
    /\ At'[3] = AtPreview' /\ At'[4] = AtQueue' /\ At'[5] = AtCopy'
    /\ \A k \in 0 .. 5 : k = 0 \/ k = 1 \/ k = 2 \/ k = 3 \/ k = 4 \/ k = 5
  BY StagesAre DEF At

\* nothing happened to the queue
SameFrames == Len(previewFrames') = Len(previewFrames) /\ Queue' = Queue

\* the next frame of the camera enters
LEMMA DeliverFrameOrder ==
    ASSUME ~Endless, IInv, Life, Order, DeliverFrame
    PROVE  Order'
  <1> USE DEF IInv, Life
  <1>1. Number' = Number /\ Latest' = Latest /\ SameFrames
    BY NumbersKept DEF DeliverFrame, SameFrames, queueVars
  <1>2. /\ sent \in Nat /\ sent' = sent + 1 /\ delivered' = delivered
        /\ \A c \in CaptureThreads : pc'[c] = pc[c]
    BY ThreadFacts, NumbersAre DEF DeliverFrame, usbFrame, PcTypes
  <1>3. AtCapture' = AtCapture /\ AtPreview' = AtPreview /\ AtQueue' = AtQueue /\ Increasing'
    BY <1>1, <1>2 DEF AtCapture, Pending, AtPreview, AtQueue, SameFrames, Increasing, Order
  <1>4. AtCopy' \subseteq {sent + 1}
    <2>1. Number[Copy] = {}
      BY SlotsApart DEF DeliverFrame, SlotsFit, Number
    <2> QED
      BY <1>1, <1>2, <2>1 DEF AtCopy
  <1>5. Sorted(At', sent + 1)
    <2>1. ASSUME NEW k \in 0 .. 4
          PROVE  At'[k] \subseteq At[k]
      BY <1>1, <1>2, <1>3, StagesNow
    <2> QED
      BY <1>2, <1>4, <2>1, NumbersAre, StagesNow, Entered DEF Order
  <1> QED
    BY <1>2, <1>3, <1>5 DEF Order

\* addPreviewFrame puts the copy behind the queue, or leaves it for recycle_frame
LEMMA AddPreviewFrameOrder ==
    ASSUME IInv, Life, Order, AddPreviewFrame
    PROVE  Order'
  <1> USE DEF IInv, Life
  <1>1. /\ sent' = sent /\ delivered' = delivered /\ pc["usb"] = "add" /\ pc'["usb"] # "copy"
        /\ \A c \in CaptureThreads : pc'[c] = pc[c]
        /\ Copy \in Slots /\ local[Copy] # NULL /\ Number \in [Slots -> SUBSET Nat]
    BY ThreadFacts, SlotsApart, NumberTyped
    DEF AddPreviewFrame, Goto, usbFrame, PcTypes, NoNullFrame, UsbHolds
  <1>2. CASE mIsRunning /\ HasRoom
    <2> DEFINE len == Len(previewFrames)
    <2>1. /\ Number' = [Number EXCEPT ![Copy] = {}] /\ Latest' = Latest
          /\ len \in Nat /\ Len(previewFrames') = len + 1
          /\ \A i \in 1 .. len : Queue'[i] = Queue[i]
          /\ Number[Copy] = {Queue'[len + 1]}
      BY <1>1, <1>2, QueueNumbers DEF AddPreviewFrame
    <2>2. PICK n : n = Queue'[len + 1]
      OBVIOUS
    <2>3. n \in AtCopy /\ AtCopy' = {} /\ AtCapture' = AtCapture /\ AtPreview' = AtPreview
      BY <1>1, <2>1, <2>2, SlotsApart DEF AtCopy, AtCapture, Pending, AtPreview
    <2> HIDE DEF len
    <2>4. \A i \in 1 .. len : Queue[i] \in AtQueue /\ Queue[i] < n
      <3>1. \A i \in 1 .. len : Queue[i] \in AtQueue
        BY DEF AtQueue, len
      <3>2. \A a \in At[4], b \in At[5] : a < b
        BY DEF Order, Sorted
      <3> QED
        BY <2>3, <3>1, <3>2, StagesNow
    <2>5. AtQueue' \subseteq AtQueue \cup {n}
      <3> SUFFICES ASSUME NEW i \in 1 .. len + 1
                   PROVE  Queue'[i] \in AtQueue \cup {n}
        BY <2>1 DEF AtQueue
      <3>1. i \in 1 .. len \/ i = len + 1
        BY <2>1
      <3> QED
        BY <2>1, <2>2, <2>4, <3>1
    <2>6. Increasing'
      <3> SUFFICES ASSUME NEW i \in 1 .. len + 1, NEW j \in 1 .. len + 1, i < j
                   PROVE  Queue'[i] < Queue'[j]
        BY <2>1 DEF Increasing
      <3>1. i \in 1 .. len
        BY <2>1
      <3>2. CASE j = len + 1
        BY <2>1, <2>2, <2>4, <3>1, <3>2
      <3>3. CASE j # len + 1
        <4>1. j \in 1 .. len
          BY <2>1, <3>3
        <4> QED
          BY <2>1, <3>1, <4>1 DEF Order, Increasing, len
      <3> QED
        BY <3>2, <3>3
    <2>7. ASSUME NEW j \in 0 .. 5, j # 4
          PROVE  At'[j] \subseteq At[j]
      BY <1>1, <2>1, <2>3, <2>7, StagesNow
    <2>8. At'[4] \subseteq At[4] \cup {n} /\ n \in At[4 + 1] /\ \A m \in At'[4 + 1] : n < m
      BY <2>3, <2>5, StagesNow
    <2> QED
      BY <1>1, <2>6, <2>7, <2>8, OrderPassed
  <1>3. CASE ~(mIsRunning /\ HasRoom)
    <2>1. UNCHANGED <<frameVars, queueVars>>
      BY <1>3 DEF AddPreviewFrame, frameVars, queueVars
    <2>2. Number' = Number /\ Latest' = Latest /\ SameFrames
      BY <2>1, NumbersKept DEF SameFrames, queueVars
    <2>3. AtCapture' = AtCapture /\ AtPreview' = AtPreview /\ AtCopy' \subseteq AtCopy
      BY <1>1, <2>2 DEF AtCapture, Pending, AtPreview, AtCopy
    <2> QED
      BY <1>1, <2>2, <2>3, NumbersAre, OrderKept DEF SameFrames
  <1> QED
    BY <1>2, <1>3

\* the end of waitPreviewFrame
LEMMA TakePreviewOrder ==
    ASSUME IInv, Life, Order, NEW from, TakePreviewFrame(from), UNCHANGED <<sent, delivered>>
    PROVE  Order'
  <1> USE DEF IInv, Life
  <1>1. /\ pc'["usb"] = pc["usb"] /\ \A c \in CaptureThreads : pc'[c] = pc[c]
        /\ Number \in [Slots -> SUBSET Nat]
    BY ThreadFacts, NumberTyped DEF TakePreviewFrame, Goto, PcTypes
  <1>2. CASE mIsRunning /\ previewFrames # <<>>
    <2> DEFINE s == IF Mjpeg THEN MjpegIn ELSE Frame
               n == Queue[1]
    <2>1. s \in Slots /\ s \in {MjpegIn, Frame}
      BY SlotsApart
    <2>2. /\ previewFrames' = Tail(previewFrames)
          /\ local' = [local EXCEPT ![s] = Head(previewFrames)]
          /\ UNCHANGED <<mFramePool, allocated, content, captureQueu>>
      BY <1>2 DEF TakePreviewFrame
    <2> HIDE DEF s
    <2>3. /\ Latest' = Latest
          /\ Len(previewFrames) \in Nat \ {0} /\ Len(previewFrames') = Len(previewFrames) - 1
          /\ \A i \in 1 .. Len(previewFrames') : Queue'[i] = Queue[i + 1]
          /\ Number' = [Number EXCEPT ![s] = {n}]
      BY <1>2, <2>1, <2>2, DequeueNumbers
    <2>4. n \in AtQueue
      BY <2>3 DEF AtQueue
    <2>5. AtPreview' \subseteq AtPreview \cup {n} /\ AtCapture' = AtCapture /\ AtCopy' = AtCopy
      BY <1>1, <2>1, <2>3, SlotsApart DEF AtPreview, AtCapture, Pending, AtCopy
    <2>6. ASSUME NEW i \in 1 .. Len(previewFrames')
          PROVE  /\ i + 1 \in 1 .. Len(previewFrames) /\ Queue'[i] = Queue[i + 1]
                 /\ Queue'[i] \in AtQueue /\ n < Queue'[i]
      <3>1. i + 1 \in 1 .. Len(previewFrames) /\ 1 \in 1 .. Len(previewFrames) /\ 1 < i + 1
        BY <2>3
      <3>2. Queue[1] < Queue[i + 1]
        BY <3>1 DEF Order, Increasing
      <3> QED
        BY <2>3, <3>1, <3>2 DEF AtQueue
    <2>7. AtQueue' \subseteq AtQueue /\ \A m \in AtQueue' : n < m
      BY <2>6 DEF AtQueue
    <2>8. Increasing'
      <3> SUFFICES ASSUME NEW i \in 1 .. Len(previewFrames'), NEW j \in 1 .. Len(previewFrames'),
                          i < j
                   PROVE  Queue'[i] < Queue'[j]
        BY DEF Increasing
      <3>1. i + 1 \in 1 .. Len(previewFrames) /\ j + 1 \in 1 .. Len(previewFrames)
            /\ i + 1 < j + 1 /\ Queue'[i] = Queue[i + 1] /\ Queue'[j] = Queue[j + 1]
        BY <2>3, <2>6
      <3> QED
        BY <3>1 DEF Order, Increasing
    <2> HIDE DEF n
    <2>9. ASSUME NEW j \in 0 .. 5, j # 3
          PROVE  At'[j] \subseteq At[j]
      BY <2>3, <2>5, <2>7, <2>9, StagesNow
    <2>10. At'[3] \subseteq At[3] \cup {n} /\ n \in At[3 + 1] /\ \A m \in At'[3 + 1] : n < m
      BY <2>4, <2>5, <2>7, StagesNow
    <2> QED
      BY <2>8, <2>9, <2>10, OrderPassed
  <1>3. CASE ~(mIsRunning /\ previewFrames # <<>>)
    <2>1. UNCHANGED <<frameVars, queueVars>>
      BY <1>3 DEF TakePreviewFrame, frameVars, queueVars
    <2>2. Number' = Number /\ Latest' = Latest /\ SameFrames
      BY <2>1, NumbersKept DEF SameFrames, queueVars
    <2>3. AtCapture' = AtCapture /\ AtPreview' = AtPreview /\ AtCopy' = AtCopy
      BY <1>1, <2>2 DEF AtCapture, Pending, AtPreview, AtCopy
    <2> QED
      BY <2>2, <2>3, NumbersAre, OrderKept DEF SameFrames
  <1> QED
    BY <1>2, <1>3

\* waitPreviewFrame after its sleep
LEMMA WakePreviewFrameOrder ==
    ASSUME IInv, Life, Order, WakePreviewFrame
    PROVE  Order'
  BY TakePreviewOrder DEF WakePreviewFrame, previewLocal, previewFrame

\* waitPreviewFrame, with a frame or without
LEMMA WaitPreviewFrameOrder ==
    ASSUME IInv, Life, Order, WaitPreviewFrame
    PROVE  Order'
  <1>1. CASE previewFrames = <<>>
    <2>1. Number' = Number /\ Latest' = Latest /\ SameFrames
      BY <1>1, NumbersKept DEF WaitPreviewFrame, SameFrames, queueVars
    <2>2. /\ sent' = sent /\ delivered' = delivered /\ pc'["usb"] = pc["usb"]
          /\ \A c \in CaptureThreads : pc'[c] = pc[c]
      BY <1>1, ThreadFacts
      DEF WaitPreviewFrame, Goto, previewLocal, previewFrame, IInv, PcTypes
    <2>3. AtCapture' = AtCapture /\ AtPreview' = AtPreview /\ AtCopy' = AtCopy
      BY <2>1, <2>2 DEF AtCapture, Pending, AtPreview, AtCopy
    <2> QED
      BY <2>1, <2>2, <2>3, NumbersAre, OrderKept DEF SameFrames
  <1>2. CASE previewFrames # <<>>
    BY <1>2, TakePreviewOrder DEF WaitPreviewFrame, previewLocal, previewFrame
  <1> QED
    BY <1>1, <1>2

\* addCaptureFrame, while the preview runs and after it was stopped
LEMMA AddCaptureFrameOrder ==
    ASSUME IInv, Life, Order, AddCaptureFrame
    PROVE  Order'
  <1> USE DEF IInv, Life
  <1>1. /\ sent' = sent /\ delivered' = delivered /\ pc'["usb"] = pc["usb"]
        /\ \A c \in CaptureThreads : pc'[c] = pc[c]
        /\ local[Frame] # NULL /\ Number \in [Slots -> SUBSET Nat]
        /\ Number[MjpegIn] = {} /\ Frame \in Slots
    BY ThreadFacts, SlotsApart, NumberTyped
    DEF AddCaptureFrame, Goto, previewLocal, previewFrame, PcTypes, NoNullFrame, PreviewHolds,
        SlotsFit, Number
  <1>2. /\ Number' = [Number EXCEPT ![Frame] = {}] /\ Queue' = Queue
        /\ Latest' = IF mIsRunning THEN Number[Frame] ELSE Latest
        /\ previewFrames' = previewFrames
    BY <1>1, AddCaptureNumbers DEF AddCaptureFrame
  <1>3. /\ AtCapture' = AtCapture /\ AtPreview' = {} /\ AtCopy' = AtCopy
        /\ AtQueue' = AtQueue /\ Increasing'
    BY <1>1, <1>2, SlotsApart
    DEF AtCapture, Pending, AtPreview, AtCopy, AtQueue, Increasing, Order
  <1>4. CASE mIsRunning
    <2>1. PICK n : Number[Frame] = {n}
      BY <1>1 DEF Number
    <2>2. Latest' = {n} /\ n \in AtPreview
      BY <1>2, <1>4, <2>1 DEF AtPreview
    <2>3. ASSUME NEW j \in 0 .. 5, j # 2
          PROVE  At'[j] \subseteq At[j]
      BY <1>1, <1>3, <2>3, StagesNow
    <2>4. At'[2] \subseteq At[2] \cup {n} /\ n \in At[2 + 1] /\ \A m \in At'[2 + 1] : n < m
      BY <1>3, <2>2, StagesNow
    <2> QED
      BY <1>1, <1>3, <2>3, <2>4, OrderPassed
  <1>5. CASE ~mIsRunning
    BY <1>1, <1>2, <1>3, <1>5, NumbersAre, OrderKept
  <1> QED
    BY <1>4, <1>5

\* the end of waitCaptureFrame
LEMMA TakeCaptureOrder ==
    ASSUME IInv, Life, Order, NEW c \in CaptureThreads, NEW from, from \in {"wait", "woken"},
           TakeCaptureFrame(c, from), UNCHANGED <<sent, delivered, previewFrames>>
    PROVE  Order'
  <1> USE DEF IInv, Life
  <1>1. /\ pc'["usb"] = pc["usb"] /\ \A d \in CaptureThreads : Pending(d)' = Pending(d)
        /\ Number \in [Slots -> SUBSET Nat]
    BY ThreadFacts, NumberTyped DEF TakeCaptureFrame, Goto, PcTypes, Pending
  <1>2. CASE mIsRunning /\ captureQueu # NULL
    <2>1. Number' = [Number EXCEPT ![CapFrame(c)] = Latest] /\ Latest' = {} /\ SameFrames
      BY <1>2, SlotsApart, TakeNumbers DEF TakeCaptureFrame, SameFrames
    <2>2. PICK n : Latest = {n}
      BY <1>2 DEF Latest
    <2>3. /\ AtCapture' \subseteq AtCapture \cup {n}
          /\ AtPreview' = AtPreview /\ AtCopy' = AtCopy /\ AtQueue' = AtQueue /\ Increasing'
      <3>1. AtCapture' \subseteq AtCapture \cup {n}
        BY <1>1, <2>1, <2>2, SlotsApart DEF AtCapture
      <3> QED
        BY <1>1, <2>1, <3>1, SlotsApart
        DEF AtPreview, AtCopy, AtQueue, SameFrames, Increasing, Order
    <2>4. ASSUME NEW j \in 0 .. 5, j # 1
          PROVE  At'[j] \subseteq At[j]
      BY <2>1, <2>3, <2>4, StagesNow
    <2>5. At'[1] \subseteq At[1] \cup {n} /\ n \in At[1 + 1] /\ \A m \in At'[1 + 1] : n < m
      BY <2>1, <2>2, <2>3, StagesNow
    <2> QED
      BY <2>3, <2>4, <2>5, OrderPassed
  <1>3. CASE ~(mIsRunning /\ captureQueu # NULL)
    <2>1. UNCHANGED <<frameVars, queueVars>>
      BY <1>3 DEF TakeCaptureFrame, frameVars, queueVars
    <2>2. Number' = Number /\ Latest' = Latest /\ SameFrames
      BY <2>1, NumbersKept DEF SameFrames, queueVars
    <2>3. AtCapture' = AtCapture /\ AtPreview' = AtPreview /\ AtCopy' = AtCopy
      BY <1>1, <2>2 DEF AtCapture, AtPreview, AtCopy
    <2> QED
      BY <2>2, <2>3, NumbersAre, OrderKept DEF SameFrames
  <1> QED
    BY <1>2, <1>3

\* waitCaptureFrame after its sleep
LEMMA WakeCaptureFrameOrder ==
    ASSUME IInv, Life, Order, NEW c \in CaptureThreads, WakeCaptureFrame(c)
    PROVE  Order'
  BY TakeCaptureOrder DEF WakeCaptureFrame, captureFrame

\* waitCaptureFrame, with a frame or without
LEMMA WaitCaptureFrameOrder ==
    ASSUME IInv, Life, Order, NEW c \in CaptureThreads, WaitCaptureFrame(c)
    PROVE  Order'
  <1>1. CASE captureQueu = NULL
    <2>1. Number' = Number /\ Latest' = Latest /\ SameFrames
      BY <1>1, NumbersKept DEF WaitCaptureFrame, captureFrame, SameFrames, queueVars
    <2>2. /\ sent' = sent /\ delivered' = delivered /\ pc'["usb"] = pc["usb"]
          /\ \A d \in CaptureThreads : Pending(d)' = Pending(d)
      BY <1>1, ThreadFacts
      DEF WaitCaptureFrame, Goto, captureFrame, IInv, PcTypes, Pending
    <2>3. AtCapture' = AtCapture /\ AtPreview' = AtPreview /\ AtCopy' = AtCopy
      BY <2>1, <2>2 DEF AtCapture, AtPreview, AtCopy
    <2> QED
      BY <2>1, <2>2, <2>3, NumbersAre, OrderKept DEF SameFrames
  <1>2. CASE captureQueu # NULL
    BY <1>2, TakeCaptureOrder DEF WaitCaptureFrame, captureFrame
  <1> QED
    BY <1>1, <1>2

\* there is one capture thread, so its frame is the only one of its stage
LEMMA CallOnFrameOrder ==
    ASSUME IInv, Life, OneRuns, Order, NEW c \in CaptureThreads, CallOnFrame(c)
    PROVE  Order' /\ delivered' \in AtCapture
  <1> USE DEF IInv, Life
  <1>1. Number' = Number /\ Latest' = Latest /\ SameFrames
    BY NumbersKept DEF CallOnFrame, captureFrame, SameFrames, queueVars
  <1>2. /\ sent' = sent /\ pc[c] = "call" /\ pc'[c] = "onFrame" /\ pc'["usb"] = pc["usb"]
        /\ \A d \in CaptureThreads \ {c} : pc'[d] = pc[d]
    BY ThreadFacts DEF CallOnFrame, Goto, captureFrame, PcTypes
  <1>3. ASSUME NEW d \in CaptureThreads, d # c
        PROVE  Number[CapFrame(d)] = {} /\ Number[CapCallback(d)] = {}
    <2>1. pc[d] = "none"
      BY <1>2, <1>3 DEF OneRuns
    <2> QED
      BY <2>1, SlotsApart DEF SlotsFit, Number
  <1>4. AtCapture' = {}
    BY <1>1, <1>2, <1>3 DEF AtCapture, Pending
  <1>5. delivered' \in AtCapture
    <2>1. /\ local[CallbackSlot(c)] # NULL /\ CallbackSlot(c) \in {CapFrame(c), CapCallback(c)}
          /\ delivered' = content[local[CallbackSlot(c)]] /\ CallbackSlot(c) \in Slots
      BY <1>2, SlotsApart DEF CallOnFrame, NoNullFrame, CaptureHolds, CallbackSlot
    <2>2. delivered' \in Number[CallbackSlot(c)]
      BY <2>1 DEF Number
    <2>3. Pending(c)
      BY <1>2 DEF Pending
    <2> QED
      BY <2>1, <2>2, <2>3 DEF AtCapture
  <1>6. AtPreview' = AtPreview /\ AtCopy' = AtCopy /\ AtQueue' = AtQueue /\ Increasing'
    BY <1>1, <1>2 DEF AtPreview, AtCopy, AtQueue, SameFrames, Increasing, Order
  <1>7. ASSUME NEW j \in 0 .. 5, j # 0
        PROVE  At'[j] \subseteq At[j]
    BY <1>1, <1>4, <1>6, <1>7, StagesNow
  <1>8. /\ At'[0] \subseteq At[0] \cup {delivered'} /\ delivered' \in At[0 + 1]
        /\ \A m \in At'[0 + 1] : delivered' < m
    BY <1>4, <1>5, StagesNow
  <1>9. PICK n : n = delivered'
    OBVIOUS
  <1>10. Order'
    BY <1>2, <1>6, <1>7, <1>8, <1>9, OrderPassed
  <1> QED
    BY <1>5, <1>10

\* the USB thread brings in newer frames only
LEMMA UsbOrder ==
    ASSUME ~Endless, IInv, Life, Life', Order, Usb
    PROVE  Order'
  <1> USE DEF IInv, Life
  <1>1. ASSUME DeliverFrame
        PROVE  Order'
    BY <1>1, DeliverFrameOrder
  <1>2. ASSUME CopyFrame
        PROVE  Order'
    <2>1. /\ Latest' = Latest /\ SameFrames
          /\ \/ Number' = Number
             \/ Number' = [Number EXCEPT ![Copy] = {sent}]
      <3>1. UNCHANGED queueVars
        BY <1>2 DEF CopyFrame, queueVars
      <3>2. CASE GetFrame(Copy, sent)
        BY <3>1, <3>2, GetNumbers, SlotsApart DEF SameFrames, queueVars
      <3>3. CASE UNCHANGED frameVars
        BY <3>1, <3>3, NumbersKept DEF SameFrames, queueVars
      <3> QED
        BY <1>2, <3>2, <3>3 DEF CopyFrame
    <2>2. sent' = sent /\ delivered' = delivered
      BY <1>2 DEF CopyFrame, usbFrame
    <2>3. pc'["usb"] # "copy" /\ \A c \in CaptureThreads : pc'[c] = pc[c]
      BY <1>2, ThreadFacts DEF CopyFrame, Goto, PcTypes
    <2>5. Number \in [Slots -> SUBSET Nat]
      BY NumberTyped
    <2>6. AtCapture' \subseteq AtCapture
      BY <2>1, <2>3, <2>5, SlotsApart, ThreadFacts DEF AtCapture, Pending
    <2>7. AtPreview' \subseteq AtPreview /\ AtCopy' \subseteq AtCopy
      BY <1>2, <2>1, <2>2, <2>3, <2>5, SlotsApart DEF CopyFrame, Goto, AtPreview, AtCopy
    <2> QED
      BY <2>1, <2>2, <2>6, <2>7, NumbersAre, OrderKept DEF SameFrames
  <1>3. ASSUME AddPreviewFrame
        PROVE  Order'
    BY <1>3, AddPreviewFrameOrder
  <1>4. ASSUME RecycleCopy
        PROVE  Order'
    <2>1. Number' = [Number EXCEPT ![Copy] = {}] /\ Latest' = Latest /\ SameFrames
      <3>1. /\ Copy \in Slots /\ local[Copy] # NULL
            /\ Recycle(Copy) /\ UNCHANGED queueVars
        BY <1>4, SlotsApart
        DEF RecycleCopy, Goto, queueVars, NoNullFrame, UsbHolds
      <3> QED
        BY <3>1, RecycleNumbers DEF SameFrames, queueVars
    <2>2. sent' = sent /\ delivered' = delivered
      BY <1>4 DEF RecycleCopy, usbFrame
    <2>3. pc'["usb"] # "copy" /\ \A c \in CaptureThreads : pc'[c] = pc[c]
      BY <1>4, ThreadFacts DEF RecycleCopy, Goto, PcTypes
    <2>5. Number \in [Slots -> SUBSET Nat]
      BY NumberTyped
    <2>6. AtCapture' \subseteq AtCapture
      BY <2>1, <2>3, <2>5, SlotsApart, ThreadFacts DEF AtCapture, Pending
    <2>7. AtPreview' \subseteq AtPreview /\ AtCopy' \subseteq AtCopy
      BY <2>1, <2>2, <2>3, <2>5, SlotsApart, ThreadFacts DEF AtPreview, AtCopy
    <2> QED
      BY <2>1, <2>2, <2>6, <2>7, NumbersAre, OrderKept DEF SameFrames
  <1> QED
    BY <1>1, <1>2, <1>3, <1>4
    DEF Usb

\* the preview thread takes the oldest frame and passes it on
LEMMA PreviewOrder ==
    ASSUME ~Endless, IInv, Life, Life', Order, Preview
    PROVE  Order'
  <1> USE DEF IInv, Life
  <1>1. ASSUME PreparePreview
        PROVE  Order'
    <2>1. Number' = Number /\ Latest' = Latest /\ SameFrames
      <3>1. UNCHANGED <<frameVars, queueVars>>
        BY <1>1 DEF PreparePreview, frameVars, queueVars
      <3> QED
        BY <3>1, NumbersKept DEF SameFrames, queueVars
    <2>2. sent' = sent /\ delivered' = delivered
      BY <1>1 DEF PreparePreview, previewLocal, previewFrame
    <2>3. /\ pc'["usb"] = pc["usb"]
          /\ \A c \in CaptureThreads : Pending(c)' => Pending(c)
      BY <1>1, ThreadFacts DEF PreparePreview, Goto, Pending, PcTypes, RestTypes
    <2>5. Number \in [Slots -> SUBSET Nat]
      BY NumberTyped
    <2>6. AtCapture' \subseteq AtCapture
      BY <2>1, <2>3, <2>5, SlotsApart DEF AtCapture
    <2>7. AtPreview' \subseteq AtPreview /\ AtCopy' \subseteq AtCopy
      BY <2>1, <2>2, <2>3, <2>5, SlotsApart, ThreadFacts DEF AtPreview, AtCopy
    <2> QED
      BY <2>1, <2>2, <2>6, <2>7, NumbersAre, OrderKept DEF SameFrames
  <1>2. ASSUME StartStreaming
        PROVE  Order'
    <2>1. Number' = Number /\ Latest' = Latest /\ SameFrames
      <3>1. UNCHANGED <<frameVars, queueVars>>
        BY <1>2 DEF StartStreaming, frameVars, queueVars
      <3> QED
        BY <3>1, NumbersKept DEF SameFrames, queueVars
    <2>2. sent' = sent /\ delivered' = delivered
      BY <1>2 DEF StartStreaming, previewFrame
    <2>3. /\ pc'["usb"] = pc["usb"]
          /\ \A c \in CaptureThreads : Pending(c)' => Pending(c)
      BY <1>2, ThreadFacts DEF StartStreaming, Goto, Pending, PcTypes, RestTypes
    <2>5. Number \in [Slots -> SUBSET Nat]
      BY NumberTyped
    <2>6. AtCapture' \subseteq AtCapture
      BY <2>1, <2>3, <2>5, SlotsApart DEF AtCapture
    <2>7. AtPreview' \subseteq AtPreview /\ AtCopy' \subseteq AtCopy
      BY <2>1, <2>2, <2>3, <2>5, SlotsApart, ThreadFacts DEF AtPreview, AtCopy
    <2> QED
      BY <2>1, <2>2, <2>6, <2>7, NumbersAre, OrderKept DEF SameFrames
  <1>3. ASSUME ClearStalePreview
        PROVE  Order'
    <2>1. Number' = Number /\ Latest' = Latest /\ previewFrames' = <<>>
      BY <1>3, ClearPreviewNumbers DEF ClearStalePreview
    <2>2. sent' = sent /\ delivered' = delivered
      BY <1>3 DEF ClearStalePreview, previewLocal, previewFrame
    <2>3. /\ pc'["usb"] = pc["usb"]
          /\ \A c \in CaptureThreads : Pending(c)' => Pending(c)
      BY <1>3, ThreadFacts DEF ClearStalePreview, Goto, Pending, PcTypes, RestTypes
    <2>5. Number \in [Slots -> SUBSET Nat]
      BY NumberTyped
    <2>6. AtCapture' \subseteq AtCapture
      BY <2>1, <2>3, <2>5, SlotsApart DEF AtCapture
    <2>7. AtPreview' \subseteq AtPreview /\ AtCopy' \subseteq AtCopy
      BY <2>1, <2>2, <2>3, <2>5, SlotsApart, ThreadFacts DEF AtPreview, AtCopy
    <2> QED
      BY <2>1, <2>2, <2>6, <2>7, NumbersAre, OrderKept DEF SameFrames
  <1>4. ASSUME CreateCaptureThread
        PROVE  Order'
    <2>1. Number' = Number /\ Latest' = Latest /\ SameFrames
      <3>1. UNCHANGED <<frameVars, queueVars>>
        BY <1>4 DEF CreateCaptureThread, frameVars, queueVars
      <3> QED
        BY <3>1, NumbersKept DEF SameFrames, queueVars
    <2>2. sent' = sent /\ delivered' = delivered
      BY <1>4 DEF CreateCaptureThread, previewFrame
    <2>3. /\ pc'["usb"] = pc["usb"]
          /\ \A c \in CaptureThreads : Pending(c)' => Pending(c)
      BY <1>4, ThreadFacts DEF CreateCaptureThread, Pending, PcTypes, RestTypes
    <2>5. Number \in [Slots -> SUBSET Nat]
      BY NumberTyped
    <2>6. AtCapture' \subseteq AtCapture
      BY <2>1, <2>3, <2>5, SlotsApart DEF AtCapture
    <2>7. AtPreview' \subseteq AtPreview /\ AtCopy' \subseteq AtCopy
      BY <2>1, <2>2, <2>3, <2>5, SlotsApart, ThreadFacts DEF AtPreview, AtCopy
    <2> QED
      BY <2>1, <2>2, <2>6, <2>7, NumbersAre, OrderKept DEF SameFrames
  <1>5. ASSUME PreviewLoop
        PROVE  Order'
    <2>1. Number' = Number /\ Latest' = Latest /\ SameFrames
      <3>1. UNCHANGED <<frameVars, queueVars>>
        BY <1>5 DEF PreviewLoop, frameVars, queueVars
      <3> QED
        BY <3>1, NumbersKept DEF SameFrames, queueVars
    <2>2. sent' = sent /\ delivered' = delivered
      BY <1>5 DEF PreviewLoop, previewLocal, previewFrame
    <2>3. /\ pc'["usb"] = pc["usb"]
          /\ \A c \in CaptureThreads : Pending(c)' => Pending(c)
      BY <1>5, ThreadFacts DEF PreviewLoop, Goto, Pending, PcTypes, RestTypes
    <2>5. Number \in [Slots -> SUBSET Nat]
      BY NumberTyped
    <2>6. AtCapture' \subseteq AtCapture
      BY <2>1, <2>3, <2>5, SlotsApart DEF AtCapture
    <2>7. AtPreview' \subseteq AtPreview /\ AtCopy' \subseteq AtCopy
      BY <2>1, <2>2, <2>3, <2>5, SlotsApart, ThreadFacts DEF AtPreview, AtCopy
    <2> QED
      BY <2>1, <2>2, <2>6, <2>7, NumbersAre, OrderKept DEF SameFrames
  <1>6. ASSUME WaitPreviewFrame
        PROVE  Order'
    BY <1>6, WaitPreviewFrameOrder
  <1>7. ASSUME WakePreviewFrame
        PROVE  Order'
    BY <1>7, WakePreviewFrameOrder
  <1>8. ASSUME DecodeFrame
        PROVE  Order'
    <2>1. /\ Latest' = Latest /\ SameFrames
          /\ \/ Number' = Number
             \/ Number' = [Number EXCEPT ![Frame] = {content[local[MjpegIn]]}]
      <3>1. UNCHANGED queueVars
        BY <1>8 DEF DecodeFrame, queueVars
      <3>2. CASE GetFrame(Frame, content[local[MjpegIn]])
        BY <3>1, <3>2, GetNumbers, SlotsApart DEF SameFrames, queueVars
      <3>3. CASE UNCHANGED frameVars
        BY <3>1, <3>3, NumbersKept DEF SameFrames, queueVars
      <3> QED
        BY <1>8, <3>2, <3>3 DEF DecodeFrame
    <2>2. sent' = sent /\ delivered' = delivered
      BY <1>8 DEF DecodeFrame, previewLocal, previewFrame
    <2>3. /\ pc'["usb"] = pc["usb"]
          /\ \A c \in CaptureThreads : Pending(c)' => Pending(c)
      BY <1>8, ThreadFacts DEF DecodeFrame, Goto, Pending, PcTypes, RestTypes
    <2>4. Number[MjpegIn] = {content[local[MjpegIn]]}
      BY <1>8, SlotsApart DEF DecodeFrame, Goto, Number, NoNullFrame, PreviewHolds
    <2>5. Number \in [Slots -> SUBSET Nat]
      BY NumberTyped
    <2>6. AtCapture' \subseteq AtCapture
      BY <2>1, <2>3, <2>4, <2>5, SlotsApart DEF AtCapture
    <2>7. AtPreview' \subseteq AtPreview /\ AtCopy' \subseteq AtCopy
      BY <2>1, <2>2, <2>3, <2>4, <2>5, SlotsApart, ThreadFacts DEF AtPreview, AtCopy
    <2> QED
      BY <2>1, <2>2, <2>6, <2>7, NumbersAre, OrderKept DEF SameFrames
  <1>9. ASSUME RecycleMjpeg
        PROVE  Order'
    <2>1. Number' = [Number EXCEPT ![MjpegIn] = {}] /\ Latest' = Latest /\ SameFrames
      <3>1. /\ MjpegIn \in Slots /\ local[MjpegIn] # NULL
            /\ Recycle(MjpegIn) /\ UNCHANGED queueVars
        BY <1>9, SlotsApart
        DEF RecycleMjpeg, Goto, queueVars, NoNullFrame, PreviewHolds
      <3> QED
        BY <3>1, RecycleNumbers DEF SameFrames, queueVars
    <2>2. sent' = sent /\ delivered' = delivered
      BY <1>9 DEF RecycleMjpeg, previewLocal, previewFrame
    <2>3. /\ pc'["usb"] = pc["usb"]
          /\ \A c \in CaptureThreads : Pending(c)' => Pending(c)
      BY <1>9, ThreadFacts DEF RecycleMjpeg, Goto, Pending, PcTypes, RestTypes
    <2>5. Number \in [Slots -> SUBSET Nat]
      BY NumberTyped
    <2>6. AtCapture' \subseteq AtCapture
      BY <2>1, <2>3, <2>5, SlotsApart DEF AtCapture
    <2>7. AtPreview' \subseteq AtPreview /\ AtCopy' \subseteq AtCopy
      BY <2>1, <2>2, <2>3, <2>5, SlotsApart, ThreadFacts DEF AtPreview, AtCopy
    <2> QED
      BY <2>1, <2>2, <2>6, <2>7, NumbersAre, OrderKept DEF SameFrames
  <1>10. ASSUME DropFrame
        PROVE  Order'
    <2>1. Number' = [Number EXCEPT ![Frame] = {}] /\ Latest' = Latest /\ SameFrames
      <3>1. /\ Frame \in Slots /\ local[Frame] # NULL
            /\ Recycle(Frame) /\ UNCHANGED queueVars
        BY <1>10, SlotsApart
        DEF DropFrame, Goto, queueVars, NoNullFrame, PreviewHolds
      <3> QED
        BY <3>1, RecycleNumbers DEF SameFrames, queueVars
    <2>2. sent' = sent /\ delivered' = delivered
      BY <1>10 DEF DropFrame, previewLocal, previewFrame
    <2>3. /\ pc'["usb"] = pc["usb"]
          /\ \A c \in CaptureThreads : Pending(c)' => Pending(c)
      BY <1>10, ThreadFacts DEF DropFrame, Goto, Pending, PcTypes, RestTypes
    <2>5. Number \in [Slots -> SUBSET Nat]
      BY NumberTyped
    <2>6. AtCapture' \subseteq AtCapture
      BY <2>1, <2>3, <2>5, SlotsApart DEF AtCapture
    <2>7. AtPreview' \subseteq AtPreview /\ AtCopy' \subseteq AtCopy
      BY <2>1, <2>2, <2>3, <2>5, SlotsApart, ThreadFacts DEF AtPreview, AtCopy
    <2> QED
      BY <2>1, <2>2, <2>6, <2>7, NumbersAre, OrderKept DEF SameFrames
  <1>11. ASSUME DrawIfWindow
        PROVE  Order'
    <2>1. Number' = Number /\ Latest' = Latest /\ SameFrames
      <3>1. UNCHANGED <<frameVars, queueVars>>
        BY <1>11 DEF DrawIfWindow, frameVars, queueVars
      <3> QED
        BY <3>1, NumbersKept DEF SameFrames, queueVars
    <2>2. sent' = sent /\ delivered' = delivered
      BY <1>11 DEF DrawIfWindow, previewLocal, previewFrame
    <2>3. /\ pc'["usb"] = pc["usb"]
          /\ \A c \in CaptureThreads : Pending(c)' => Pending(c)
      BY <1>11, ThreadFacts DEF DrawIfWindow, Goto, Pending, PcTypes, RestTypes
    <2>5. Number \in [Slots -> SUBSET Nat]
      BY NumberTyped
    <2>6. AtCapture' \subseteq AtCapture
      BY <2>1, <2>3, <2>5, SlotsApart DEF AtCapture
    <2>7. AtPreview' \subseteq AtPreview /\ AtCopy' \subseteq AtCopy
      BY <2>1, <2>2, <2>3, <2>5, SlotsApart, ThreadFacts DEF AtPreview, AtCopy
    <2> QED
      BY <2>1, <2>2, <2>6, <2>7, NumbersAre, OrderKept DEF SameFrames
  <1>12. ASSUME ConvertPreview
        PROVE  Order'
    <2>1. /\ Latest' = Latest /\ SameFrames
          /\ \/ Number' = Number
             \/ Number' = [Number EXCEPT ![Converted] = {content[local[Frame]]}]
      <3>1. UNCHANGED queueVars
        BY <1>12 DEF ConvertPreview, queueVars
      <3>2. CASE GetFrame(Converted, content[local[Frame]])
        BY <3>1, <3>2, GetNumbers, SlotsApart DEF SameFrames, queueVars
      <3>3. CASE UNCHANGED frameVars
        BY <3>1, <3>3, NumbersKept DEF SameFrames, queueVars
      <3> QED
        BY <1>12, <3>2, <3>3 DEF ConvertPreview
    <2>2. sent' = sent /\ delivered' = delivered
      BY <1>12 DEF ConvertPreview, previewLocal, previewFrame
    <2>3. /\ pc'["usb"] = pc["usb"]
          /\ \A c \in CaptureThreads : Pending(c)' => Pending(c)
      BY <1>12, ThreadFacts DEF ConvertPreview, Goto, Pending, PcTypes, RestTypes
    <2>5. Number \in [Slots -> SUBSET Nat]
      BY NumberTyped
    <2>6. AtCapture' \subseteq AtCapture
      BY <2>1, <2>3, <2>5, SlotsApart DEF AtCapture
    <2>7. AtPreview' \subseteq AtPreview /\ AtCopy' \subseteq AtCopy
      BY <2>1, <2>2, <2>3, <2>5, SlotsApart, ThreadFacts DEF AtPreview, AtCopy
    <2> QED
      BY <2>1, <2>2, <2>6, <2>7, NumbersAre, OrderKept DEF SameFrames
  <1>13. ASSUME ShowPreview
        PROVE  Order'
    <2>1. Number' = [Number EXCEPT ![Converted] = {}] /\ Latest' = Latest /\ SameFrames
      <3>1. /\ Converted \in Slots /\ local[Converted] # NULL
            /\ Recycle(Converted) /\ UNCHANGED queueVars
        BY <1>13, SlotsApart
        DEF ShowPreview, Goto, queueVars, NoNullFrame, PreviewHolds
      <3> QED
        BY <3>1, RecycleNumbers DEF SameFrames, queueVars
    <2>2. sent' = sent /\ delivered' = delivered
      BY <1>13 DEF ShowPreview, previewLocal, previewFrame
    <2>3. /\ pc'["usb"] = pc["usb"]
          /\ \A c \in CaptureThreads : Pending(c)' => Pending(c)
      BY <1>13, ThreadFacts DEF ShowPreview, Goto, Pending, PcTypes, RestTypes
    <2>5. Number \in [Slots -> SUBSET Nat]
      BY NumberTyped
    <2>6. AtCapture' \subseteq AtCapture
      BY <2>1, <2>3, <2>5, SlotsApart DEF AtCapture
    <2>7. AtPreview' \subseteq AtPreview /\ AtCopy' \subseteq AtCopy
      BY <2>1, <2>2, <2>3, <2>5, SlotsApart, ThreadFacts DEF AtPreview, AtCopy
    <2> QED
      BY <2>1, <2>2, <2>6, <2>7, NumbersAre, OrderKept DEF SameFrames
  <1>14. ASSUME AddCaptureFrame
        PROVE  Order'
    BY <1>14, AddCaptureFrameOrder
  <1>15. ASSUME PreviewSignal
        PROVE  Order'
    <2>1. Number' = Number /\ Latest' = Latest /\ SameFrames
      <3>1. UNCHANGED <<frameVars, queueVars>>
        BY <1>15 DEF PreviewSignal, frameVars, queueVars
      <3> QED
        BY <3>1, NumbersKept DEF SameFrames, queueVars
    <2>2. sent' = sent /\ delivered' = delivered
      BY <1>15 DEF PreviewSignal, previewLocal, previewFrame
    <2>3. /\ pc'["usb"] = pc["usb"]
          /\ \A c \in CaptureThreads : Pending(c)' => Pending(c)
      BY <1>15, ThreadFacts DEF PreviewSignal, Goto, Pending, PcTypes, RestTypes
    <2>5. Number \in [Slots -> SUBSET Nat]
      BY NumberTyped
    <2>6. AtCapture' \subseteq AtCapture
      BY <2>1, <2>3, <2>5, SlotsApart DEF AtCapture
    <2>7. AtPreview' \subseteq AtPreview /\ AtCopy' \subseteq AtCopy
      BY <2>1, <2>2, <2>3, <2>5, SlotsApart, ThreadFacts DEF AtPreview, AtCopy
    <2> QED
      BY <2>1, <2>2, <2>6, <2>7, NumbersAre, OrderKept DEF SameFrames
  <1>16. ASSUME StopStreaming
        PROVE  Order'
    <2>1. Number' = Number /\ Latest' = Latest /\ SameFrames
      <3>1. UNCHANGED <<frameVars, queueVars>>
        BY <1>16 DEF StopStreaming, frameVars, queueVars
      <3> QED
        BY <3>1, NumbersKept DEF SameFrames, queueVars
    <2>2. sent' = sent /\ delivered' = delivered
      BY <1>16 DEF StopStreaming, previewFrame
    <2>3. /\ pc'["usb"] = pc["usb"]
          /\ \A c \in CaptureThreads : Pending(c)' => Pending(c)
      BY <1>16, ThreadFacts DEF StopStreaming, Goto, Pending, PcTypes, RestTypes
    <2>5. Number \in [Slots -> SUBSET Nat]
      BY NumberTyped
    <2>6. AtCapture' \subseteq AtCapture
      BY <2>1, <2>3, <2>5, SlotsApart DEF AtCapture
    <2>7. AtPreview' \subseteq AtPreview /\ AtCopy' \subseteq AtCopy
      BY <2>1, <2>2, <2>3, <2>5, SlotsApart, ThreadFacts DEF AtPreview, AtCopy
    <2> QED
      BY <2>1, <2>2, <2>6, <2>7, NumbersAre, OrderKept DEF SameFrames
  <1> QED
    BY <1>1, <1>2, <1>3, <1>4, <1>5, <1>6, <1>7, <1>8, <1>9, <1>10, <1>11, <1>12, <1>13,
       <1>14, <1>15, <1>16
    DEF Preview

\* the capture thread gives its frame to onFrame
LEMMA CaptureOrder ==
    ASSUME ~Endless, IInv, Life, Life', OneRuns, Order, NEW c \in CaptureThreads, Capture(c)
    PROVE  Order'
  <1> USE DEF IInv, Life
  <1>1. ASSUME CaptureBegin(c)
        PROVE  Order'
    <2>1. Number' = Number /\ Latest' = {} /\ SameFrames
      BY <1>1, ClearCaptureNumbers DEF CaptureBegin, ClearCaptureFrame, SameFrames
    <2>2. sent' = sent /\ delivered' = delivered
      BY <1>1 DEF CaptureBegin, streamVars
    <2>3. /\ \A t \in Threads \ {c} : pc'[t] = pc[t]
          /\ pc'[c] \in {"onFrame", "recycle"} \/ pc[c] \notin {"onFrame", "recycle"}
      BY <1>1, ThreadFacts DEF CaptureBegin, Goto, PcTypes
    <2>5. Number \in [Slots -> SUBSET Nat]
      BY NumberTyped
    <2>6. AtCapture' \subseteq AtCapture
      BY <2>1, <2>3, <2>5, SlotsApart, ThreadFacts DEF AtCapture, Pending
    <2>7. AtPreview' \subseteq AtPreview /\ AtCopy' \subseteq AtCopy
      BY <2>1, <2>2, <2>3, <2>5, SlotsApart, ThreadFacts DEF AtPreview, AtCopy
    <2> QED
      BY <2>1, <2>2, <2>6, <2>7, NumbersAre, OrderKept DEF SameFrames
  <1>2. ASSUME CaptureOuter(c)
        PROVE  Order'
    <2>1. Number' = Number /\ Latest' = Latest /\ SameFrames
      <3>1. UNCHANGED <<frameVars, queueVars>>
        BY <1>2 DEF CaptureOuter, captureBuffers, captureFrame, frameVars, queueVars
      <3> QED
        BY <3>1, NumbersKept DEF SameFrames, queueVars
    <2>2. sent' = sent /\ delivered' = delivered
      BY <1>2 DEF CaptureOuter, captureBuffers, captureFrame
    <2>3. /\ \A t \in Threads \ {c} : pc'[t] = pc[t]
          /\ pc'[c] \in {"onFrame", "recycle"} \/ pc[c] \notin {"onFrame", "recycle"}
      BY <1>2, ThreadFacts DEF CaptureOuter, Goto, PcTypes
    <2>5. Number \in [Slots -> SUBSET Nat]
      BY NumberTyped
    <2>6. AtCapture' \subseteq AtCapture
      BY <2>1, <2>3, <2>5, SlotsApart, ThreadFacts DEF AtCapture, Pending
    <2>7. AtPreview' \subseteq AtPreview /\ AtCopy' \subseteq AtCopy
      BY <2>1, <2>2, <2>3, <2>5, SlotsApart, ThreadFacts DEF AtPreview, AtCopy
    <2> QED
      BY <2>1, <2>2, <2>6, <2>7, NumbersAre, OrderKept DEF SameFrames
  <1>3. ASSUME CaptureArm(c)
        PROVE  Order'
    <2>1. Number' = Number /\ Latest' = Latest /\ SameFrames
      <3>1. UNCHANGED <<frameVars, queueVars>>
        BY <1>3 DEF CaptureArm, frameVars, queueVars
      <3> QED
        BY <3>1, NumbersKept DEF SameFrames, queueVars
    <2>2. sent' = sent /\ delivered' = delivered
      BY <1>3 DEF CaptureArm, streamVars
    <2>3. /\ \A t \in Threads \ {c} : pc'[t] = pc[t]
          /\ pc'[c] \in {"onFrame", "recycle"} \/ pc[c] \notin {"onFrame", "recycle"}
      BY <1>3, ThreadFacts DEF CaptureArm, Goto, PcTypes
    <2>5. Number \in [Slots -> SUBSET Nat]
      BY NumberTyped
    <2>6. AtCapture' \subseteq AtCapture
      BY <2>1, <2>3, <2>5, SlotsApart, ThreadFacts DEF AtCapture, Pending
    <2>7. AtPreview' \subseteq AtPreview /\ AtCopy' \subseteq AtCopy
      BY <2>1, <2>2, <2>3, <2>5, SlotsApart, ThreadFacts DEF AtPreview, AtCopy
    <2> QED
      BY <2>1, <2>2, <2>6, <2>7, NumbersAre, OrderKept DEF SameFrames
  <1>4. ASSUME CaptureChoose(c)
        PROVE  Order'
    <2>1. Number' = Number /\ Latest' = Latest /\ SameFrames
      <3>1. UNCHANGED <<frameVars, queueVars>>
        BY <1>4 DEF CaptureChoose, captureFrame, frameVars, queueVars
      <3> QED
        BY <3>1, NumbersKept DEF SameFrames, queueVars
    <2>2. sent' = sent /\ delivered' = delivered
      BY <1>4 DEF CaptureChoose, captureFrame
    <2>3. /\ \A t \in Threads \ {c} : pc'[t] = pc[t]
          /\ pc'[c] \in {"onFrame", "recycle"} \/ pc[c] \notin {"onFrame", "recycle"}
      BY <1>4, ThreadFacts DEF CaptureChoose, Goto, PcTypes
    <2>5. Number \in [Slots -> SUBSET Nat]
      BY NumberTyped
    <2>6. AtCapture' \subseteq AtCapture
      BY <2>1, <2>3, <2>5, SlotsApart, ThreadFacts DEF AtCapture, Pending
    <2>7. AtPreview' \subseteq AtPreview /\ AtCopy' \subseteq AtCopy
      BY <2>1, <2>2, <2>3, <2>5, SlotsApart, ThreadFacts DEF AtPreview, AtCopy
    <2> QED
      BY <2>1, <2>2, <2>6, <2>7, NumbersAre, OrderKept DEF SameFrames
  <1>5. ASSUME CaptureLoop(c)
        PROVE  Order'
    <2>1. Number' = Number /\ Latest' = Latest /\ SameFrames
      <3>1. UNCHANGED <<frameVars, queueVars>>
        BY <1>5 DEF CaptureLoop, captureBuffers, captureFrame, frameVars, queueVars
      <3> QED
        BY <3>1, NumbersKept DEF SameFrames, queueVars
    <2>2. sent' = sent /\ delivered' = delivered
      BY <1>5 DEF CaptureLoop, captureBuffers, captureFrame
    <2>3. /\ \A t \in Threads \ {c} : pc'[t] = pc[t]
          /\ pc'[c] \in {"onFrame", "recycle"} \/ pc[c] \notin {"onFrame", "recycle"}
      BY <1>5, ThreadFacts DEF CaptureLoop, Goto, PcTypes
    <2>5. Number \in [Slots -> SUBSET Nat]
      BY NumberTyped
    <2>6. AtCapture' \subseteq AtCapture
      BY <2>1, <2>3, <2>5, SlotsApart, ThreadFacts DEF AtCapture, Pending
    <2>7. AtPreview' \subseteq AtPreview /\ AtCopy' \subseteq AtCopy
      BY <2>1, <2>2, <2>3, <2>5, SlotsApart, ThreadFacts DEF AtPreview, AtCopy
    <2> QED
      BY <2>1, <2>2, <2>6, <2>7, NumbersAre, OrderKept DEF SameFrames
  <1>6. ASSUME WaitCaptureFrame(c)
        PROVE  Order'
    BY <1>6, WaitCaptureFrameOrder
  <1>7. ASSUME WakeCaptureFrame(c)
        PROVE  Order'
    BY <1>7, WakeCaptureFrameOrder
  <1>8. ASSUME CaptureTaken(c)
        PROVE  Order'
    <2>1. Number' = Number /\ Latest' = Latest /\ SameFrames
      <3>1. UNCHANGED <<frameVars, queueVars>>
        BY <1>8 DEF CaptureTaken, captureBuffers, captureFrame, frameVars, queueVars
      <3> QED
        BY <3>1, NumbersKept DEF SameFrames, queueVars
    <2>2. sent' = sent /\ delivered' = delivered
      BY <1>8 DEF CaptureTaken, captureBuffers, captureFrame
    <2>3. /\ \A t \in Threads \ {c} : pc'[t] = pc[t]
          /\ pc'[c] \in {"onFrame", "recycle"} \/ pc[c] \notin {"onFrame", "recycle"}
      BY <1>8, ThreadFacts DEF CaptureTaken, Goto, PcTypes
    <2>5. Number \in [Slots -> SUBSET Nat]
      BY NumberTyped
    <2>6. AtCapture' \subseteq AtCapture
      BY <2>1, <2>3, <2>5, SlotsApart, ThreadFacts DEF AtCapture, Pending
    <2>7. AtPreview' \subseteq AtPreview /\ AtCopy' \subseteq AtCopy
      BY <2>1, <2>2, <2>3, <2>5, SlotsApart, ThreadFacts DEF AtPreview, AtCopy
    <2> QED
      BY <2>1, <2>2, <2>6, <2>7, NumbersAre, OrderKept DEF SameFrames
  <1>9. ASSUME RenderCapture(c)
        PROVE  Order'
    <2>1. /\ Latest' = Latest /\ SameFrames
          /\ \/ Number' = Number
             \/ Number' = [Number EXCEPT ![CapConverted(c)] = {content[local[CapFrame(c)]]}]
      <3>1. UNCHANGED queueVars
        BY <1>9 DEF RenderCapture, captureBuffers, captureFrame, queueVars
      <3>2. CASE GetFrame(CapConverted(c), content[local[CapFrame(c)]])
        BY <3>1, <3>2, GetNumbers, SlotsApart DEF SameFrames, queueVars
      <3>3. CASE UNCHANGED frameVars
        BY <3>1, <3>3, NumbersKept DEF SameFrames, queueVars
      <3> QED
        BY <1>9, <3>2, <3>3 DEF RenderCapture
    <2>2. sent' = sent /\ delivered' = delivered
      BY <1>9 DEF RenderCapture, captureBuffers, captureFrame
    <2>3. /\ \A t \in Threads \ {c} : pc'[t] = pc[t]
          /\ pc'[c] \in {"onFrame", "recycle"} \/ pc[c] \notin {"onFrame", "recycle"}
      BY <1>9, ThreadFacts DEF RenderCapture, Goto, PcTypes
    <2>5. Number \in [Slots -> SUBSET Nat]
      BY NumberTyped
    <2>6. AtCapture' \subseteq AtCapture
      BY <2>1, <2>3, <2>5, SlotsApart, ThreadFacts DEF AtCapture, Pending
    <2>7. AtPreview' \subseteq AtPreview /\ AtCopy' \subseteq AtCopy
      BY <2>1, <2>2, <2>3, <2>5, SlotsApart, ThreadFacts DEF AtPreview, AtCopy
    <2> QED
      BY <2>1, <2>2, <2>6, <2>7, NumbersAre, OrderKept DEF SameFrames
  <1>10. ASSUME CopyToSurface(c)
        PROVE  Order'
    <2>1. Number' = Number /\ Latest' = Latest /\ SameFrames
      <3>1. UNCHANGED <<frameVars, queueVars>>
        BY <1>10 DEF CopyToSurface, captureFrame, frameVars, queueVars
      <3> QED
        BY <3>1, NumbersKept DEF SameFrames, queueVars
    <2>2. sent' = sent /\ delivered' = delivered
      BY <1>10 DEF CopyToSurface, captureFrame
    <2>3. /\ \A t \in Threads \ {c} : pc'[t] = pc[t]
          /\ pc'[c] \in {"onFrame", "recycle"} \/ pc[c] \notin {"onFrame", "recycle"}
      BY <1>10, ThreadFacts DEF CopyToSurface, Goto, PcTypes
    <2>5. Number \in [Slots -> SUBSET Nat]
      BY NumberTyped
    <2>6. AtCapture' \subseteq AtCapture
      BY <2>1, <2>3, <2>5, SlotsApart, ThreadFacts DEF AtCapture, Pending
    <2>7. AtPreview' \subseteq AtPreview /\ AtCopy' \subseteq AtCopy
      BY <2>1, <2>2, <2>3, <2>5, SlotsApart, ThreadFacts DEF AtPreview, AtCopy
    <2> QED
      BY <2>1, <2>2, <2>6, <2>7, NumbersAre, OrderKept DEF SameFrames
  <1>11. ASSUME Posted(c)
        PROVE  Order'
    <2>1. Number' = Number /\ Latest' = Latest /\ SameFrames
      <3>1. UNCHANGED <<frameVars, queueVars>>
        BY <1>11 DEF Posted, captureFrame, frameVars, queueVars
      <3> QED
        BY <3>1, NumbersKept DEF SameFrames, queueVars
    <2>2. sent' = sent /\ delivered' = delivered
      BY <1>11 DEF Posted, captureFrame
    <2>3. /\ \A t \in Threads \ {c} : pc'[t] = pc[t]
          /\ pc'[c] \in {"onFrame", "recycle"} \/ pc[c] \notin {"onFrame", "recycle"}
      BY <1>11, ThreadFacts DEF Posted, Goto, PcTypes
    <2>5. Number \in [Slots -> SUBSET Nat]
      BY NumberTyped
    <2>6. AtCapture' \subseteq AtCapture
      BY <2>1, <2>3, <2>5, SlotsApart, ThreadFacts DEF AtCapture, Pending
    <2>7. AtPreview' \subseteq AtPreview /\ AtCopy' \subseteq AtCopy
      BY <2>1, <2>2, <2>3, <2>5, SlotsApart, ThreadFacts DEF AtPreview, AtCopy
    <2> QED
      BY <2>1, <2>2, <2>6, <2>7, NumbersAre, OrderKept DEF SameFrames
  <1>12. ASSUME CaptureCallback(c)
        PROVE  Order'
    <2>1. Number' = Number /\ Latest' = Latest /\ SameFrames
      <3>1. UNCHANGED <<frameVars, queueVars>>
        BY <1>12 DEF CaptureCallback, captureBuffers, captureFrame, frameVars, queueVars
      <3> QED
        BY <3>1, NumbersKept DEF SameFrames, queueVars
    <2>2. sent' = sent /\ delivered' = delivered
      BY <1>12 DEF CaptureCallback, captureBuffers, captureFrame
    <2>3. /\ \A t \in Threads \ {c} : pc'[t] = pc[t]
          /\ pc'[c] \in {"onFrame", "recycle"} \/ pc[c] \notin {"onFrame", "recycle"}
      BY <1>12, ThreadFacts DEF CaptureCallback, Goto, PcTypes
    <2>5. Number \in [Slots -> SUBSET Nat]
      BY NumberTyped
    <2>6. AtCapture' \subseteq AtCapture
      BY <2>1, <2>3, <2>5, SlotsApart, ThreadFacts DEF AtCapture, Pending
    <2>7. AtPreview' \subseteq AtPreview /\ AtCopy' \subseteq AtCopy
      BY <2>1, <2>2, <2>3, <2>5, SlotsApart, ThreadFacts DEF AtPreview, AtCopy
    <2> QED
      BY <2>1, <2>2, <2>6, <2>7, NumbersAre, OrderKept DEF SameFrames
  <1>13. ASSUME ConvertCallback(c)
        PROVE  Order'
    <2>1. /\ Latest' = Latest /\ SameFrames
          /\ \/ Number' = Number
             \/ Number' = [Number EXCEPT ![CapCallback(c)] = {content[local[CapFrame(c)]]}]
      <3>1. UNCHANGED queueVars
        BY <1>13 DEF ConvertCallback, captureBuffers, captureFrame, queueVars
      <3>2. CASE GetFrame(CapCallback(c), content[local[CapFrame(c)]])
        BY <3>1, <3>2, GetNumbers, SlotsApart DEF SameFrames, queueVars
      <3>3. CASE UNCHANGED frameVars
        BY <3>1, <3>3, NumbersKept DEF SameFrames, queueVars
      <3> QED
        BY <1>13, <3>2, <3>3 DEF ConvertCallback
    <2>2. sent' = sent /\ delivered' = delivered
      BY <1>13 DEF ConvertCallback, captureBuffers, captureFrame
    <2>3. /\ \A t \in Threads \ {c} : pc'[t] = pc[t]
          /\ pc'[c] \in {"onFrame", "recycle"} \/ pc[c] \notin {"onFrame", "recycle"}
      BY <1>13, ThreadFacts DEF ConvertCallback, Goto, PcTypes
    <2>4. Number[CapFrame(c)] = {content[local[CapFrame(c)]]} /\ Pending(c)
      BY <1>13, SlotsApart DEF ConvertCallback, Goto, Number, NoNullFrame, CaptureHolds,
         Pending
    <2>5. Number \in [Slots -> SUBSET Nat]
      BY NumberTyped
    <2>6. AtCapture' \subseteq AtCapture
      BY <2>1, <2>3, <2>4, <2>5, SlotsApart, ThreadFacts DEF AtCapture, Pending
    <2>7. AtPreview' \subseteq AtPreview /\ AtCopy' \subseteq AtCopy
      BY <2>1, <2>2, <2>3, <2>4, <2>5, SlotsApart, ThreadFacts DEF AtPreview, AtCopy
    <2> QED
      BY <2>1, <2>2, <2>6, <2>7, NumbersAre, OrderKept DEF SameFrames
  <1>14. ASSUME RecycleConverted(c)
        PROVE  Order'
    <2>1. Number' = [Number EXCEPT ![CapFrame(c)] = {}] /\ Latest' = Latest /\ SameFrames
      <3>1. /\ CapFrame(c) \in Slots /\ local[CapFrame(c)] # NULL
            /\ Recycle(CapFrame(c)) /\ UNCHANGED queueVars
        BY <1>14, SlotsApart
        DEF RecycleConverted, Goto, captureBuffers, captureFrame, queueVars, NoNullFrame,
            CaptureHolds
      <3> QED
        BY <3>1, RecycleNumbers DEF SameFrames, queueVars
    <2>2. sent' = sent /\ delivered' = delivered
      BY <1>14 DEF RecycleConverted, captureBuffers, captureFrame
    <2>3. /\ \A t \in Threads \ {c} : pc'[t] = pc[t]
          /\ pc'[c] \in {"onFrame", "recycle"} \/ pc[c] \notin {"onFrame", "recycle"}
      BY <1>14, ThreadFacts DEF RecycleConverted, Goto, PcTypes
    <2>5. Number \in [Slots -> SUBSET Nat]
      BY NumberTyped
    <2>6. AtCapture' \subseteq AtCapture
      BY <2>1, <2>3, <2>5, SlotsApart, ThreadFacts DEF AtCapture, Pending
    <2>7. AtPreview' \subseteq AtPreview /\ AtCopy' \subseteq AtCopy
      BY <2>1, <2>2, <2>3, <2>5, SlotsApart, ThreadFacts DEF AtPreview, AtCopy
    <2> QED
      BY <2>1, <2>2, <2>6, <2>7, NumbersAre, OrderKept DEF SameFrames
  <1>15. ASSUME CallOnFrame(c)
        PROVE  Order'
    BY <1>15, CallOnFrameOrder
  <1>16. ASSUME ReturnOnFrame(c)
        PROVE  Order'
    <2>1. Number' = Number /\ Latest' = Latest /\ SameFrames
      <3>1. UNCHANGED <<frameVars, queueVars>>
        BY <1>16 DEF ReturnOnFrame, captureFrame, frameVars, queueVars
      <3> QED
        BY <3>1, NumbersKept DEF SameFrames, queueVars
    <2>2. sent' = sent /\ delivered' = delivered
      BY <1>16 DEF ReturnOnFrame, captureFrame
    <2>3. /\ \A t \in Threads \ {c} : pc'[t] = pc[t]
          /\ pc'[c] \in {"onFrame", "recycle"} \/ pc[c] \notin {"onFrame", "recycle"}
      BY <1>16, ThreadFacts DEF ReturnOnFrame, Goto, PcTypes
    <2>5. Number \in [Slots -> SUBSET Nat]
      BY NumberTyped
    <2>6. AtCapture' \subseteq AtCapture
      BY <2>1, <2>3, <2>5, SlotsApart, ThreadFacts DEF AtCapture, Pending
    <2>7. AtPreview' \subseteq AtPreview /\ AtCopy' \subseteq AtCopy
      BY <2>1, <2>2, <2>3, <2>5, SlotsApart, ThreadFacts DEF AtPreview, AtCopy
    <2> QED
      BY <2>1, <2>2, <2>6, <2>7, NumbersAre, OrderKept DEF SameFrames
  <1>17. ASSUME RecycleCallback(c)
        PROVE  Order'
    <2>1. Number' = [Number EXCEPT ![CallbackSlot(c)] = {}] /\ Latest' = Latest /\ SameFrames
      <3>1. /\ CallbackSlot(c) \in Slots /\ local[CallbackSlot(c)] # NULL
            /\ Recycle(CallbackSlot(c)) /\ UNCHANGED queueVars
        BY <1>17, SlotsApart
        DEF RecycleCallback, Goto, captureBuffers, captureFrame, queueVars, NoNullFrame,
            CaptureHolds, CallbackSlot
      <3> QED
        BY <3>1, RecycleNumbers DEF SameFrames, queueVars
    <2>2. sent' = sent /\ delivered' = delivered
      BY <1>17 DEF RecycleCallback, captureBuffers, captureFrame
    <2>3. /\ \A t \in Threads \ {c} : pc'[t] = pc[t]
          /\ pc'[c] = "loop"
      BY <1>17, ThreadFacts DEF RecycleCallback, Goto, PcTypes
    <2>4. Number'[CapFrame(c)] = {} /\ Number'[CapCallback(c)] = {}
      BY <2>3, SlotsApart DEF SlotsFit, Number
    <2>5. Number \in [Slots -> SUBSET Nat]
      BY NumberTyped
    <2>6. AtCapture' \subseteq AtCapture
      BY <2>1, <2>3, <2>4, <2>5, SlotsApart, ThreadFacts DEF AtCapture, Pending
    <2>7. AtPreview' \subseteq AtPreview /\ AtCopy' \subseteq AtCopy
      BY <2>1, <2>2, <2>3, <2>4, <2>5, SlotsApart, ThreadFacts DEF AtPreview, AtCopy
    <2> QED
      BY <2>1, <2>2, <2>6, <2>7, NumbersAre, OrderKept DEF SameFrames
  <1>18. ASSUME SurfaceEnd(c)
        PROVE  Order'
    <2>1. /\ Latest' = Latest /\ SameFrames
          /\ \/ Number' = Number
             \/ Number' = [Number EXCEPT ![CapConverted(c)] = {}]
      <3>1. CapConverted(c) \in Slots /\ UNCHANGED queueVars
        BY <1>18, SlotsApart DEF SurfaceEnd, captureBuffers, captureFrame, queueVars
      <3>2. CASE local[CapConverted(c)] # NULL
        BY <1>18, <3>1, <3>2, RecycleNumbers DEF SurfaceEnd, SameFrames, queueVars
      <3>3. CASE local[CapConverted(c)] = NULL
        BY <1>18, <3>1, <3>3, NumbersKept DEF SurfaceEnd, SameFrames, queueVars
      <3> QED
        BY <3>2, <3>3
    <2>2. sent' = sent /\ delivered' = delivered
      BY <1>18 DEF SurfaceEnd, captureBuffers, captureFrame
    <2>3. /\ \A t \in Threads \ {c} : pc'[t] = pc[t]
          /\ pc'[c] \in {"onFrame", "recycle"} \/ pc[c] \notin {"onFrame", "recycle"}
      BY <1>18, ThreadFacts DEF SurfaceEnd, Goto, PcTypes
    <2>5. Number \in [Slots -> SUBSET Nat]
      BY NumberTyped
    <2>6. AtCapture' \subseteq AtCapture
      BY <2>1, <2>3, <2>5, SlotsApart, ThreadFacts DEF AtCapture, Pending
    <2>7. AtPreview' \subseteq AtPreview /\ AtCopy' \subseteq AtCopy
      BY <2>1, <2>2, <2>3, <2>5, SlotsApart, ThreadFacts DEF AtPreview, AtCopy
    <2> QED
      BY <2>1, <2>2, <2>6, <2>7, NumbersAre, OrderKept DEF SameFrames
  <1>19. ASSUME SurfaceRelease(c)
        PROVE  Order'
    <2>1. Number' = Number /\ Latest' = Latest /\ SameFrames
      <3>1. UNCHANGED <<frameVars, queueVars>>
        BY <1>19 DEF SurfaceRelease, captureFrame, frameVars, queueVars
      <3> QED
        BY <3>1, NumbersKept DEF SameFrames, queueVars
    <2>2. sent' = sent /\ delivered' = delivered
      BY <1>19 DEF SurfaceRelease, captureFrame
    <2>3. /\ \A t \in Threads \ {c} : pc'[t] = pc[t]
          /\ pc'[c] \in {"onFrame", "recycle"} \/ pc[c] \notin {"onFrame", "recycle"}
      BY <1>19, ThreadFacts DEF SurfaceRelease, Goto, PcTypes
    <2>5. Number \in [Slots -> SUBSET Nat]
      BY NumberTyped
    <2>6. AtCapture' \subseteq AtCapture
      BY <2>1, <2>3, <2>5, SlotsApart, ThreadFacts DEF AtCapture, Pending
    <2>7. AtPreview' \subseteq AtPreview /\ AtCopy' \subseteq AtCopy
      BY <2>1, <2>2, <2>3, <2>5, SlotsApart, ThreadFacts DEF AtPreview, AtCopy
    <2> QED
      BY <2>1, <2>2, <2>6, <2>7, NumbersAre, OrderKept DEF SameFrames
  <1>20. ASSUME CaptureBroadcast(c)
        PROVE  Order'
    <2>1. Number' = Number /\ Latest' = Latest /\ SameFrames
      <3>1. UNCHANGED <<frameVars, queueVars>>
        BY <1>20 DEF CaptureBroadcast, captureFrame, frameVars, queueVars
      <3> QED
        BY <3>1, NumbersKept DEF SameFrames, queueVars
    <2>2. sent' = sent /\ delivered' = delivered
      BY <1>20 DEF CaptureBroadcast, captureFrame
    <2>3. /\ \A t \in Threads \ {c} : pc'[t] = pc[t]
          /\ pc'[c] \in {"onFrame", "recycle"} \/ pc[c] \notin {"onFrame", "recycle"}
      BY <1>20, ThreadFacts DEF CaptureBroadcast, Goto, PcTypes
    <2>5. Number \in [Slots -> SUBSET Nat]
      BY NumberTyped
    <2>6. AtCapture' \subseteq AtCapture
      BY <2>1, <2>3, <2>5, SlotsApart, ThreadFacts DEF AtCapture, Pending
    <2>7. AtPreview' \subseteq AtPreview /\ AtCopy' \subseteq AtCopy
      BY <2>1, <2>2, <2>3, <2>5, SlotsApart, ThreadFacts DEF AtPreview, AtCopy
    <2> QED
      BY <2>1, <2>2, <2>6, <2>7, NumbersAre, OrderKept DEF SameFrames
  <1> QED
    BY <1>1, <1>2, <1>3, <1>4, <1>5, <1>6, <1>7, <1>8, <1>9, <1>10, <1>11, <1>12, <1>13,
       <1>14, <1>15, <1>16, <1>17, <1>18, <1>19, <1>20
    DEF Capture

\* the control thread only takes frames away
LEMMA ControlOrder ==
    ASSUME ~Endless, IInv, Life, Life', Order, Control
    PROVE  Order'
  <1> USE DEF IInv, Life
  <1>1. ASSUME NEW w \in Windows, SetPreviewDisplay(w)
        PROVE  Order'
    <2>1. Number' = Number /\ Latest' = Latest /\ SameFrames
      <3>1. UNCHANGED <<frameVars, queueVars>>
        BY <1>1 DEF SetPreviewDisplay, controlFrame, frameVars, queueVars
      <3> QED
        BY <3>1, NumbersKept DEF SameFrames, queueVars
    <2>2. sent' = sent /\ delivered' = delivered
      BY <1>1 DEF SetPreviewDisplay, controlFrame, streamVars
    <2>3. /\ pc'["usb"] = pc["usb"]
          /\ \A c \in CaptureThreads : Pending(c)' => Pending(c)
      BY <1>1, ThreadFacts DEF SetPreviewDisplay, Idle, controlFrame, Pending, PcTypes,
         RestTypes
    <2>5. Number \in [Slots -> SUBSET Nat]
      BY NumberTyped
    <2>6. AtCapture' \subseteq AtCapture
      BY <2>1, <2>3, <2>5, SlotsApart DEF AtCapture
    <2>7. AtPreview' \subseteq AtPreview /\ AtCopy' \subseteq AtCopy
      BY <2>1, <2>2, <2>3, <2>5, SlotsApart, ThreadFacts DEF AtPreview, AtCopy
    <2> QED
      BY <2>1, <2>2, <2>6, <2>7, NumbersAre, OrderKept DEF SameFrames
  <1>2. ASSUME NEW w \in CaptureWindows, SetCaptureDisplay(w)
        PROVE  Order'
    <2>1. Number' = Number /\ Latest' = Latest /\ SameFrames
      <3>1. UNCHANGED <<frameVars, queueVars>>
        BY <1>2 DEF SetCaptureDisplay, controlFrame, frameVars, queueVars
      <3> QED
        BY <3>1, NumbersKept DEF SameFrames, queueVars
    <2>2. sent' = sent /\ delivered' = delivered
      BY <1>2 DEF SetCaptureDisplay, controlFrame, streamVars
    <2>3. /\ pc'["usb"] = pc["usb"]
          /\ \A c \in CaptureThreads : Pending(c)' => Pending(c)
      BY <1>2, ThreadFacts DEF SetCaptureDisplay, Idle, Sleep, controlFrame, Pending,
         PcTypes, RestTypes
    <2>5. Number \in [Slots -> SUBSET Nat]
      BY NumberTyped
    <2>6. AtCapture' \subseteq AtCapture
      BY <2>1, <2>3, <2>5, SlotsApart DEF AtCapture
    <2>7. AtPreview' \subseteq AtPreview /\ AtCopy' \subseteq AtCopy
      BY <2>1, <2>2, <2>3, <2>5, SlotsApart, ThreadFacts DEF AtPreview, AtCopy
    <2> QED
      BY <2>1, <2>2, <2>6, <2>7, NumbersAre, OrderKept DEF SameFrames
  <1>3. ASSUME NEW cb \in Callbacks, NEW fmt \in PixelFormats, SetFrameCallback(cb, fmt)
        PROVE  Order'
    <2>1. Number' = Number /\ Latest' = Latest /\ SameFrames
      <3>1. UNCHANGED <<frameVars, queueVars>>
        BY <1>3 DEF SetFrameCallback, FrameCallback, controlFrame, frameVars, queueVars
      <3> QED
        BY <3>1, NumbersKept DEF SameFrames, queueVars
    <2>2. sent' = sent /\ delivered' = delivered
      BY <1>3 DEF SetFrameCallback, FrameCallback, controlFrame, streamVars
    <2>3. /\ pc'["usb"] = pc["usb"]
          /\ \A c \in CaptureThreads : Pending(c)' => Pending(c)
      BY <1>3, ThreadFacts DEF SetFrameCallback, Idle, FrameCallback, Sleep, controlFrame,
         Pending, PcTypes, RestTypes
    <2>5. Number \in [Slots -> SUBSET Nat]
      BY NumberTyped
    <2>6. AtCapture' \subseteq AtCapture
      BY <2>1, <2>3, <2>5, SlotsApart DEF AtCapture
    <2>7. AtPreview' \subseteq AtPreview /\ AtCopy' \subseteq AtCopy
      BY <2>1, <2>2, <2>3, <2>5, SlotsApart, ThreadFacts DEF AtPreview, AtCopy
    <2> QED
      BY <2>1, <2>2, <2>6, <2>7, NumbersAre, OrderKept DEF SameFrames
  <1>4. ASSUME NEW close \in BOOLEAN, StopPreview(close)
        PROVE  Order'
    <2>1. Number' = Number /\ Latest' = Latest /\ SameFrames
      <3>1. UNCHANGED <<frameVars, queueVars>>
        BY <1>4 DEF StopPreview, FrameCallback, controlFrame, frameVars, queueVars
      <3> QED
        BY <3>1, NumbersKept DEF SameFrames, queueVars
    <2>2. sent' = sent /\ delivered' = delivered
      BY <1>4 DEF StopPreview, FrameCallback, controlFrame, streamVars
    <2>3. /\ pc'["usb"] = pc["usb"]
          /\ \A c \in CaptureThreads : Pending(c)' => Pending(c)
      BY <1>4, ThreadFacts DEF StopPreview, Idle, FrameCallback, Sleep, controlFrame,
         Pending, PcTypes, RestTypes
    <2>5. Number \in [Slots -> SUBSET Nat]
      BY NumberTyped
    <2>6. AtCapture' \subseteq AtCapture
      BY <2>1, <2>3, <2>5, SlotsApart DEF AtCapture
    <2>7. AtPreview' \subseteq AtPreview /\ AtCopy' \subseteq AtCopy
      BY <2>1, <2>2, <2>3, <2>5, SlotsApart, ThreadFacts DEF AtPreview, AtCopy
    <2> QED
      BY <2>1, <2>2, <2>6, <2>7, NumbersAre, OrderKept DEF SameFrames
  <1>5. ASSUME SwapFrameCallback
        PROVE  Order'
    <2>1. Number' = Number /\ Latest' = Latest /\ SameFrames
      <3>1. UNCHANGED <<frameVars, queueVars>>
        BY <1>5 DEF SwapFrameCallback, Wake, controlFrame, frameVars, queueVars
      <3> QED
        BY <3>1, NumbersKept DEF SameFrames, queueVars
    <2>2. sent' = sent /\ delivered' = delivered
      BY <1>5 DEF SwapFrameCallback, Wake, controlFrame, streamVars
    <2>3. /\ pc'["usb"] = pc["usb"]
          /\ \A c \in CaptureThreads : Pending(c)' => Pending(c)
      BY <1>5, ThreadFacts DEF SwapFrameCallback, Goto, Wake, controlFrame, Pending,
         PcTypes, RestTypes
    <2>5. Number \in [Slots -> SUBSET Nat]
      BY NumberTyped
    <2>6. AtCapture' \subseteq AtCapture
      BY <2>1, <2>3, <2>5, SlotsApart DEF AtCapture
    <2>7. AtPreview' \subseteq AtPreview /\ AtCopy' \subseteq AtCopy
      BY <2>1, <2>2, <2>3, <2>5, SlotsApart, ThreadFacts DEF AtPreview, AtCopy
    <2> QED
      BY <2>1, <2>2, <2>6, <2>7, NumbersAre, OrderKept DEF SameFrames
  <1>6. ASSUME SwapCaptureDisplay
        PROVE  Order'
    <2>1. Number' = Number /\ Latest' = Latest /\ SameFrames
      <3>1. UNCHANGED <<frameVars, queueVars>>
        BY <1>6 DEF SwapCaptureDisplay, Wake, controlFrame, frameVars, queueVars
      <3> QED
        BY <3>1, NumbersKept DEF SameFrames, queueVars
    <2>2. sent' = sent /\ delivered' = delivered
      BY <1>6 DEF SwapCaptureDisplay, Wake, controlFrame, streamVars
    <2>3. /\ pc'["usb"] = pc["usb"]
          /\ \A c \in CaptureThreads : Pending(c)' => Pending(c)
      BY <1>6, ThreadFacts DEF SwapCaptureDisplay, Goto, Wake, controlFrame, Pending,
         PcTypes, RestTypes
    <2>5. Number \in [Slots -> SUBSET Nat]
      BY NumberTyped
    <2>6. AtCapture' \subseteq AtCapture
      BY <2>1, <2>3, <2>5, SlotsApart DEF AtCapture
    <2>7. AtPreview' \subseteq AtPreview /\ AtCopy' \subseteq AtCopy
      BY <2>1, <2>2, <2>3, <2>5, SlotsApart, ThreadFacts DEF AtPreview, AtCopy
    <2> QED
      BY <2>1, <2>2, <2>6, <2>7, NumbersAre, OrderKept DEF SameFrames
  <1>7. ASSUME StartPreview
        PROVE  Order'
    <2>1. Number' = Number /\ Latest' = Latest /\ SameFrames
      <3>1. UNCHANGED <<frameVars, queueVars>>
        BY <1>7 DEF StartPreview, controlTargets, controlFrame, frameVars, queueVars
      <3> QED
        BY <3>1, NumbersKept DEF SameFrames, queueVars
    <2>2. sent' = sent /\ delivered' = delivered
      BY <1>7 DEF StartPreview, controlTargets, controlFrame, streamVars
    <2>3. /\ pc'["usb"] = pc["usb"]
          /\ \A c \in CaptureThreads : Pending(c)' => Pending(c)
      BY <1>7, ThreadFacts DEF StartPreview, Goto, controlFrame, Pending, PcTypes, RestTypes
    <2>5. Number \in [Slots -> SUBSET Nat]
      BY NumberTyped
    <2>6. AtCapture' \subseteq AtCapture
      BY <2>1, <2>3, <2>5, SlotsApart DEF AtCapture
    <2>7. AtPreview' \subseteq AtPreview /\ AtCopy' \subseteq AtCopy
      BY <2>1, <2>2, <2>3, <2>5, SlotsApart, ThreadFacts DEF AtPreview, AtCopy
    <2> QED
      BY <2>1, <2>2, <2>6, <2>7, NumbersAre, OrderKept DEF SameFrames
  <1>8. ASSUME CreatePreviewThread
        PROVE  Order'
    <2>1. Number' = Number /\ Latest' = Latest /\ SameFrames
      <3>1. UNCHANGED <<frameVars, queueVars>>
        BY <1>8 DEF CreatePreviewThread, controlTargets, controlFrame, frameVars, queueVars
      <3> QED
        BY <3>1, NumbersKept DEF SameFrames, queueVars
    <2>2. sent' = sent /\ delivered' = delivered
      BY <1>8 DEF CreatePreviewThread, controlTargets, controlFrame, streamVars
    <2>3. /\ pc'["usb"] = pc["usb"]
          /\ \A c \in CaptureThreads : Pending(c)' => Pending(c)
      BY <1>8, ThreadFacts DEF CreatePreviewThread, controlFrame, Pending, PcTypes,
         RestTypes
    <2>5. Number \in [Slots -> SUBSET Nat]
      BY NumberTyped
    <2>6. AtCapture' \subseteq AtCapture
      BY <2>1, <2>3, <2>5, SlotsApart DEF AtCapture
    <2>7. AtPreview' \subseteq AtPreview /\ AtCopy' \subseteq AtCopy
      BY <2>1, <2>2, <2>3, <2>5, SlotsApart, ThreadFacts DEF AtPreview, AtCopy
    <2> QED
      BY <2>1, <2>2, <2>6, <2>7, NumbersAre, OrderKept DEF SameFrames
  <1>9. ASSUME StartPreviewFailed
        PROVE  Order'
    <2>1. Number' = Number /\ Latest' = Latest /\ SameFrames
      <3>1. UNCHANGED <<frameVars, queueVars>>
        BY <1>9 DEF StartPreviewFailed, controlTargets, controlFrame, frameVars, queueVars
      <3> QED
        BY <3>1, NumbersKept DEF SameFrames, queueVars
    <2>2. sent' = sent /\ delivered' = delivered
      BY <1>9 DEF StartPreviewFailed, controlTargets, controlFrame, streamVars
    <2>3. /\ pc'["usb"] = pc["usb"]
          /\ \A c \in CaptureThreads : Pending(c)' => Pending(c)
      BY <1>9, ThreadFacts DEF StartPreviewFailed, Goto, controlFrame, Pending, PcTypes,
         RestTypes
    <2>5. Number \in [Slots -> SUBSET Nat]
      BY NumberTyped
    <2>6. AtCapture' \subseteq AtCapture
      BY <2>1, <2>3, <2>5, SlotsApart DEF AtCapture
    <2>7. AtPreview' \subseteq AtPreview /\ AtCopy' \subseteq AtCopy
      BY <2>1, <2>2, <2>3, <2>5, SlotsApart, ThreadFacts DEF AtPreview, AtCopy
    <2> QED
      BY <2>1, <2>2, <2>6, <2>7, NumbersAre, OrderKept DEF SameFrames
  <1>10. ASSUME ClearRunning
        PROVE  Order'
    <2>1. Number' = Number /\ Latest' = Latest /\ SameFrames
      <3>1. UNCHANGED <<frameVars, queueVars>>
        BY <1>10 DEF ClearRunning, controlTargets, controlFrame, frameVars, queueVars
      <3> QED
        BY <3>1, NumbersKept DEF SameFrames, queueVars
    <2>2. sent' = sent /\ delivered' = delivered
      BY <1>10 DEF ClearRunning, controlTargets, controlFrame, streamVars
    <2>3. /\ pc'["usb"] = pc["usb"]
          /\ \A c \in CaptureThreads : Pending(c)' => Pending(c)
      BY <1>10, ThreadFacts DEF ClearRunning, controlFrame, Pending, PcTypes, RestTypes
    <2>5. Number \in [Slots -> SUBSET Nat]
      BY NumberTyped
    <2>6. AtCapture' \subseteq AtCapture
      BY <2>1, <2>3, <2>5, SlotsApart DEF AtCapture
    <2>7. AtPreview' \subseteq AtPreview /\ AtCopy' \subseteq AtCopy
      BY <2>1, <2>2, <2>3, <2>5, SlotsApart, ThreadFacts DEF AtPreview, AtCopy
    <2> QED
      BY <2>1, <2>2, <2>6, <2>7, NumbersAre, OrderKept DEF SameFrames
  <1>11. ASSUME StopSignalPreview
        PROVE  Order'
    <2>1. Number' = Number /\ Latest' = Latest /\ SameFrames
      <3>1. UNCHANGED <<frameVars, queueVars>>
        BY <1>11 DEF StopSignalPreview, controlTargets, controlFrame, frameVars, queueVars
      <3> QED
        BY <3>1, NumbersKept DEF SameFrames, queueVars
    <2>2. sent' = sent /\ delivered' = delivered
      BY <1>11 DEF StopSignalPreview, controlTargets, controlFrame, streamVars
    <2>3. /\ pc'["usb"] = pc["usb"]
          /\ \A c \in CaptureThreads : Pending(c)' => Pending(c)
      BY <1>11, ThreadFacts DEF StopSignalPreview, Goto, controlFrame, Pending, PcTypes,
         RestTypes
    <2>5. Number \in [Slots -> SUBSET Nat]
      BY NumberTyped
    <2>6. AtCapture' \subseteq AtCapture
      BY <2>1, <2>3, <2>5, SlotsApart DEF AtCapture
    <2>7. AtPreview' \subseteq AtPreview /\ AtCopy' \subseteq AtCopy
      BY <2>1, <2>2, <2>3, <2>5, SlotsApart, ThreadFacts DEF AtPreview, AtCopy
    <2> QED
      BY <2>1, <2>2, <2>6, <2>7, NumbersAre, OrderKept DEF SameFrames
  <1>12. ASSUME StopSignalCapture
        PROVE  Order'
    <2>1. Number' = Number /\ Latest' = Latest /\ SameFrames
      <3>1. UNCHANGED <<frameVars, queueVars>>
        BY <1>12 DEF StopSignalCapture, controlTargets, controlFrame, frameVars, queueVars
      <3> QED
        BY <3>1, NumbersKept DEF SameFrames, queueVars
    <2>2. sent' = sent /\ delivered' = delivered
      BY <1>12 DEF StopSignalCapture, controlTargets, controlFrame, streamVars
    <2>3. /\ pc'["usb"] = pc["usb"]
          /\ \A c \in CaptureThreads : Pending(c)' => Pending(c)
      BY <1>12, ThreadFacts DEF StopSignalCapture, Goto, controlFrame, Pending, PcTypes,
         RestTypes
    <2>5. Number \in [Slots -> SUBSET Nat]
      BY NumberTyped
    <2>6. AtCapture' \subseteq AtCapture
      BY <2>1, <2>3, <2>5, SlotsApart DEF AtCapture
    <2>7. AtPreview' \subseteq AtPreview /\ AtCopy' \subseteq AtCopy
      BY <2>1, <2>2, <2>3, <2>5, SlotsApart, ThreadFacts DEF AtPreview, AtCopy
    <2> QED
      BY <2>1, <2>2, <2>6, <2>7, NumbersAre, OrderKept DEF SameFrames
  <1>13. ASSUME JoinCaptureThread
        PROVE  Order'
    <2>1. Number' = Number /\ Latest' = Latest /\ SameFrames
      <3>1. UNCHANGED <<frameVars, queueVars>>
        BY <1>13 DEF JoinCaptureThread, frameVars, queueVars
      <3> QED
        BY <3>1, NumbersKept DEF SameFrames, queueVars
    <2>2. sent' = sent /\ delivered' = delivered
      BY <1>13 DEF JoinCaptureThread, streamVars
    <2>3. /\ pc'["usb"] = pc["usb"]
          /\ \A c \in CaptureThreads : Pending(c)' => Pending(c)
      BY <1>13, ThreadFacts DEF JoinCaptureThread, Pending, PcTypes, RestTypes
    <2>5. Number \in [Slots -> SUBSET Nat]
      BY NumberTyped
    <2>6. AtCapture' \subseteq AtCapture
      BY <2>1, <2>3, <2>5, SlotsApart DEF AtCapture
    <2>7. AtPreview' \subseteq AtPreview /\ AtCopy' \subseteq AtCopy
      BY <2>1, <2>2, <2>3, <2>5, SlotsApart, ThreadFacts DEF AtPreview, AtCopy
    <2> QED
      BY <2>1, <2>2, <2>6, <2>7, NumbersAre, OrderKept DEF SameFrames
  <1>14. ASSUME JoinPreviewThread
        PROVE  Order'
    <2>1. Number' = Number /\ Latest' = Latest /\ SameFrames
      <3>1. UNCHANGED <<frameVars, queueVars>>
        BY <1>14 DEF JoinPreviewThread, controlTargets, controlFrame, frameVars, queueVars
      <3> QED
        BY <3>1, NumbersKept DEF SameFrames, queueVars
    <2>2. sent' = sent /\ delivered' = delivered
      BY <1>14 DEF JoinPreviewThread, controlTargets, controlFrame, streamVars
    <2>3. /\ pc'["usb"] = pc["usb"]
          /\ \A c \in CaptureThreads : Pending(c)' => Pending(c)
      BY <1>14, ThreadFacts DEF JoinPreviewThread, controlFrame, Pending, PcTypes, RestTypes
    <2>5. Number \in [Slots -> SUBSET Nat]
      BY NumberTyped
    <2>6. AtCapture' \subseteq AtCapture
      BY <2>1, <2>3, <2>5, SlotsApart DEF AtCapture
    <2>7. AtPreview' \subseteq AtPreview /\ AtCopy' \subseteq AtCopy
      BY <2>1, <2>2, <2>3, <2>5, SlotsApart, ThreadFacts DEF AtPreview, AtCopy
    <2> QED
      BY <2>1, <2>2, <2>6, <2>7, NumbersAre, OrderKept DEF SameFrames
  <1>15. ASSUME StopClearPreview
        PROVE  Order'
    <2>1. Number' = Number /\ Latest' = Latest /\ previewFrames' = <<>>
      BY <1>15, ClearPreviewNumbers DEF StopClearPreview
    <2>2. sent' = sent /\ delivered' = delivered
      BY <1>15 DEF StopClearPreview, streamVars
    <2>3. /\ pc'["usb"] = pc["usb"]
          /\ \A c \in CaptureThreads : Pending(c)' => Pending(c)
      BY <1>15, ThreadFacts DEF StopClearPreview, Goto, Pending, PcTypes, RestTypes
    <2>5. Number \in [Slots -> SUBSET Nat]
      BY NumberTyped
    <2>6. AtCapture' \subseteq AtCapture
      BY <2>1, <2>3, <2>5, SlotsApart DEF AtCapture
    <2>7. AtPreview' \subseteq AtPreview /\ AtCopy' \subseteq AtCopy
      BY <2>1, <2>2, <2>3, <2>5, SlotsApart, ThreadFacts DEF AtPreview, AtCopy
    <2> QED
      BY <2>1, <2>2, <2>6, <2>7, NumbersAre, OrderKept DEF SameFrames
  <1>16. ASSUME StopClearCapture
        PROVE  Order'
    <2>1. Number' = Number /\ Latest' = {} /\ SameFrames
      BY <1>16, ClearCaptureNumbers DEF StopClearCapture, ClearCaptureFrame, SameFrames
    <2>2. sent' = sent /\ delivered' = delivered
      BY <1>16 DEF StopClearCapture, streamVars
    <2>3. /\ pc'["usb"] = pc["usb"]
          /\ \A c \in CaptureThreads : Pending(c)' => Pending(c)
      BY <1>16, ThreadFacts DEF StopClearCapture, Goto, Pending, PcTypes, RestTypes
    <2>5. Number \in [Slots -> SUBSET Nat]
      BY NumberTyped
    <2>6. AtCapture' \subseteq AtCapture
      BY <2>1, <2>3, <2>5, SlotsApart DEF AtCapture
    <2>7. AtPreview' \subseteq AtPreview /\ AtCopy' \subseteq AtCopy
      BY <2>1, <2>2, <2>3, <2>5, SlotsApart, ThreadFacts DEF AtPreview, AtCopy
    <2> QED
      BY <2>1, <2>2, <2>6, <2>7, NumbersAre, OrderKept DEF SameFrames
  <1>17. ASSUME ReleasePreviewWindow
        PROVE  Order'
    <2>1. Number' = Number /\ Latest' = Latest /\ SameFrames
      <3>1. UNCHANGED <<frameVars, queueVars>>
        BY <1>17 DEF ReleasePreviewWindow, controlFrame, frameVars, queueVars
      <3> QED
        BY <3>1, NumbersKept DEF SameFrames, queueVars
    <2>2. sent' = sent /\ delivered' = delivered
      BY <1>17 DEF ReleasePreviewWindow, controlFrame, streamVars
    <2>3. /\ pc'["usb"] = pc["usb"]
          /\ \A c \in CaptureThreads : Pending(c)' => Pending(c)
      BY <1>17, ThreadFacts DEF ReleasePreviewWindow, Goto, controlFrame, Pending, PcTypes,
         RestTypes
    <2>5. Number \in [Slots -> SUBSET Nat]
      BY NumberTyped
    <2>6. AtCapture' \subseteq AtCapture
      BY <2>1, <2>3, <2>5, SlotsApart DEF AtCapture
    <2>7. AtPreview' \subseteq AtPreview /\ AtCopy' \subseteq AtCopy
      BY <2>1, <2>2, <2>3, <2>5, SlotsApart, ThreadFacts DEF AtPreview, AtCopy
    <2> QED
      BY <2>1, <2>2, <2>6, <2>7, NumbersAre, OrderKept DEF SameFrames
  <1>18. ASSUME ReleaseCaptureWindow
        PROVE  Order'
    <2>1. Number' = Number /\ Latest' = Latest /\ SameFrames
      <3>1. UNCHANGED <<frameVars, queueVars>>
        BY <1>18 DEF ReleaseCaptureWindow, controlFrame, frameVars, queueVars
      <3> QED
        BY <3>1, NumbersKept DEF SameFrames, queueVars
    <2>2. sent' = sent /\ delivered' = delivered
      BY <1>18 DEF ReleaseCaptureWindow, controlFrame, streamVars
    <2>3. /\ pc'["usb"] = pc["usb"]
          /\ \A c \in CaptureThreads : Pending(c)' => Pending(c)
      BY <1>18, ThreadFacts DEF ReleaseCaptureWindow, Goto, controlFrame, Pending, PcTypes,
         RestTypes
    <2>5. Number \in [Slots -> SUBSET Nat]
      BY NumberTyped
    <2>6. AtCapture' \subseteq AtCapture
      BY <2>1, <2>3, <2>5, SlotsApart DEF AtCapture
    <2>7. AtPreview' \subseteq AtPreview /\ AtCopy' \subseteq AtCopy
      BY <2>1, <2>2, <2>3, <2>5, SlotsApart, ThreadFacts DEF AtPreview, AtCopy
    <2> QED
      BY <2>1, <2>2, <2>6, <2>7, NumbersAre, OrderKept DEF SameFrames
  <1>19. ASSUME DeletePreview
        PROVE  Order'
    <2>1. Number' = Number /\ Latest' = {} /\ previewFrames' = <<>>
      BY <1>19, DeleteNumbers
    <2>2. sent' = sent /\ delivered' = delivered
      BY <1>19 DEF DeletePreview, streamVars
    <2>3. /\ pc'["usb"] = pc["usb"]
          /\ \A c \in CaptureThreads : Pending(c)' => Pending(c)
      BY <1>19, ThreadFacts DEF DeletePreview, Goto, Pending, PcTypes, RestTypes
    <2>5. Number \in [Slots -> SUBSET Nat]
      BY NumberTyped
    <2>6. AtCapture' \subseteq AtCapture
      BY <2>1, <2>3, <2>5, SlotsApart DEF AtCapture
    <2>7. AtPreview' \subseteq AtPreview /\ AtCopy' \subseteq AtCopy
      BY <2>1, <2>2, <2>3, <2>5, SlotsApart, ThreadFacts DEF AtPreview, AtCopy
    <2> QED
      BY <2>1, <2>2, <2>6, <2>7, NumbersAre, OrderKept DEF SameFrames
  <1> QED
    BY <1>1, <1>2, <1>3, <1>4, <1>5, <1>6, <1>7, <1>8, <1>9, <1>10, <1>11, <1>12, <1>13,
       <1>14, <1>15, <1>16, <1>17, <1>18, <1>19
    DEF Control

\* all stages are empty at first
LEMMA OrderInit == Init => Order
  <1> SUFFICES ASSUME Init
               PROVE  Order
    OBVIOUS
  <1>1. /\ sent = 0 /\ delivered = 0 /\ captureQueu = NULL /\ previewFrames = <<>>
        /\ \A s \in Slots : local[s] = NULL
        /\ pc["usb"] # "copy"
    BY ThreadFacts DEF Init
  <1>2. \A s \in Slots : Number[s] = {}
    BY <1>1 DEF Number
  <1>3. Len(previewFrames) = 0
    BY <1>1, EmptySeq
  <1>4. /\ AtCapture = {} /\ Latest = {} /\ AtPreview = {} /\ AtQueue = {} /\ AtCopy = {}
        /\ Increasing
    BY <1>1, <1>2, <1>3, SlotsApart
    DEF AtCapture, Latest, AtPreview, AtQueue, AtCopy, Increasing
  <1>5. At[0] = {0} /\ \A k \in 1 .. 5 : At[k] = {}
    <2>1. \A k \in 1 .. 5 : k = 1 \/ k = 2 \/ k = 3 \/ k = 4 \/ k = 5
      OBVIOUS
    <2> QED
      BY <1>1, <1>4, <2>1, StagesNow
  <1>6. Sorted(At, sent)
    BY <1>1, <1>5 DEF Sorted
  <1> QED
    BY <1>4, <1>6 DEF Order

\* Order is inductive
LEMMA OrderStep ==
    ASSUME ~Endless, IInv, Life, Life', OneRuns, Order, [Next]_vars
    PROVE  Order'
  <1>1. CASE Control \/ Usb \/ Preview
    BY <1>1, ControlOrder, UsbOrder, PreviewOrder
  <1>2. ASSUME NEW c \in CaptureThreads, Capture(c)
        PROVE  Order'
    BY <1>2, CaptureOrder
  <1>3. CASE SpuriousWakeup \/ UNCHANGED vars
    <2>1. /\ UNCHANGED <<frameVars, queueVars>> /\ pc' = pc
          /\ sent' = sent /\ delivered' = delivered
      BY <1>3 DEF SpuriousWakeup, vars, streamVars, frameVars, queueVars
    <2>2. Number' = Number /\ Latest' = Latest /\ SameFrames
      BY <2>1, NumbersKept DEF SameFrames, queueVars
    <2>3. AtCapture' = AtCapture /\ AtPreview' = AtPreview /\ AtCopy' = AtCopy
      BY <2>1, <2>2 DEF AtCapture, Pending, AtPreview, AtCopy
    <2> QED
      BY <2>1, <2>2, <2>3, NumbersAre, OrderKept DEF SameFrames
  <1> QED
    BY <1>1, <1>2, <1>3 DEF Next

-------------------------------------------------------------------------------
(* A step of the pipeline is a step of the channel, or nothing to it *)

InCall == \E c \in CaptureThreads : pc[c] = "onFrame"

\* a capture thread other than the current one is not in the callback
LEMMA OneInCall ==
    ASSUME OneRuns, NEW c \in CaptureThreads, pc[c] # "none"
    PROVE  \A d \in CaptureThreads \ {c} : pc[d] = "none"
  BY DEF OneRuns

\* the control, USB and preview threads do not enter the callback and do not end it
LEMMA OthersOutside ==
    ASSUME IInv, Life, Control \/ Usb \/ Preview
    PROVE  InCall' <=> InCall
  <1> USE DEF IInv, PcTypes
  <1> SUFFICES ASSUME NEW c \in CaptureThreads
               PROVE  pc'[c] = "onFrame" <=> pc[c] = "onFrame"
    BY DEF InCall
  <1>1. CASE Control
    <2>1. CASE JoinCaptureThread
      BY <2>1, ThreadFacts DEF JoinCaptureThread, RestTypes
    <2>2. CASE ~JoinCaptureThread
      BY <1>1, <2>2, ThreadFacts
      DEF Control, SetPreviewDisplay, SetCaptureDisplay, SetFrameCallback, StopPreview,
          FrameCallback, Sleep, SwapFrameCallback, SwapCaptureDisplay, Wake, StartPreview,
          CreatePreviewThread, StartPreviewFailed, ClearRunning, StopSignalPreview,
          StopSignalCapture, JoinPreviewThread, StopClearPreview, StopClearCapture,
          ReleasePreviewWindow, ReleaseCaptureWindow, DeletePreview, Goto
    <2> QED
      BY <2>1, <2>2
  <1>2. CASE Usb
    BY <1>2, ThreadFacts
    DEF Usb, DeliverFrame, CopyFrame, AddPreviewFrame, RecycleCopy, Goto
  <1>3. CASE Preview
    <2>1. CASE CreateCaptureThread
      BY <2>1, ThreadFacts DEF CreateCaptureThread
    <2>2. CASE ~CreateCaptureThread
      BY <1>3, <2>2, ThreadFacts
      DEF Preview, PreparePreview, StartStreaming, ClearStalePreview, PreviewLoop,
          WaitPreviewFrame, WakePreviewFrame, TakePreviewFrame, DecodeFrame, RecycleMjpeg,
          DropFrame, DrawIfWindow, ConvertPreview, ShowPreview, AddCaptureFrame,
          PreviewSignal, StopStreaming, Goto
    <2> QED
      BY <2>1, <2>2
  <1> QED
    BY <1>1, <1>2, <1>3

\* and only the USB thread brings in a frame
LEMMA OthersDeliverNone ==
    ASSUME Control \/ Preview \/ (Usb /\ ~DeliverFrame)
    PROVE  sent' = sent /\ delivered' = delivered
  <1>1. CASE Control
    BY <1>1
    DEF Control, SetPreviewDisplay, SetCaptureDisplay, SetFrameCallback, StopPreview,
        FrameCallback, SwapFrameCallback, SwapCaptureDisplay, Wake, StartPreview,
        CreatePreviewThread, StartPreviewFailed, ClearRunning, StopSignalPreview,
        StopSignalCapture, JoinCaptureThread, JoinPreviewThread, StopClearPreview,
        StopClearCapture, ReleasePreviewWindow, ReleaseCaptureWindow, DeletePreview,
        controlTargets, controlFrame, streamVars
  <1>2. CASE Preview
    BY <1>2
    DEF Preview, PreparePreview, StartStreaming, ClearStalePreview, CreateCaptureThread,
        PreviewLoop, WaitPreviewFrame, WakePreviewFrame, DecodeFrame, RecycleMjpeg,
        DropFrame, DrawIfWindow, ConvertPreview, ShowPreview, AddCaptureFrame,
        PreviewSignal, StopStreaming, previewLocal, previewFrame
  <1>3. CASE Usb /\ ~DeliverFrame
    BY <1>3 DEF Usb, CopyFrame, AddPreviewFrame, RecycleCopy, usbFrame
  <1> QED
    BY <1>1, <1>2, <1>3

\* what the capture thread does besides calling onFrame and returning from it
LEMMA CaptureOutside ==
    ASSUME IInv, Life, NEW c \in CaptureThreads, Capture(c), ~CallOnFrame(c), ~ReturnOnFrame(c)
    PROVE  sent' = sent /\ delivered' = delivered /\ (InCall' <=> InCall)
  <1>1. sent' = sent /\ delivered' = delivered
    BY DEF Capture, CaptureBegin, CaptureOuter, CaptureArm, CaptureChoose, CaptureLoop,
           WaitCaptureFrame, WakeCaptureFrame, CaptureTaken, RenderCapture, CopyToSurface,
           Posted, CaptureCallback, ConvertCallback, RecycleConverted, RecycleCallback,
           SurfaceEnd, SurfaceRelease, CaptureBroadcast, captureBuffers, captureFrame,
           streamVars
  <1>2. /\ \A t \in Threads \ {c} : pc'[t] = pc[t]
        /\ pc[c] # "onFrame" /\ pc'[c] # "onFrame"
    BY ThreadFacts
    DEF IInv, PcTypes, Goto, Capture, CaptureBegin, CaptureOuter, CaptureArm, CaptureChoose,
        CaptureLoop, WaitCaptureFrame, WakeCaptureFrame, TakeCaptureFrame, CaptureTaken,
        RenderCapture, CopyToSurface, Posted, CaptureCallback, ConvertCallback,
        RecycleConverted, RecycleCallback, SurfaceEnd, SurfaceRelease, CaptureBroadcast
  <1>3. InCall' <=> InCall
    BY <1>2, ThreadFacts DEF InCall
  <1> QED
    BY <1>1, <1>3

\* The camera's step is Send, the call of onFrame Deliver and its end Return.
LEMMA ChannelStep ==
    ASSUME ~Endless, IInv, Life, OneRuns, Order, [Next]_vars
    PROVE  [Channel!Next]_(Channel!vars)
  <1>1. ASSUME UNCHANGED <<sent, delivered>>, InCall' <=> InCall
        PROVE  UNCHANGED Channel!vars
    BY <1>1 DEF Channel!vars, InCall
  <1>2. CASE DeliverFrame
    <2>1. sent' = sent + 1 /\ delivered' = delivered
      BY <1>2 DEF DeliverFrame, usbFrame
    <2>2. InCall' <=> InCall
      BY <1>2, OthersOutside DEF Usb
    <2> QED
      BY <2>1, <2>2 DEF Channel!Next, Channel!Send, InCall
  <1>3. CASE Control \/ Preview \/ (Usb /\ ~DeliverFrame)
    BY <1>1, <1>3, OthersOutside, OthersDeliverNone
  <1>4. ASSUME NEW c \in CaptureThreads, CallOnFrame(c)
        PROVE  Channel!Deliver
    <2>1. /\ pc[c] = "call" /\ pc'[c] = "onFrame" /\ sent' = sent
      BY <1>4, ThreadFacts DEF CallOnFrame, Goto, captureFrame, IInv, PcTypes
    <2>2. ~InCall /\ InCall'
      BY <2>1, OneInCall DEF InCall
    <2>3. delivered < delivered' /\ delivered' <= sent /\ delivered' \in Nat
      <3>1. delivered' \in At[1] /\ delivered \in At[0]
        BY <1>4, CallOnFrameOrder, StagesNow
      <3> QED
        BY <3>1, NumbersAre DEF Order, Sorted
    <2>4. delivered' \in delivered + 1 .. sent
      BY <2>3, NumbersAre
    <2> QED
      BY <2>1, <2>2, <2>4 DEF Channel!Deliver, InCall
  <1>5. ASSUME NEW c \in CaptureThreads, ReturnOnFrame(c)
        PROVE  Channel!Return
    <2>1. /\ pc[c] = "onFrame" /\ pc'[c] = "recycle" /\ sent' = sent /\ delivered' = delivered
          /\ \A t \in Threads \ {c} : pc'[t] = pc[t]
      BY <1>5, ThreadFacts DEF ReturnOnFrame, Goto, captureFrame, IInv, PcTypes
    <2>2. InCall /\ ~InCall'
      BY <2>1, OneInCall, ThreadFacts DEF InCall
    <2> QED
      BY <2>1, <2>2 DEF Channel!Return, InCall
  <1>6. ASSUME NEW c \in CaptureThreads, Capture(c)
        PROVE  [Channel!Next]_(Channel!vars)
    BY <1>1, <1>4, <1>5, <1>6, CaptureOutside DEF Channel!Next
  <1>7. CASE SpuriousWakeup \/ UNCHANGED vars
    BY <1>1, <1>7 DEF SpuriousWakeup, vars, streamVars, InCall
  <1> QED
    BY <1>2, <1>3, <1>6, <1>7 DEF Next

\* The pipeline is a lossy channel: onFrame is called with newer and newer frames
\* of the camera and one at a time, through both queues, both conversions and the
\* reuse of the buffers (384-442, 520-546, 696-739, 841-871), for queues of any
\* length, any number of buffers and any interleaving of the setters, if the
\* application lets every preview begin to stream before it stops it, or starts
\* one preview only.
THEOREM PreviewIsChannel ==
    ASSUME ~EarlyStop \/ MaxStarts <= 1, ~Endless
    PROVE  Spec => ImplementsChannel
  <1>1. Init => IInv /\ Life /\ Order
    BY IInvInit, LifeInit, OrderInit
  <1>2. IInv /\ Life /\ OneRuns /\ Order /\ [Next]_vars => (IInv /\ Life /\ Order)'
    BY IInvStep, LifeStep, OrderStep
  <1>3. Init => Channel!Init
    BY ThreadFacts DEF Init, Channel!Init
  <1>4. IInv /\ Life /\ OneRuns /\ Order /\ [Next]_vars => [Channel!Next]_(Channel!vars)
    BY ChannelStep
  <1>5. Spec => []OneRuns
    BY OneRunsAlways
  <1> QED
    BY <1>1, <1>2, <1>3, <1>4, <1>5, PTL DEF Spec, ImplementsChannel, Channel!Spec

===============================================================================
