------------------------------- MODULE Recording -------------------------------
(***************************************************************************)
(* Recording to a file: the recording half of CameraHandler's CameraThread,  *)
(* MediaVideoEncoder with its MediaEncoder, and MediaMuxerWrapper.  A         *)
(* recording has its own encoder, encoder thread and muxer.  Only the video   *)
(* encoder is ever created (CameraHandler.java 319-322).                      *)
(*                                                                         *)
(*   "camera"    the handler thread, runs handleStart/StopRecording          *)
(*   "callback"  the native capture thread, calls onFrame                    *)
(*   1, 2, ...   MediaEncoder.run of each recording                          *)
(*                                                                         *)
(* A synchronized block is one step, as is every access to a field outside.  *)
(***************************************************************************)
EXTENDS Integers, Sequences, FiniteSets

CONSTANTS
    Faults,        \* opening the file or the codec may fail
    Collectable,   \* bound: the recordings whose muxer may be garbage collected
    Inputs,        \* input buffers of the codec
    MaxMessages,   \* bound: recording messages waiting for the camera thread
    MaxFrames,     \* bound: frames given to onFrame while recording
    MaxRecordings  \* bound: recordings

ASSUME RecordingAssumption ==
    /\ Faults \in BOOLEAN /\ Collectable \subseteq Nat
    /\ {Inputs, MaxMessages, MaxFrames, MaxRecordings} \subseteq Nat \ {0}

Recordings == 1..MaxRecordings
None == 0
EOS == 0     \* the empty buffer with BUFFER_FLAG_END_OF_STREAM

VARIABLES
    messages, mMuxer, videoEncoder, mIsRecording,           \* CameraHandler
    made,                                                  \* recordings created
    mIsCapturing, mRequestStop, mRequestDrain, mIsEOS,      \* MediaEncoder
    mMuxerStarted,
    codec, input, encoded, drained, formatted,              \* its MediaCodec
    mStatredCount, mIsStarted,                             \* MediaMuxerWrapper
    collected,                                             \* mWeakMuxer has been cleared
    muxer, tracks, file,                                   \* its MediaMuxer
    camera, callback, pc,                                  \* where the threads are
    shown, target                                          \* onFrame's frame, encoder

handlerVars == <<mMuxer, videoEncoder, made>>
encoderVars == <<mIsEOS, mMuxerStarted>>
codecVars   == <<codec, input, encoded, drained, formatted>>
muxerVars   == <<mStatredCount, mIsStarted, collected, muxer, tracks, file>>
frameVars   == <<callback, shown, target>>
vars == <<messages, handlerVars, mIsRecording, mIsCapturing, mRequestStop, mRequestDrain,
          encoderVars, codecVars, muxerVars, camera, pc, frameVars>>

Init ==
    /\ messages = <<>> /\ mMuxer = None /\ videoEncoder = None /\ made = 0
    /\ mIsRecording = FALSE
    /\ mIsCapturing = [r \in Recordings |-> FALSE]
    /\ mRequestStop = [r \in Recordings |-> FALSE]
    /\ mRequestDrain = [r \in Recordings |-> 0]
    /\ mIsEOS = [r \in Recordings |-> FALSE]
    /\ mMuxerStarted = [r \in Recordings |-> FALSE]
    /\ codec = [r \in Recordings |-> "none"]
    /\ input = [r \in Recordings |-> <<>>]
    /\ encoded = [r \in Recordings |-> 0] /\ drained = [r \in Recordings |-> 0]
    /\ formatted = [r \in Recordings |-> FALSE]
    /\ mStatredCount = [r \in Recordings |-> 0]
    /\ mIsStarted = [r \in Recordings |-> FALSE]
    /\ collected = [r \in Recordings |-> FALSE]
    /\ muxer = [r \in Recordings |-> "initialized"]
    /\ tracks = [r \in Recordings |-> {}]
    /\ file = [r \in Recordings |-> <<>>]
    /\ camera = "idle" /\ callback = "idle"
    /\ pc = [r \in Recordings |-> "none"]
    /\ shown = 0 /\ target = None

\* mSync.notifyAll(): the encoder thread of recording r wakes
NotifyAll(r) == pc' = [pc EXCEPT ![r] = IF @ = "asleep" THEN "check" ELSE @]
Goto(r, from, to) == pc[r] = from /\ pc' = [pc EXCEPT ![r] = to]

-------------------------------------------------------------------------------
(* The application and the camera thread *)

Starts == {i \in DOMAIN messages : messages[i] = "start"}

\* The app's thread is in stopPreview, which waits for the camera thread.
InStopPreview == "stopPreview" \in {messages[i] : i \in DOMAIN messages}

Send(ms) ==
    /\ ~InStopPreview
    /\ Len(messages \o ms) <= MaxMessages
    /\ messages' = messages \o ms
    /\ UNCHANGED <<handlerVars, mIsRecording, mIsCapturing, mRequestStop, mRequestDrain,
                   encoderVars, codecVars, muxerVars, camera, pc, frameVars>>

\* the app asks isRecording() first
StartRecording ==
    /\ ~mIsRecording
    /\ made + Cardinality(Starts) < MaxRecordings
    /\ Send(<<"start">>)
StopRecording == mIsRecording /\ Send(<<"stop">>)
StopPreview == Send(<<"stop", "stopPreview">>)

HandlesNext(m) == camera = "idle" /\ messages # <<>> /\ Head(messages) = m
Ignored ==
    /\ messages' = Tail(messages)
    /\ UNCHANGED <<handlerVars, mIsRecording, mIsCapturing, mRequestStop, mRequestDrain,
                   encoderVars, codecVars, muxerVars, camera, pc, frameVars>>

(* handleStartRecording up to the constructor of the encoder, which returns once *)
(* the encoder's thread has begun.                                            *)
HandleStartRecording ==
    /\ HandlesNext("start")
    /\ \/ mMuxer # None /\ Ignored
       \/ mMuxer = None /\ Faults /\ Ignored
       \/ /\ mMuxer = None
          /\ messages' = Tail(messages)
          /\ made' = made + 1
          /\ mMuxer' = made' /\ videoEncoder' = made'
          /\ camera' = "prepare" /\ pc' = [pc EXCEPT ![made'] = "check"]
          /\ UNCHANGED <<mIsRecording, mIsCapturing, mRequestStop, mRequestDrain,
                         encoderVars, codecVars, muxerVars, frameVars>>

\* prepare: the codec runs, onPrepared is called; or an IOException leaves mMuxer set
Prepare ==
    /\ camera = "prepare"
    /\ \/ /\ codec' = [codec EXCEPT ![mMuxer] = "running"]
          /\ mIsRecording' = TRUE
          /\ camera' = "start"
       \/ /\ Faults
          /\ camera' = "idle"
          /\ UNCHANGED <<codec, mIsRecording>>
    /\ UNCHANGED <<messages, handlerVars, mIsCapturing, mRequestStop, mRequestDrain,
                   encoderVars, input, encoded, drained, formatted, muxerVars, pc, frameVars>>

\* MediaEncoder.startRecording
StartEncoder ==
    /\ camera = "start" /\ camera' = "idle"
    /\ mIsCapturing' = [mIsCapturing EXCEPT ![mMuxer] = TRUE]
    /\ mRequestStop' = [mRequestStop EXCEPT ![mMuxer] = FALSE]
    /\ NotifyAll(mMuxer)
    /\ UNCHANGED <<messages, handlerVars, mIsRecording, mRequestDrain, encoderVars,
                   codecVars, muxerVars, frameVars>>

\* MediaEncoder.stopRecording
StopEncoder(r) ==
    IF mIsCapturing[r] /\ ~mRequestStop[r]
      THEN /\ mRequestStop' = [mRequestStop EXCEPT ![r] = TRUE]
           /\ NotifyAll(r)
      ELSE UNCHANGED <<mRequestStop, pc>>

\* slip: the recording counts as stopped at once
HandleStopAtOnce ==
    /\ HandlesNext("stop") /\ mMuxer # None
    /\ StopEncoder(mMuxer)
    /\ messages' = Tail(messages) /\ mMuxer' = None /\ mIsRecording' = FALSE
    /\ UNCHANGED <<videoEncoder, made, camera, mIsCapturing, mRequestDrain,
                   encoderVars, codecVars, muxerVars, frameVars>>

HandleStopRecording ==
    /\ HandlesNext("stop")
    /\ IF mMuxer = None THEN UNCHANGED <<mRequestStop, pc>> ELSE StopEncoder(mMuxer)
    /\ messages' = Tail(messages) /\ mMuxer' = None
    /\ UNCHANGED <<videoEncoder, made, camera, mIsRecording, mIsCapturing, mRequestDrain,
                   encoderVars, codecVars, muxerVars, frameVars>>

\* notifies the app; UVCPreview models the rest of it
HandleStopPreview == HandlesNext("stopPreview") /\ Ignored

Camera == HandleStartRecording \/ Prepare \/ StartEncoder \/ HandleStopRecording \/ HandleStopPreview

-------------------------------------------------------------------------------
(* onFrame and encodeFrame.  An exception in them is cleared (UVCPreview.cpp 864). *)

callbackFrame == <<messages, handlerVars, camera, mIsRecording, mIsCapturing, mRequestStop,
                   encoderVars, codec, encoded, drained, formatted, muxerVars>>
CallbackGoto(from, to) == callback = from /\ callback' = to

\* a frame that is shown while nothing is recorded changes nothing
OnFrame ==
    /\ mIsRecording /\ shown < MaxFrames
    /\ CallbackGoto("idle", "read")
    /\ shown' = shown + 1
    /\ UNCHANGED <<callbackFrame, mRequestDrain, input, target, pc>>

ReadEncoder ==
    /\ CallbackGoto("read", "encode")
    /\ target' = videoEncoder
    /\ UNCHANGED <<callbackFrame, mRequestDrain, input, shown, pc>>

Room(r) == Len(input[r]) - encoded[r] < Inputs

EncodeFrame ==
    /\ callback = "encode"
    /\ \/ /\ codec[target] = "running" /\ callback' = "notify"
          /\ input' = IF Room(target) THEN [input EXCEPT ![target] = Append(@, shown)] ELSE input
          /\ UNCHANGED target
       \/ /\ codec[target] # "running" /\ callback' = "idle"
          /\ target' = None
          /\ UNCHANGED input
    /\ UNCHANGED <<callbackFrame, mRequestDrain, shown, pc>>

FrameAvailableSoon ==
    /\ CallbackGoto("notify", "idle")
    /\ IF mIsCapturing[target] /\ ~mRequestStop[target]
         THEN /\ mRequestDrain' = [mRequestDrain EXCEPT ![target] = @ + 1]
              /\ NotifyAll(target)
         ELSE UNCHANGED <<mRequestDrain, pc>>
    /\ target' = None
    /\ UNCHANGED <<callbackFrame, input, shown>>

Callback == OnFrame \/ ReadEncoder \/ EncodeFrame \/ FrameAvailableSoon

-------------------------------------------------------------------------------
(* The thread of an encoder *)

runFrame == <<messages, handlerVars, camera, frameVars>>

\* the head of the loop in run
CheckRequests(r) ==
    /\ pc[r] = "check"
    /\ pc' = [pc EXCEPT ![r] = CASE mRequestStop[r]      -> "drainFirst"
                                 [] mRequestDrain[r] > 0 -> "drain"
                                 [] OTHER                -> "sleep"]
    /\ mRequestDrain' = [mRequestDrain EXCEPT ![r] = IF @ > 0 THEN @ - 1 ELSE @]
    /\ UNCHANGED <<runFrame, mIsRecording, mIsCapturing, mRequestStop, encoderVars,
                   codecVars, muxerVars>>

\* mSync.wait() in a synchronized block of its own: the requests are not looked at again
Sleep(r) ==
    /\ Goto(r, "sleep", "asleep")
    /\ UNCHANGED <<runFrame, mIsRecording, mIsCapturing, mRequestStop, mRequestDrain,
                   encoderVars, codecVars, muxerVars>>

Drains(r) == pc[r] \in {"drain", "drainFirst", "drainLast"}
AfterDrain(r) == [drain |-> "check", drainFirst |-> "signal", drainLast |-> "onStopped"][pc[r]]

\* addTrack has been called, start has not
Starting(r) == mMuxerStarted[r] /\ mStatredCount[r] = 0
Loops(r) == Drains(r) /\ ~collected[r] /\ mIsCapturing[r]
Ready(r) == drained[r] < encoded[r]
Output(r) == input[r][drained[r] + 1]

\* no muxer any more, no output for 50 ms, or mIsCapturing false
LeaveDrain(r) ==
    /\ Drains(r) /\ ~Starting(r)
    /\ collected[r] \/ ~mIsCapturing[r] \/ (~Ready(r) /\ ~mIsEOS[r])
    /\ pc' = [pc EXCEPT ![r] = AfterDrain(r)]
    /\ UNCHANGED <<runFrame, mIsRecording, mIsCapturing, mRequestStop, mRequestDrain,
                   encoderVars, codecVars, muxerVars>>

\* INFO_OUTPUT_FORMAT_CHANGED comes before the first data
AddTrack(r) ==
    /\ Loops(r) /\ Ready(r)
    /\ ~formatted[r] /\ Output(r) # EOS
    /\ formatted' = [formatted EXCEPT ![r] = TRUE]
    /\ tracks' = [tracks EXCEPT ![r] = @ \cup {"video"}]
    /\ mMuxerStarted' = [mMuxerStarted EXCEPT ![r] = TRUE]
    /\ UNCHANGED <<runFrame, mIsRecording, mIsCapturing, mRequestStop, mRequestDrain, mIsEOS,
                   codec, input, encoded, drained, mStatredCount, mIsStarted, collected, muxer,
                   file, pc>>

\* slip: compares before it counts
StartTooEarly(r) ==
    IF mStatredCount[r] = 1
      THEN /\ muxer' = [muxer EXCEPT ![r] = "started"]
           /\ mIsStarted' = [mIsStarted EXCEPT ![r] = TRUE]
      ELSE UNCHANGED <<muxer, mIsStarted>>

\* mStatredCount == mEncoderCount, and mEncoderCount is 1
StartIfAllReady(r) ==
    IF mStatredCount'[r] = 1
      THEN /\ muxer' = [muxer EXCEPT ![r] = "started"]
           /\ mIsStarted' = [mIsStarted EXCEPT ![r] = TRUE]
      ELSE UNCHANGED <<muxer, mIsStarted>>

\* MediaMuxerWrapper.start; with one encoder it never returns false
StartMuxer(r) ==
    /\ Loops(r) /\ Starting(r)
    /\ mStatredCount' = [mStatredCount EXCEPT ![r] = @ + 1]
    /\ StartIfAllReady(r)
    /\ UNCHANGED <<runFrame, mIsRecording, mIsCapturing, mRequestStop, mRequestDrain,
                   encoderVars, codecVars, collected, tracks, file, pc>>

WriteSampleData(r) ==
    /\ Loops(r) /\ ~Starting(r) /\ Ready(r)
    /\ formatted[r] /\ Output(r) # EOS
    /\ drained' = [drained EXCEPT ![r] = @ + 1]
    /\ file' = IF mStatredCount[r] > 0 THEN [file EXCEPT ![r] = Append(@, Output(r))] ELSE file
    /\ UNCHANGED <<runFrame, mIsRecording, mIsCapturing, mRequestStop, mRequestDrain,
                   encoderVars, codec, input, encoded, formatted, mStatredCount, mIsStarted,
                   collected, muxer, tracks, pc>>

\* slip: mIsCapturing stays
IgnoreEnd(r) == UNCHANGED <<mIsCapturing, pc>>
EndCapturing(r) ==
    /\ mIsCapturing' = [mIsCapturing EXCEPT ![r] = FALSE]
    /\ pc' = [pc EXCEPT ![r] = AfterDrain(r)]

\* the buffer with BUFFER_FLAG_END_OF_STREAM
DrainEnd(r) ==
    /\ Loops(r) /\ ~Starting(r) /\ Ready(r)
    /\ Output(r) = EOS
    /\ drained' = [drained EXCEPT ![r] = @ + 1]
    /\ EndCapturing(r)
    /\ UNCHANGED <<runFrame, mIsRecording, mRequestStop, mRequestDrain, encoderVars,
                   codec, input, encoded, formatted, muxerVars>>

Drain(r) ==
    LeaveDrain(r) \/ AddTrack(r) \/ StartMuxer(r) \/ WriteSampleData(r) \/ DrainEnd(r)

\* slip: the end is not waited for
SignalOnly(r) == Goto(r, "signal", "onStopped")
SignalAndDrain(r) == Goto(r, "signal", "drainLast")

\* signalEndOfInputStream: encode(null, 0, ...) waits for an input buffer
SignalEndOfInputStream(r) ==
    /\ Room(r)
    /\ SignalAndDrain(r)
    /\ input' = [input EXCEPT ![r] = Append(@, EOS)]
    /\ mIsEOS' = [mIsEOS EXCEPT ![r] = TRUE]
    /\ UNCHANGED <<runFrame, mIsRecording, mIsCapturing, mRequestStop, mRequestDrain,
                   mMuxerStarted, codec, encoded, drained, formatted, muxerVars>>

OnStopped(r) ==
    /\ Goto(r, "onStopped", "release")
    /\ mIsRecording' = FALSE
    /\ UNCHANGED <<runFrame, mIsCapturing, mRequestStop, mRequestDrain, encoderVars,
                   codecVars, muxerVars>>

\* the rest of release
Release(r) ==
    /\ Goto(r, "release", "stopMuxer")
    /\ mIsCapturing' = [mIsCapturing EXCEPT ![r] = FALSE]
    /\ codec' = [codec EXCEPT ![r] = "released"]
    /\ UNCHANGED <<runFrame, mIsRecording, mRequestStop, mRequestDrain, encoderVars,
                   input, encoded, drained, formatted, muxerVars>>

\* slip: stopped whether or not it was started
StopsAlways(r) == TRUE
Stops(r) == mMuxerStarted[r] /\ ~collected[r]

StopMuxer(r) ==
    /\ Goto(r, "stopMuxer", "exit")
    /\ IF Stops(r)
         THEN /\ mStatredCount' = [mStatredCount EXCEPT ![r] = @ - 1]
              /\ IF mStatredCount'[r] <= 0
                   THEN /\ muxer' = [muxer EXCEPT ![r] = "released"]
                        /\ mIsStarted' = [mIsStarted EXCEPT ![r] = FALSE]
                   ELSE UNCHANGED <<muxer, mIsStarted>>
         ELSE UNCHANGED <<mStatredCount, muxer, mIsStarted>>
    /\ UNCHANGED <<runFrame, mIsRecording, mIsCapturing, mRequestStop, mRequestDrain,
                   encoderVars, codecVars, collected, tracks, file>>

\* the end of run
Exit(r) ==
    /\ Goto(r, "exit", "exited")
    /\ mRequestStop' = [mRequestStop EXCEPT ![r] = TRUE]
    /\ mIsCapturing' = [mIsCapturing EXCEPT ![r] = FALSE]
    /\ UNCHANGED <<runFrame, mIsRecording, mRequestDrain, encoderVars, codecVars, muxerVars>>

(* The muxer is held by mMuxer, by the encoder only weakly, and by the local     *)
(* variable of drain and release while they run.  The garbage collector takes it; *)
(* its finalizer does not stop the MediaMuxer, so the file is not completed.      *)
(* Only whether it is gone when mWeakMuxer is read next matters.                  *)
Collect(r) ==
    /\ r \in Collectable /\ r <= made /\ mMuxer # r /\ ~collected[r]
    /\ pc[r] \in {"check", "signal", "stopMuxer"}
    /\ collected' = [collected EXCEPT ![r] = TRUE]
    /\ UNCHANGED <<runFrame, mIsRecording, mIsCapturing, mRequestStop, mRequestDrain,
                   encoderVars, codecVars, mStatredCount, mIsStarted, muxer, tracks, file, pc>>

SpuriousWakeup(r) ==
    /\ Goto(r, "asleep", "check")
    /\ UNCHANGED <<runFrame, mIsRecording, mIsCapturing, mRequestStop, mRequestDrain,
                   encoderVars, codecVars, muxerVars>>

Run(r) ==
    \/ CheckRequests(r) \/ Sleep(r) \/ Drain(r) \/ SignalEndOfInputStream(r)
    \/ OnStopped(r) \/ Release(r) \/ StopMuxer(r) \/ Exit(r)

\* the codec turns one more input buffer into an output buffer
Encode(r) ==
    /\ codec[r] = "running" /\ encoded[r] < Len(input[r])
    /\ encoded' = [encoded EXCEPT ![r] = @ + 1]
    /\ UNCHANGED <<runFrame, mIsRecording, mIsCapturing, mRequestStop, mRequestDrain,
                   encoderVars, codec, input, drained, formatted, muxerVars, pc>>

-------------------------------------------------------------------------------
Next ==
    \/ StartRecording \/ StopRecording \/ StopPreview
    \/ Camera \/ Callback
    \/ \E r \in Recordings : Run(r) \/ Encode(r) \/ Collect(r) \/ SpuriousWakeup(r)

Spec == Init /\ [][Next]_vars

Awake(r) == pc[r] \notin {"none", "asleep", "exited"}

\* The encoder threads are scheduled and the codec works; nothing else need go on.
Fairness == \A r \in Recordings : WF_vars(Awake(r) /\ Run(r)) /\ WF_vars(Encode(r))

LiveSpec == Spec /\ Fairness

-------------------------------------------------------------------------------
(* Properties *)

\* Types of the fields; a muxer is not stopped more often than started (124-148).
TypeOK ==
    /\ messages \in Seq({"start", "stop", "stopPreview"}) /\ Len(messages) <= MaxMessages
    /\ {mMuxer, videoEncoder, target, made} \subseteq 0..MaxRecordings
    /\ mIsRecording \in BOOLEAN
    /\ {mIsCapturing, mRequestStop, mIsEOS, mMuxerStarted, formatted, mIsStarted}
          \subseteq [Recordings -> BOOLEAN]
    /\ mRequestDrain \in [Recordings -> 0..MaxFrames]
    /\ codec \in [Recordings -> {"none", "running", "released"}]
    /\ \A r \in Recordings : drained[r] <= encoded[r] /\ encoded[r] <= Len(input[r])
    /\ mStatredCount \in [Recordings -> 0..1]
    /\ \A r \in Recordings : mIsStarted[r] <=> muxer[r] = "started"
    /\ shown \in 0..MaxFrames

\* Every muxer is driven as MediaMuxer asks for: no sample is written before it is
\* started or after it is stopped, a file that was begun is closed once
\* (MediaEncoder 286-378, MediaMuxerWrapper 124-172).
Muxer == INSTANCE MuxerContract
    WITH Muxers <- Recordings, Tracks <- {"video"}, Samples <- 1..MaxFrames, state <- muxer
ImplementsMuxer == Muxer!Spec

\* When the thread of a recording has ended and its muxer was not collected, its file
\* holds every frame the codec took before the end of the stream, in order, and is
\* closed (129-173, 212-240).
NothingLost ==
    \A r \in Recordings : pc[r] = "exited" /\ ~collected[r] =>
        /\ \E n \in DOMAIN input[r] :
              input[r][n] = EOS /\ file[r] = SubSeq(input[r], 1, n - 1)
        /\ file[r] # <<>> => muxer[r] = "released"

\* isRecording() tells the truth to an app that asks it before it starts or stops
\* (README.md 33-42): no late onStopped of an earlier recording clears the flag of
\* the one that is running, or the app could never stop that one (342-352).
FlagFollows ==
    mMuxer # None /\ codec[mMuxer] = "running" => mIsRecording

\* Once the encoder's thread has seen the stop it finishes, if encodeFrame comes to queue
\* no more frames (151-160, 291-378).  It does not see to that itself: after
\* mRequestStop, which is "for rejecting newer frame" (197), isRecording() is true until
\* onStopped, onFrame goes on to encode (CameraHandler 438), and drain, which counts
\* anew with every output it finds, may never come to its end.
FinishesOnceSeen ==
    <>[][EncodeFrame => UNCHANGED input]_vars =>
        \A r \in Recordings : pc[r] = "drainFirst" ~> pc[r] = "exited"

\* "We can not know when the encoding and writing finish" (202): they do.
StopFinishes ==
    \A r \in Recordings : mRequestStop[r] ~> pc[r] = "exited"

===============================================================================
