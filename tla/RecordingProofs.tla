--------------------------- MODULE RecordingProofs ---------------------------
(***************************************************************************)
(* Proofs about Recording for any number of recordings, frames, input buffers *)
(* and waiting messages, with faults and a collector that takes any muxer.    *)
(***************************************************************************)
EXTENDS Recording, FiniteSetTheorems, SequenceTheorems, TLAPS

Messages     == {"start", "stop", "stopPreview"}
Frames       == 0 .. MaxFrames      \* what is queued: a frame or EOS
RunPlaces    == {"none", "check", "sleep", "asleep", "drain", "drainFirst", "signal",
                 "drainLast", "onStopped", "release", "stopMuxer", "exit", "exited"}
CameraPlaces == {"idle", "prepare", "start"}
CallPlaces   == {"idle", "read", "encode", "notify"}

-------------------------------------------------------------------------------
(* The inductive invariant *)

StartsOf(ms) == {i \in DOMAIN ms : ms[i] = "start"}

HandlerTypes ==
    /\ messages \in Seq(Messages) /\ Len(messages) <= MaxMessages
    /\ made \in 0 .. MaxRecordings /\ videoEncoder = made /\ mMuxer \in {None, made}
    /\ made + Cardinality(StartsOf(messages)) <= MaxRecordings
    /\ mIsRecording \in BOOLEAN
    /\ camera \in CameraPlaces /\ callback \in CallPlaces
    /\ shown \in 0 .. MaxFrames /\ target \in 0 .. MaxRecordings

RunTypes ==
    /\ pc \in [Recordings -> RunPlaces]
    /\ mIsCapturing \in [Recordings -> BOOLEAN]
    /\ mRequestStop \in [Recordings -> BOOLEAN]
    /\ mIsEOS \in [Recordings -> BOOLEAN]
    /\ mMuxerStarted \in [Recordings -> BOOLEAN]
    /\ formatted \in [Recordings -> BOOLEAN]
    /\ mIsStarted \in [Recordings -> BOOLEAN]
    /\ collected \in [Recordings -> BOOLEAN]
    /\ mRequestDrain \in [Recordings -> Nat]
    /\ codec \in [Recordings -> {"none", "running", "released"}]
    /\ input \in [Recordings -> Seq(Frames)]
    /\ encoded \in [Recordings -> Nat] /\ drained \in [Recordings -> Nat]
    /\ mStatredCount \in [Recordings -> Int]
    /\ muxer \in [Recordings -> {"initialized", "started", "released"}]
    /\ tracks \in [Recordings -> SUBSET {"video"}]
    /\ file \in [Recordings -> Seq(Frames)]

\* onFrame has an encoder, and asks for no more drains than it was called.
Calls ==
    /\ mIsRecording => made # None
    /\ callback # "idle" => made # None /\ shown >= 1
    /\ callback \in {"encode", "notify"} => target # None
    /\ \A r \in Recordings :
          /\ callback = "idle"  => mRequestDrain[r] <= shown
          /\ callback # "idle" => mRequestDrain[r] < shown

\* A place of run at which the stop has been seen, and after the last drain.
Stopping == {"drainFirst", "signal", "drainLast", "onStopped", "release", "stopMuxer",
             "exit", "exited"}
Ending   == {"onStopped", "release", "stopMuxer", "exit", "exited"}

\* The life of a recording, from its creation to the end of its thread.
LifeOf(r) ==
    /\ pc[r] = "none" <=> r > made
    /\ camera = "prepare" /\ r = mMuxer => codec[r] = "none"
    /\ camera = "start" /\ r = mMuxer => codec[r] = "running"
    /\ camera # "idle" /\ r = mMuxer => ~mIsCapturing[r]
    /\ codec[r] = "none" => ~mIsCapturing[r] /\ ~mRequestStop[r]
    /\ codec[r] = "released" <=> pc[r] \in {"stopMuxer", "exit", "exited"}
    /\ mRequestStop[r] => mMuxer # r
    /\ mRequestStop[r] => mIsCapturing[r] \/ pc[r] \in Ending
    /\ pc[r] \in Stopping => mRequestStop[r]
    /\ mIsEOS[r] <=> pc[r] \in Ending \cup {"drainLast"}
    /\ r > made => codec[r] = "none"

Life ==
    /\ camera # "idle" => mMuxer # None
    /\ \A r \in Recordings : LifeOf(r)

\* The muxer of a recording, as its encoder and its wrapper see it.
Muxing(r) ==
    /\ tracks[r] = IF formatted[r] THEN {"video"} ELSE {}
    /\ mMuxerStarted[r] = formatted[r]
    /\ mIsStarted[r] <=> muxer[r] = "started"
    /\ mStatredCount[r] = IF muxer[r] = "started" THEN 1 ELSE 0
    /\ muxer[r] # "initialized" => formatted[r]
    /\ formatted[r] /\ muxer[r] = "initialized" => Loops(r)
    /\ pc[r] \in {"exit", "exited"} /\ ~collected[r] => muxer[r] # "started"
    /\ muxer[r] = "released" => pc[r] \in {"exit", "exited"}
    /\ file[r] # <<>> => muxer[r] # "initialized"

\* The file of a recording holds what has been drained; the end of the stream is
\* queued once, and drained once.
Drained(r) == /\ \A n \in 1 .. drained[r] : input[r][n] # EOS
              /\ file[r] = SubSeq(input[r], 1, drained[r])
Ended(r)   == /\ drained[r] >= 1 /\ input[r][drained[r]] = EOS
              /\ file[r] = SubSeq(input[r], 1, drained[r] - 1)

Writing(r) ==
    /\ drained[r] <= encoded[r] /\ encoded[r] <= Len(input[r])
    /\ Drained(r) \/ Ended(r)
    /\ ~mIsEOS[r] => \A n \in 1 .. Len(input[r]) : input[r][n] # EOS
    /\ Ended(r) => ~mIsCapturing[r]
    /\ pc[r] \in Ending /\ ~collected[r] => Ended(r)

\* A recording that has not told the handler that it has stopped.
Live(r) == codec[r] = "running" /\ pc[r] # "release"

Waiting(m) == \E i \in DOMAIN messages : messages[i] = m
Follows(m, n) ==        \* an n waits behind an m
    \E i, j \in DOMAIN messages : i < j /\ messages[i] = m /\ messages[j] = n
Restarts ==             \* a start waits behind a stop that waits behind a start
    \E i, j, k \in DOMAIN messages :
        /\ i < j /\ j < k
        /\ messages[i] = "start" /\ messages[j] = "stop" /\ messages[k] = "start"
PreviewLast == \A i \in DOMAIN messages : messages[i] = "stopPreview" => i = Len(messages)

\* One recording is live at a time: none is started before the one before it has
\* told that it has stopped, however starts and stops are queued.
OneLive ==
    /\ \A r \in Recordings : Live(r) =>
          /\ mIsRecording
          /\ mMuxer = r \/ (mMuxer = None /\ ~Waiting("start"))
          /\ \A s \in Recordings : Live(s) => s = r
    /\ mIsRecording => \E r \in Recordings : Live(r)

Queue ==
    /\ PreviewLast /\ ~Restarts
    /\ mMuxer # None => ~Follows("stop", "start")
    /\ Waiting("stop") /\ ~InStopPreview /\ mMuxer # None => mIsRecording
    /\ Follows("start", "stop") /\ ~InStopPreview => mMuxer # None

IInv ==
    /\ HandlerTypes /\ RunTypes /\ Calls /\ Life
    /\ \A r \in Recordings : Muxing(r) /\ Writing(r)
    /\ OneLive /\ Queue

-------------------------------------------------------------------------------
(* Sequences *)

\* A prefix is not disturbed by what is appended.
LEMMA PrefixKept ==
    ASSUME NEW S, NEW s \in Seq(S), NEW e \in S, NEW n \in 0 .. Len(s)
    PROVE  SubSeq(Append(s, e), 1, n) = SubSeq(s, 1, n)
  <1> DEFINE t == Append(s, e)
  <1>1. t \in Seq(S) /\ Len(t) = Len(s) + 1 /\ \A i \in 1 .. Len(s) : t[i] = s[i]
    OBVIOUS
  <1>2. Len(s) \in Nat /\ n \in Nat /\ n <= Len(s)
    OBVIOUS
  <1> HIDE DEF t
  <1>3. \A i \in 1 .. n : s[i] \in S /\ t[i] \in S
    BY <1>1, <1>2
  <1>4. /\ SubSeq(s, 1, n) \in Seq(S) /\ SubSeq(t, 1, n) \in Seq(S)
        /\ Len(SubSeq(s, 1, n)) = Len(SubSeq(t, 1, n))
        /\ Len(SubSeq(s, 1, n)) = n
        /\ \A i \in 1 .. n : SubSeq(s, 1, n)[i] = s[i] /\ SubSeq(t, 1, n)[i] = t[i]
    BY <1>2, <1>3, SubSeqProperties
  <1>5. \A i \in 1 .. n : SubSeq(s, 1, n)[i] = SubSeq(t, 1, n)[i]
    BY <1>1, <1>2, <1>4
  <1>6. SubSeq(t, 1, n) = SubSeq(s, 1, n)
    BY <1>4, <1>5, SeqEqual
  <1> QED
    BY <1>6 DEF t

\* A prefix grows by the next element.
LEMMA PrefixGrows ==
    ASSUME NEW S, NEW s \in Seq(S), NEW n \in Nat, n < Len(s)
    PROVE  SubSeq(s, 1, n + 1) = Append(SubSeq(s, 1, n), s[n + 1])
  <1> DEFINE p == SubSeq(s, 1, n)
             q == SubSeq(s, 1, n + 1)
  <1>1. \A i \in 1 .. n + 1 : s[i] \in S
    OBVIOUS
  <1>2. p \in Seq(S) /\ Len(p) = n /\ \A i \in 1 .. n : p[i] = s[i]
    BY <1>1, SubSeqProperties
  <1>3. q \in Seq(S) /\ Len(q) = n + 1 /\ \A i \in 1 .. n + 1 : q[i] = s[i]
    BY <1>1, SubSeqProperties
  <1> HIDE DEF p, q
  <1>4. Append(p, s[n + 1]) \in Seq(S) /\ Len(Append(p, s[n + 1])) = Len(q)
    BY <1>1, <1>2, <1>3
  <1>5. \A i \in 1 .. Len(q) : q[i] = Append(p, s[n + 1])[i]
    BY <1>1, <1>2, <1>3
  <1>6. q = Append(p, s[n + 1])
    BY <1>3, <1>4, <1>5, SeqEqual
  <1> QED
    BY <1>6 DEF p, q

\* The starts in a sequence of messages can be counted.
LEMMA StartsFinite ==
    ASSUME NEW ms \in Seq(Messages)
    PROVE  IsFiniteSet(StartsOf(ms)) /\ Cardinality(StartsOf(ms)) \in Nat
  <1>1. DOMAIN ms = 1 .. Len(ms) /\ Len(ms) \in Nat
    OBVIOUS
  <1>2. IsFiniteSet(1 .. Len(ms))
    BY <1>1, FS_Interval
  <1>3. IsFiniteSet(StartsOf(ms))
    BY <1>1, <1>2, FS_Subset DEF StartsOf
  <1> QED
    BY <1>3, FS_CardinalityType

\* What the app's message adds to the starts.
LEMMA StartsAppended ==
    ASSUME NEW ms \in Seq(Messages), NEW ns \in Seq(Messages), NEW k \in Nat,
           Len(ns) = Len(ms) + k, \A i \in 1 .. Len(ms) : ns[i] = ms[i]
    PROVE  /\ (\A i \in Len(ms) + 1 .. Len(ns) : ns[i] # "start")
                 => StartsOf(ns) = StartsOf(ms)
           /\ k = 1 => Cardinality(StartsOf(ns)) <= Cardinality(StartsOf(ms)) + 1
  <1>1. /\ DOMAIN ms = 1 .. Len(ms) /\ Len(ms) \in Nat
        /\ DOMAIN ns = 1 .. Len(ns) /\ Len(ns) \in Nat
    OBVIOUS
  <1>2. ASSUME \A i \in Len(ms) + 1 .. Len(ns) : ns[i] # "start"
        PROVE  StartsOf(ns) = StartsOf(ms)
    BY <1>1, <1>2 DEF StartsOf
  <1>3. ASSUME k = 1
        PROVE  Cardinality(StartsOf(ns)) <= Cardinality(StartsOf(ms)) + 1
    <2>1. StartsOf(ns) \subseteq StartsOf(ms) \cup {Len(ns)}
      BY <1>1, <1>3 DEF StartsOf
    <2>2. IsFiniteSet(StartsOf(ms)) /\ Cardinality(StartsOf(ms)) \in Nat
      BY StartsFinite
    <2> DEFINE T == StartsOf(ms) \cup {Len(ns)}
    <2>3. /\ IsFiniteSet(T)
          /\ Cardinality(T) = IF Len(ns) \in StartsOf(ms) THEN Cardinality(StartsOf(ms))
                               ELSE Cardinality(StartsOf(ms)) + 1
      BY <2>2, FS_AddElement
    <2>4. IsFiniteSet(T) /\ Cardinality(T) <= Cardinality(StartsOf(ms)) + 1
      <3> HIDE DEF T
      <3> QED
        BY <2>2, <2>3
    <2>5. IsFiniteSet(T) /\ Cardinality(T) \in Nat
      BY <2>4, FS_CardinalityType
    <2>6. Cardinality(StartsOf(ns)) <= Cardinality(T)
      BY <2>1, <2>4, FS_Subset
    <2>7. Cardinality(StartsOf(ns)) \in Nat
      BY StartsFinite
    <2> HIDE DEF T
    <2> QED
      BY <2>2, <2>4, <2>5, <2>6, <2>7
  <1> QED
    BY <1>2, <1>3

\* A message that is taken from the front, if it is a start, is one start less.
LEMMA StartsTaken ==
    ASSUME NEW ms \in Seq(Messages), ms # <<>>
    PROVE  Cardinality(StartsOf(Tail(ms))) =
               Cardinality(StartsOf(ms)) - IF Head(ms) = "start" THEN 1 ELSE 0
  <1> DEFINE S == StartsOf(ms) \ {1}
             T == StartsOf(Tail(ms))
             f == [i \in T |-> i + 1]
  <1>1. /\ DOMAIN ms = 1 .. Len(ms) /\ Len(ms) \in Nat /\ Len(ms) >= 1
        /\ Tail(ms) \in Seq(Messages) /\ Len(Tail(ms)) = Len(ms) - 1
        /\ DOMAIN Tail(ms) = 1 .. Len(Tail(ms))
        /\ \A i \in 1 .. Len(Tail(ms)) : Tail(ms)[i] = ms[i + 1]
        /\ Head(ms) = ms[1]
    BY HeadTailProperties
  <1>2. /\ \A i \in T : i \in Nat /\ i + 1 \in S
        /\ \A j \in S : j - 1 \in T /\ j \in Nat
    BY <1>1 DEF StartsOf
  <1>3. IsFiniteSet(T) /\ IsFiniteSet(StartsOf(ms)) /\ Cardinality(StartsOf(ms)) \in Nat
    BY <1>1, StartsFinite
  <1>4. /\ IsFiniteSet(S)
        /\ Cardinality(S) = Cardinality(StartsOf(ms)) - IF Head(ms) = "start" THEN 1 ELSE 0
    <2>1. 1 \in StartsOf(ms) <=> Head(ms) = "start"
      BY <1>1 DEF StartsOf
    <2> QED
      BY <1>3, <2>1, FS_RemoveElement
  <1> HIDE DEF S, T
  <1>5. f \in [T -> S]
    BY <1>2
  <1>6. \A a, b \in T : f[a] = f[b] => a = b
    BY <1>2
  <1>7. \A j \in S : \E i \in T : f[i] = j
    BY <1>2
  <1>8. f \in Bijection(T, S)
    BY <1>5, <1>6, <1>7 DEF Bijection, Injection, Surjection, IsInjective
  <1>9. Cardinality(T) = Cardinality(S)
    BY <1>3, <1>8, FS_Bijection DEF ExistsBijection
  <1> QED
    BY <1>4, <1>9 DEF T

-------------------------------------------------------------------------------
(* Types *)

\* The constants, as numbers.
LEMMA Bounds == /\ MaxFrames \in Nat \ {0} /\ Inputs \in Nat \ {0}
                /\ MaxMessages \in Nat \ {0} /\ MaxRecordings \in Nat \ {0}
                /\ Recordings = 1 .. MaxRecordings /\ EOS \in Frames
  BY RecordingAssumption DEF Recordings, EOS, Frames

\* notifyAll wakes the thread that waits, and moves no other.
LEMMA Wakes ==
    ASSUME pc \in [Recordings -> RunPlaces], NEW r, NotifyAll(r)
    PROVE  /\ pc' \in [Recordings -> RunPlaces]
           /\ \A s \in Recordings : pc'[s] # pc[s] =>
                 s = r /\ pc[s] = "asleep" /\ pc'[s] = "check"
  BY DEF NotifyAll, RunPlaces

\* The thread, codec and muxer of a recording keep the types.
LEMMA RunTypesRun ==
    ASSUME RunTypes, NEW r \in Recordings, Writing(r),
           Run(r) \/ Encode(r) \/ Collect(r) \/ SpuriousWakeup(r)
    PROVE  RunTypes'
  <1>1. CASE CheckRequests(r)
    BY <1>1 DEF CheckRequests, RunTypes, RunPlaces, encoderVars, codecVars, muxerVars
  <1>2. CASE Sleep(r)
    BY <1>2 DEF Sleep, RunTypes, Goto, RunPlaces, encoderVars, codecVars, muxerVars
  <1>3. CASE LeaveDrain(r)
    BY <1>3
    DEF LeaveDrain, RunTypes, AfterDrain, Drains, RunPlaces, encoderVars, codecVars,
        muxerVars
  <1>4. CASE AddTrack(r)
    BY <1>4 DEF AddTrack, RunTypes, Loops
  <1>5. CASE StartMuxer(r)
    <2>1. mStatredCount' \in [Recordings -> Int]
      BY <1>5 DEF StartMuxer, RunTypes
    <2>2. /\ mIsStarted' \in [Recordings -> BOOLEAN]
          /\ muxer' \in [Recordings -> {"initialized", "started", "released"}]
      BY <1>5 DEF StartMuxer, StartIfAllReady, RunTypes
    <2> QED
      BY <1>5, <2>1, <2>2 DEF StartMuxer, RunTypes, encoderVars, codecVars
  <1>6. CASE WriteSampleData(r)
    <2>1. Output(r) \in Frames
      BY <1>6 DEF WriteSampleData, Ready, Output, Writing, RunTypes
    <2>2. file' \in [Recordings -> Seq(Frames)]
      BY <1>6, <2>1 DEF WriteSampleData, RunTypes
    <2>3. drained' \in [Recordings -> Nat]
      BY <1>6 DEF WriteSampleData, RunTypes
    <2> QED
      BY <1>6, <2>2, <2>3 DEF WriteSampleData, RunTypes, encoderVars
  <1>7. CASE DrainEnd(r)
    BY <1>7
    DEF DrainEnd, RunTypes, Loops, Drains, EndCapturing, AfterDrain, RunPlaces,
        encoderVars, muxerVars
  <1>8. CASE SignalEndOfInputStream(r)
    <2>1. input' \in [Recordings -> Seq(Frames)]
      BY <1>8, Bounds DEF SignalEndOfInputStream, RunTypes
    <2>2. pc' \in [Recordings -> RunPlaces]
      BY <1>8 DEF SignalEndOfInputStream, SignalAndDrain, Goto, RunTypes, RunPlaces
    <2> QED
      BY <1>8, <2>1, <2>2 DEF SignalEndOfInputStream, RunTypes, muxerVars
  <1>9. CASE OnStopped(r)
    BY <1>9 DEF OnStopped, RunTypes, Goto, RunPlaces, encoderVars, codecVars, muxerVars
  <1>10. CASE Release(r)
    BY <1>10 DEF Release, RunTypes, Goto, RunPlaces, encoderVars, muxerVars
  <1>11. CASE StopMuxer(r)
    <2>1. mStatredCount' \in [Recordings -> Int]
      BY <1>11 DEF StopMuxer, RunTypes
    <2>2. /\ mIsStarted' \in [Recordings -> BOOLEAN]
          /\ muxer' \in [Recordings -> {"initialized", "started", "released"}]
      BY <1>11 DEF StopMuxer, RunTypes
    <2>3. pc' \in [Recordings -> RunPlaces]
      BY <1>11 DEF StopMuxer, Goto, RunTypes, RunPlaces
    <2> QED
      BY <1>11, <2>1, <2>2, <2>3 DEF StopMuxer, RunTypes, encoderVars, codecVars
  <1>12. CASE Exit(r)
    BY <1>12 DEF Exit, RunTypes, Goto, RunPlaces, encoderVars, codecVars, muxerVars
  <1>13. CASE Encode(r)
    BY <1>13 DEF Encode, RunTypes, encoderVars, muxerVars
  <1>14. CASE Collect(r)
    BY <1>14 DEF Collect, RunTypes, encoderVars, codecVars
  <1>15. CASE SpuriousWakeup(r)
    BY <1>15
    DEF SpuriousWakeup, RunTypes, Goto, RunPlaces, encoderVars, codecVars, muxerVars
  <1> QED
    BY <1>1, <1>2, <1>3, <1>4, <1>5, <1>6, <1>7, <1>8, <1>9, <1>10, <1>11, <1>12, <1>13,
       <1>14, <1>15
    DEF Run, Drain

\* The camera thread and onFrame keep the types of the recordings.
LEMMA RunTypesCamera ==
    ASSUME HandlerTypes, RunTypes, Camera \/ Callback, Calls
    PROVE  RunTypes'
  <1>1. CASE HandleStartRecording
    BY <1>1
    DEF HandleStartRecording, Ignored, RunTypes, RunPlaces, encoderVars, codecVars,
        muxerVars
  <1>2. CASE Prepare
    BY <1>2 DEF Prepare, RunTypes, encoderVars, muxerVars
  <1>3. CASE StartEncoder
    BY <1>3
    DEF StartEncoder, NotifyAll, RunTypes, RunPlaces, encoderVars, codecVars, muxerVars
  <1>4. CASE HandleStopRecording
    <2>1. pc' \in [Recordings -> RunPlaces]
      BY <1>4 DEF HandleStopRecording, StopEncoder, NotifyAll, RunTypes, RunPlaces
    <2>2. mRequestStop' \in [Recordings -> BOOLEAN]
      BY <1>4 DEF HandleStopRecording, StopEncoder, RunTypes
    <2> QED
      BY <1>4, <2>1, <2>2
      DEF HandleStopRecording, RunTypes, encoderVars, codecVars, muxerVars
  <1>5. CASE HandleStopPreview
    BY <1>5 DEF HandleStopPreview, Ignored, RunTypes, encoderVars, codecVars, muxerVars
  <1>6. CASE OnFrame
    BY <1>6 DEF OnFrame, callbackFrame, RunTypes, encoderVars, muxerVars
  <1>7. CASE ReadEncoder
    BY <1>7 DEF ReadEncoder, callbackFrame, RunTypes, encoderVars, muxerVars
  <1>8. CASE EncodeFrame
    <2>1. shown \in Frames
      BY DEF HandlerTypes, Frames
    <2>2. input' = [input EXCEPT ![target] = Append(@, shown)] \/ input' = input
      BY <1>8 DEF EncodeFrame
    <2>3. target \in Recordings
      BY <1>8, Bounds DEF EncodeFrame, Calls, HandlerTypes, None
    <2>4. input \in [Recordings -> Seq(Frames)] /\ Append(input[target], shown) \in Seq(Frames)
      BY <2>1, <2>3 DEF RunTypes
    <2>5. input' \in [Recordings -> Seq(Frames)]
      BY <2>2, <2>3, <2>4
    <2> QED
      BY <1>8, <2>5 DEF EncodeFrame, callbackFrame, RunTypes, encoderVars, muxerVars
  <1>9. CASE FrameAvailableSoon
    <2>1. \/ pc' = pc /\ mRequestDrain' = mRequestDrain
          \/ /\ NotifyAll(target)
             /\ mRequestDrain' = [mRequestDrain EXCEPT ![target] = @ + 1]
      BY <1>9 DEF FrameAvailableSoon
    <2>2. pc' \in [Recordings -> RunPlaces]
      BY <2>1, Wakes DEF RunTypes
    <2>3. target \in Recordings
      BY <1>9, Bounds DEF FrameAvailableSoon, CallbackGoto, Calls, HandlerTypes, None
    <2>4. mRequestDrain \in [Recordings -> Nat] /\ mRequestDrain[target] + 1 \in Nat
      BY <2>3 DEF RunTypes
    <2>5. mRequestDrain' \in [Recordings -> Nat]
      BY <2>1, <2>3, <2>4
    <2> QED
      BY <1>9, <2>2, <2>5
      DEF FrameAvailableSoon, callbackFrame, RunTypes, encoderVars, muxerVars
  <1> QED
    BY <1>1, <1>2, <1>3, <1>4, <1>5, <1>6, <1>7, <1>8, <1>9 DEF Camera, Callback

-------------------------------------------------------------------------------
(* The messages *)

\* What a message taken from the front leaves.
LEMMA Taken ==
    ASSUME HandlerTypes, NEW m, HandlesNext(m), messages' = Tail(messages)
    PROVE  /\ messages' \in Seq(Messages) /\ Len(messages) >= 1 /\ messages[1] = m
           /\ Len(messages) \in Nat /\ Len(messages') = Len(messages) - 1
           /\ DOMAIN messages = 1 .. Len(messages) /\ DOMAIN messages' = 1 .. Len(messages')
           /\ \A i \in 1 .. Len(messages') : messages'[i] = messages[i + 1]
           /\ Cardinality(StartsOf(messages)) \in Nat
           /\ Cardinality(StartsOf(messages')) \in Nat
           /\ Cardinality(StartsOf(messages')) =
                 Cardinality(StartsOf(messages)) - IF m = "start" THEN 1 ELSE 0
  <1>1. messages \in Seq(Messages) /\ messages # <<>> /\ Head(messages) = m
    BY DEF HandlerTypes, HandlesNext
  <1>2. /\ messages' \in Seq(Messages) /\ Len(messages') = Len(messages) - 1
        /\ \A i \in 1 .. Len(messages') : messages'[i] = messages[i + 1]
    BY <1>1, HeadTailProperties
  <1>3. /\ Cardinality(StartsOf(messages)) \in Nat
        /\ Cardinality(StartsOf(messages')) \in Nat
        /\ Cardinality(StartsOf(messages')) =
              Cardinality(StartsOf(messages)) - IF m = "start" THEN 1 ELSE 0
    BY <1>1, <1>2, StartsFinite, StartsTaken
  <1>4. /\ DOMAIN messages = 1 .. Len(messages) /\ DOMAIN messages' = 1 .. Len(messages')
        /\ Len(messages) \in Nat /\ Len(messages) >= 1 /\ messages[1] = m
    BY <1>1, <1>2
  <1> QED
    BY <1>2, <1>3, <1>4

\* What the app's messages do.
LEMMA Sent ==
    ASSUME HandlerTypes, NEW ms \in Seq(Messages), Send(ms)
    PROVE  /\ messages' \in Seq(Messages)
           /\ Len(messages) \in Nat /\ Len(ms) \in Nat
           /\ Len(messages') = Len(messages) + Len(ms) /\ Len(messages') <= MaxMessages
           /\ DOMAIN messages = 1 .. Len(messages) /\ DOMAIN messages' = 1 .. Len(messages')
           /\ \A i \in 1 .. Len(messages) : messages'[i] = messages[i]
           /\ \A i \in Len(messages) + 1 .. Len(messages') : messages'[i] = ms[i - Len(messages)]
           /\ \A i \in 1 .. Len(messages) : messages[i] # "stopPreview"
  <1>1. messages \in Seq(Messages)
    BY DEF HandlerTypes
  <1>2. /\ messages' = messages \o ms /\ Len(messages \o ms) <= MaxMessages
        /\ ~InStopPreview
    BY DEF Send
  <1>3. /\ messages' \in Seq(Messages) /\ Len(messages') = Len(messages) + Len(ms)
        /\ \A i \in 1 .. Len(messages) + Len(ms) :
              messages'[i] = IF i <= Len(messages) THEN messages[i]
                             ELSE ms[i - Len(messages)]
    BY <1>1, <1>2, ConcatProperties
  <1>4. /\ DOMAIN messages = 1 .. Len(messages) /\ DOMAIN messages' = 1 .. Len(messages')
        /\ Len(messages) \in Nat /\ Len(ms) \in Nat
    BY <1>1, <1>3
  <1>5. \A i \in 1 .. Len(messages) : messages'[i] = messages[i]
    BY <1>3, <1>4
  <1>6. \A i \in Len(messages) + 1 .. Len(messages') : messages'[i] = ms[i - Len(messages)]
    BY <1>3, <1>4
  <1>7. \A i \in 1 .. Len(messages) : messages[i] # "stopPreview"
    BY <1>2, <1>4 DEF InStopPreview
  <1> QED
    BY <1>2, <1>3, <1>4, <1>5, <1>6, <1>7

\* What one message of the app adds.
LEMMA SentOne ==
    ASSUME HandlerTypes, NEW m \in Messages, Send(<<m>>)
    PROVE  /\ Len(messages') = Len(messages) + 1 /\ messages'[Len(messages) + 1] = m
           /\ \A i \in Len(messages) + 1 .. Len(messages') : messages'[i] = m
  <1> DEFINE ms == <<m>>
  <1>1. ms \in Seq(Messages) /\ Send(ms) /\ Len(ms) = 1 /\ ms[1] = m
    OBVIOUS
  <1> HIDE DEF ms
  <1>2. /\ Len(messages') = Len(messages) + 1 /\ Len(messages) \in Nat
        /\ \A i \in Len(messages) + 1 .. Len(messages') : messages'[i] = ms[i - Len(messages)]
    BY <1>1, Sent
  <1> QED
    BY <1>1, <1>2

\* What the two messages of stopPreview add.
LEMMA SentTwo ==
    ASSUME HandlerTypes, NEW m \in Messages, NEW n \in Messages, Send(<<m, n>>)
    PROVE  /\ Len(messages') = Len(messages) + 2 /\ messages'[Len(messages) + 1] = m
           /\ messages'[Len(messages) + 2] = n
           /\ \A i \in Len(messages) + 1 .. Len(messages') : messages'[i] \in {m, n}
  <1> DEFINE ms == <<m, n>>
  <1>1. ms \in Seq(Messages) /\ Send(ms) /\ Len(ms) = 2 /\ ms[1] = m /\ ms[2] = n
    OBVIOUS
  <1> HIDE DEF ms
  <1>2. /\ Len(messages') = Len(messages) + 2 /\ Len(messages) \in Nat
        /\ \A i \in Len(messages) + 1 .. Len(messages') : messages'[i] = ms[i - Len(messages)]
    BY <1>1, Sent
  <1> QED
    BY <1>1, <1>2

\* Every step keeps the types of the handler, and no more recordings are asked for than
\* there are.
LEMMA HandlerTypesKept ==
    ASSUME HandlerTypes, Calls, Life, [Next]_vars
    PROVE  HandlerTypes'
  <1> USE Bounds
  <1>1. CASE StartRecording
    <2>1. Send(<<"start">>) /\ <<"start">> \in Seq(Messages)
      BY <1>1 DEF StartRecording, Messages
    <2>2. Cardinality(StartsOf(messages')) <= Cardinality(StartsOf(messages)) + 1
      BY <2>1, Sent, StartsAppended DEF HandlerTypes
    <2>3. made + Cardinality(StartsOf(messages)) < MaxRecordings
      BY <1>1 DEF StartRecording, Starts, StartsOf
    <2>4. /\ Cardinality(StartsOf(messages)) \in Nat
          /\ Cardinality(StartsOf(messages')) \in Nat
      BY <2>1, Sent, StartsFinite DEF HandlerTypes
    <2> QED
      BY <2>1, <2>2, <2>3, <2>4, Sent DEF Send, HandlerTypes, handlerVars, frameVars
  <1>2. CASE StopRecording
    <2>1. Send(<<"stop">>) /\ <<"stop">> \in Seq(Messages)
      BY <1>2 DEF StopRecording, Messages
    <2>2. \A i \in Len(messages) + 1 .. Len(messages') : messages'[i] # "start"
      BY <2>1, SentOne DEF Messages
    <2>3. StartsOf(messages') = StartsOf(messages)
      BY <2>1, <2>2, Sent, StartsAppended DEF HandlerTypes
    <2> QED
      BY <2>1, <2>3, Sent DEF Send, HandlerTypes, handlerVars, frameVars
  <1>3. CASE StopPreview
    <2>1. /\ Send(<<"stop", "stopPreview">>) /\ <<"stop", "stopPreview">> \in Seq(Messages)
      BY <1>3 DEF StopPreview, Messages
    <2>2. \A i \in Len(messages) + 1 .. Len(messages') : messages'[i] # "start"
      BY <2>1, SentTwo DEF Messages
    <2>3. StartsOf(messages') = StartsOf(messages)
      BY <2>1, <2>2, Sent, StartsAppended DEF HandlerTypes
    <2> QED
      BY <2>1, <2>3, Sent DEF Send, HandlerTypes, handlerVars, frameVars
  <1>4. CASE HandleStartRecording
    <2>1. HandlesNext("start") /\ messages' = Tail(messages)
      BY <1>4 DEF HandleStartRecording, Ignored
    <2>2. /\ made \in 0 .. MaxRecordings
          /\ made + Cardinality(StartsOf(messages')) + 1 <= MaxRecordings
      BY <2>1, Taken DEF HandlerTypes
    <2>3. /\ made' \in {made, made + 1} /\ mMuxer' \in {mMuxer, made'}
          /\ (made' = made /\ mMuxer' = mMuxer /\ videoEncoder' = videoEncoder)
             \/ (mMuxer' = made' /\ videoEncoder' = made')
          /\ camera' \in CameraPlaces
          /\ UNCHANGED <<mIsRecording, callback, shown, target>>
      BY <1>4
      DEF HandleStartRecording, Ignored, HandlerTypes, handlerVars, frameVars,
          CameraPlaces
    <2>4. Len(messages') <= MaxMessages
      BY <2>1, Taken DEF HandlerTypes
    <2>5. made' \in 0 .. MaxRecordings
          /\ made' + Cardinality(StartsOf(messages')) <= MaxRecordings
      BY <2>1, <2>2, <2>3, Taken
    <2> QED
      BY <2>1, <2>3, <2>4, <2>5, Taken DEF HandlerTypes
  <1>5. CASE Prepare \/ StartEncoder
    BY <1>5
    DEF Prepare, StartEncoder, HandlerTypes, CameraPlaces, handlerVars, frameVars
  <1>6. CASE HandleStopRecording
    <2>1. HandlesNext("stop") /\ messages' = Tail(messages)
      BY <1>6 DEF HandleStopRecording
    <2>2. /\ Cardinality(StartsOf(messages')) = Cardinality(StartsOf(messages))
          /\ Len(messages') <= MaxMessages /\ messages' \in Seq(Messages)
      BY <2>1, Taken DEF HandlerTypes
    <2> QED
      BY <1>6, <2>2 DEF HandleStopRecording, HandlerTypes, frameVars
  <1>7. CASE HandleStopPreview
    <2>1. HandlesNext("stopPreview") /\ messages' = Tail(messages)
      BY <1>7 DEF HandleStopPreview, Ignored
    <2>2. /\ Cardinality(StartsOf(messages')) = Cardinality(StartsOf(messages))
          /\ Len(messages') <= MaxMessages /\ messages' \in Seq(Messages)
      BY <2>1, Taken DEF HandlerTypes
    <2> QED
      BY <1>7, <2>2 DEF HandleStopPreview, Ignored, HandlerTypes, handlerVars, frameVars
  <1>8. CASE Callback
    BY <1>8
    DEF Callback, OnFrame, ReadEncoder, EncodeFrame, FrameAvailableSoon, CallbackGoto,
        callbackFrame, HandlerTypes, CallPlaces, handlerVars, None
  <1>9. ASSUME NEW r \in Recordings, Run(r) PROVE HandlerTypes'
    BY <1>9
    DEF Run, Drain, CheckRequests, Sleep, LeaveDrain, AddTrack, StartMuxer,
        WriteSampleData, DrainEnd, SignalEndOfInputStream, OnStopped, Release,
        StopMuxer, Exit, runFrame, HandlerTypes, handlerVars, frameVars
  <1>10. ASSUME NEW r \in Recordings, Encode(r) \/ Collect(r) \/ SpuriousWakeup(r)
         PROVE  HandlerTypes'
    BY <1>10
    DEF Encode, Collect, SpuriousWakeup, runFrame, HandlerTypes, handlerVars, frameVars
  <1>11. CASE UNCHANGED vars
    BY <1>11 DEF vars, HandlerTypes, handlerVars, frameVars
  <1> QED
    BY <1>1, <1>2, <1>3, <1>4, <1>5, <1>6, <1>7, <1>8, <1>9, <1>10, <1>11
    DEF Next, Camera

-------------------------------------------------------------------------------
(* The life of a recording *)

\* Every step keeps what is known of onFrame.
LEMMA CallsKept ==
    ASSUME HandlerTypes, RunTypes, Calls, Life, [Next]_vars
    PROVE  Calls'
  <1>1. mRequestDrain \in [Recordings -> Nat] /\ shown \in Nat
    BY Bounds DEF RunTypes, HandlerTypes
  <1>2. made \in Nat /\ videoEncoder = made /\ mMuxer \in {None, made}
    BY Bounds DEF HandlerTypes
  <1>3. CASE OnFrame
    BY <1>3, <1>1 DEF OnFrame, CallbackGoto, callbackFrame, Calls, handlerVars
  <1>4. CASE ReadEncoder
    BY <1>4, <1>2 DEF ReadEncoder, CallbackGoto, callbackFrame, Calls, handlerVars, None
  <1>5. CASE EncodeFrame
    <2>1. /\ callback = "encode" /\ callback' \in {"notify", "idle"}
          /\ callback' = "notify" => target' = target
          /\ UNCHANGED <<mRequestDrain, shown, made, mIsRecording>>
      BY <1>5 DEF EncodeFrame, callbackFrame, handlerVars
    <2>2. \A r \in Recordings : mRequestDrain[r] < shown /\ mRequestDrain[r] <= shown
      BY <2>1, <1>1 DEF Calls
    <2> QED
      BY <2>1, <2>2 DEF Calls
  <1>6. CASE FrameAvailableSoon
    <2>1. /\ callback = "notify" /\ callback' = "idle"
          /\ mRequestDrain' \in {mRequestDrain, [mRequestDrain EXCEPT ![target] = @ + 1]}
          /\ UNCHANGED <<shown, made, mIsRecording>>
      BY <1>6 DEF FrameAvailableSoon, CallbackGoto, callbackFrame, handlerVars
    <2>2. \A r \in Recordings : mRequestDrain[r] < shown /\ mRequestDrain[r] \in Nat
      BY <2>1, <1>1 DEF Calls
    <2>3. \A r \in Recordings : mRequestDrain'[r] <= shown
      BY <2>1, <2>2, <1>1
    <2> QED
      BY <2>1, <2>3 DEF Calls
  <1>7. CASE StartRecording \/ StopRecording \/ StopPreview
    BY <1>7
    DEF StartRecording, StopRecording, StopPreview, Send, Calls, handlerVars, frameVars
  <1>8. CASE HandleStartRecording
    BY <1>8, <1>2 DEF HandleStartRecording, Ignored, Calls, handlerVars, frameVars, None
  <1>9. CASE Prepare
    BY <1>9, <1>2 DEF Prepare, Life, Calls, handlerVars, frameVars, None
  <1>10. CASE StartEncoder \/ HandleStopRecording \/ HandleStopPreview
    BY <1>10
    DEF StartEncoder, HandleStopRecording, HandleStopPreview, Ignored, Calls,
        handlerVars, frameVars
  <1>11. ASSUME NEW r \in Recordings, CheckRequests(r) PROVE Calls'
    <2>1. /\ mRequestDrain' = [mRequestDrain EXCEPT ![r] = IF @ > 0 THEN @ - 1 ELSE @]
          /\ UNCHANGED <<callback, shown, target, made, mIsRecording>>
      BY <1>11 DEF CheckRequests, runFrame, handlerVars, frameVars
    <2>2. \A s \in Recordings : mRequestDrain'[s] <= mRequestDrain[s] /\ mRequestDrain[s] \in Nat
                                /\ mRequestDrain'[s] \in Nat
      BY <2>1, <1>1
    <2> QED
      BY <2>1, <2>2, <1>1 DEF Calls
  <1>12. ASSUME NEW r \in Recordings, Run(r), ~CheckRequests(r) PROVE Calls'
    BY <1>12
    DEF Run, Drain, Sleep, LeaveDrain, AddTrack, StartMuxer, WriteSampleData, DrainEnd,
        SignalEndOfInputStream, OnStopped, Release, StopMuxer, Exit, Calls, runFrame,
        handlerVars, frameVars
  <1>13. ASSUME NEW r \in Recordings, Encode(r) \/ Collect(r) \/ SpuriousWakeup(r)
         PROVE  Calls'
    BY <1>13
    DEF Encode, Collect, SpuriousWakeup, Calls, runFrame, handlerVars, frameVars
  <1>14. CASE UNCHANGED vars
    BY <1>14 DEF vars, Calls, handlerVars, frameVars
  <1> QED
    BY <1>3, <1>4, <1>5, <1>6, <1>7, <1>8, <1>9, <1>10, <1>11, <1>12, <1>13, <1>14
    DEF Next, Camera, Callback

lifeVars == <<camera, mMuxer, made, pc, codec, mIsCapturing, mRequestStop, mIsEOS>>

\* The thread, codec and muxer of a recording keep every recording's life.
LEMMA LifeRun ==
    ASSUME HandlerTypes, RunTypes, Life, NEW r \in Recordings, Writing(r),
           Run(r) \/ Encode(r) \/ Collect(r) \/ SpuriousWakeup(r)
    PROVE  Life'
  <1>1. CASE CheckRequests(r)
    BY <1>1
    DEF CheckRequests, Life, LifeOf, RunTypes, RunPlaces, Stopping, Ending, runFrame,
        handlerVars, encoderVars, codecVars, muxerVars
  <1>2. CASE Sleep(r)
    BY <1>2
    DEF Sleep, Life, LifeOf, RunTypes, RunPlaces, Stopping, Ending, Goto, runFrame,
        handlerVars, encoderVars, codecVars, muxerVars
  <1>3. CASE LeaveDrain(r)
    BY <1>3
    DEF LeaveDrain, Life, LifeOf, RunTypes, RunPlaces, Stopping, Ending, AfterDrain,
        Drains, Ready, runFrame, handlerVars, encoderVars, codecVars, muxerVars
  <1>4. CASE AddTrack(r)
    BY <1>4
    DEF AddTrack, Life, LifeOf, RunTypes, RunPlaces, Stopping, Ending, Drains, Loops,
        Ready, Output, EOS, runFrame, handlerVars
  <1>5. CASE StartMuxer(r)
    BY <1>5
    DEF StartMuxer, Life, LifeOf, RunTypes, RunPlaces, Stopping, Ending, Drains, Loops,
        runFrame, handlerVars, encoderVars, codecVars
  <1>6. CASE WriteSampleData(r)
    BY <1>6
    DEF WriteSampleData, Life, LifeOf, RunTypes, RunPlaces, Stopping, Ending, Drains,
        Loops, Ready, Output, EOS, runFrame, handlerVars, encoderVars
  <1>7. CASE DrainEnd(r)
    <2>1. /\ Drains(r) /\ pc' = [pc EXCEPT ![r] = AfterDrain(r)] /\ Output(r) = EOS /\ Ready(r)
          /\ mIsCapturing' = [mIsCapturing EXCEPT ![r] = FALSE]
          /\ UNCHANGED <<camera, mMuxer, made, codec, mRequestStop, mIsEOS>>
      BY <1>7 DEF DrainEnd, EndCapturing, Loops, runFrame, handlerVars, encoderVars
    <2>2. mIsEOS[r]
      BY <2>1 DEF Ready, Output, Writing, RunTypes
    <2>3. pc[r] = "drainLast"
      BY <2>1, <2>2 DEF Drains, Life, LifeOf, Ending
    <2>4. pc[r] = "drainLast" /\ pc' = [pc EXCEPT ![r] = "onStopped"]
      BY <2>1, <2>3 DEF AfterDrain
    <2> QED
      BY <2>1, <2>4 DEF Life, LifeOf, RunTypes, Stopping, Ending
  <1>8. CASE SignalEndOfInputStream(r)
    BY <1>8
    DEF SignalEndOfInputStream, Life, LifeOf, RunTypes, RunPlaces, Stopping, Ending,
        Goto, SignalAndDrain, EOS, runFrame, handlerVars, muxerVars
  <1>9. CASE OnStopped(r)
    BY <1>9
    DEF OnStopped, Life, LifeOf, RunTypes, RunPlaces, Stopping, Ending, Goto, runFrame,
        handlerVars, encoderVars, codecVars, muxerVars
  <1>10. CASE Release(r)
    BY <1>10
    DEF Release, Life, LifeOf, RunTypes, RunPlaces, Stopping, Ending, Goto, runFrame,
        handlerVars, encoderVars, muxerVars
  <1>11. CASE StopMuxer(r)
    BY <1>11
    DEF StopMuxer, Life, LifeOf, RunTypes, RunPlaces, Stopping, Ending, Goto, runFrame,
        handlerVars, encoderVars, codecVars
  <1>12. CASE Exit(r)
    BY <1>12
    DEF Exit, Life, LifeOf, RunTypes, RunPlaces, Stopping, Ending, Goto, runFrame,
        handlerVars, encoderVars, codecVars, muxerVars
  <1>13. CASE Encode(r)
    BY <1>13
    DEF Encode, Life, LifeOf, RunTypes, RunPlaces, Stopping, Ending, runFrame,
        handlerVars, encoderVars, muxerVars
  <1>14. CASE Collect(r)
    BY <1>14
    DEF Collect, Life, LifeOf, RunTypes, RunPlaces, Stopping, Ending, runFrame,
        handlerVars, encoderVars, codecVars
  <1>15. CASE SpuriousWakeup(r)
    BY <1>15
    DEF SpuriousWakeup, Life, LifeOf, RunTypes, RunPlaces, Stopping, Ending, Goto,
        runFrame, handlerVars, encoderVars, codecVars, muxerVars
  <1> QED
    BY <1>1, <1>2, <1>3, <1>4, <1>5, <1>6, <1>7, <1>8, <1>9, <1>10, <1>11, <1>12, <1>13,
       <1>14, <1>15
    DEF Run, Drain

\* The camera thread and onFrame keep every recording's life.
LEMMA LifeCamera ==
    ASSUME HandlerTypes, RunTypes, Life, Calls, Camera \/ Callback
    PROVE  Life'

  <1>1. /\ pc \in [Recordings -> RunPlaces] /\ made \in 0 .. MaxRecordings
        /\ mMuxer \in {None, made} /\ None \notin Recordings
    BY Bounds DEF HandlerTypes, RunTypes, None
  <1>2. CASE HandleStartRecording
    <2>1. CASE UNCHANGED lifeVars
      BY <2>1 DEF lifeVars, Life, LifeOf
    <2>2. CASE ~UNCHANGED lifeVars
      <3>1. /\ mMuxer = None /\ made' = made + 1 /\ mMuxer' = made' /\ camera = "idle"
            /\ camera' = "prepare" /\ pc' = [pc EXCEPT ![made'] = "check"]
            /\ UNCHANGED <<codec, mIsCapturing, mRequestStop, mIsEOS>>
        BY <1>2, <2>2
        DEF HandleStartRecording, HandlesNext, Ignored, lifeVars, handlerVars,
            encoderVars, codecVars
      <3>2. ASSUME NEW s \in Recordings PROVE LifeOf(s)'
        <4>1. s \in Nat /\ LifeOf(s)
          BY Bounds DEF Life
        <4>2. CASE s = made + 1
          <5>1. pc[s] = "none" /\ pc'[s] = "check" /\ codec[s] = "none"
            BY <1>1, <3>1, <4>1, <4>2 DEF LifeOf
          <5> QED
            BY <1>1, <3>1, <4>1, <4>2, <5>1 DEF LifeOf, Stopping, Ending
        <4>3. CASE s # made + 1
          BY <1>1, <3>1, <4>1, <4>3 DEF LifeOf
        <4> QED
          BY <4>2, <4>3
      <3> QED
        BY <1>1, <3>1, <3>2 DEF Life, None
    <2> QED
      BY <2>1, <2>2
  <1>3. CASE Prepare
    <2>1. /\ camera = "prepare" /\ mMuxer \in Recordings
          /\ \/ codec' = [codec EXCEPT ![mMuxer] = "running"] /\ camera' = "start"
             \/ codec' = codec /\ camera' = "idle"
          /\ UNCHANGED <<mMuxer, made, pc, mIsCapturing, mRequestStop, mIsEOS>>
      BY <1>3, <1>1, Bounds DEF Prepare, Life, handlerVars, encoderVars, None
    <2>2. ASSUME NEW s \in Recordings PROVE LifeOf(s)'
      <3>1. LifeOf(s)
        BY DEF Life
      <3>2. s = mMuxer => codec[s] = "none" /\ ~mRequestStop[s] /\ s <= made
        BY <2>1, <3>1, <1>1, Bounds DEF LifeOf, None
      <3>3. /\ codec \in [Recordings -> {"none", "running", "released"}]
            /\ s # mMuxer => codec'[s] = codec[s]
            /\ s = mMuxer => codec'[s] = codec[s] \/ (codec'[s] = "running" /\ camera' = "start")
            /\ camera' = "start" => codec'[mMuxer] = "running"
        BY <2>1 DEF RunTypes
      <3> QED
        BY <1>1, <2>1, <3>1, <3>2, <3>3 DEF LifeOf, Stopping, Ending
    <2> QED
      BY <2>1, <2>2, <1>1 DEF Life
  <1>4. CASE StartEncoder
    <2>1. /\ camera = "start" /\ camera' = "idle" /\ mMuxer \in Recordings
          /\ mIsCapturing' = [mIsCapturing EXCEPT ![mMuxer] = TRUE]
          /\ mRequestStop' = [mRequestStop EXCEPT ![mMuxer] = FALSE]
          /\ NotifyAll(mMuxer)
          /\ UNCHANGED <<mMuxer, made, codec, mIsEOS>>
      BY <1>4, <1>1, Bounds
      DEF StartEncoder, Life, handlerVars, encoderVars, codecVars, None
    <2>2. ASSUME NEW s \in Recordings PROVE LifeOf(s)'
      <3>1. LifeOf(s)
        BY DEF Life
      <3>2. pc'[s] = pc[s] \/ (pc[s] = "asleep" /\ pc'[s] = "check")
        BY <1>1, <2>1, Wakes
      <3>3. s = mMuxer => /\ codec[s] = "running" /\ ~mRequestStop[s] /\ pc[s] \notin Stopping
                          /\ mIsCapturing'[s] /\ ~mRequestStop'[s]
        BY <2>1, <3>1 DEF LifeOf, RunTypes
      <3>4. s # mMuxer => mIsCapturing'[s] = mIsCapturing[s] /\ mRequestStop'[s] = mRequestStop[s]
        BY <2>1 DEF RunTypes
      <3> QED
        BY <1>1, <2>1, <3>1, <3>2, <3>3, <3>4 DEF LifeOf, Stopping, Ending
    <2> QED
      BY <2>1, <2>2 DEF Life
  <1>5. CASE HandleStopRecording
    <2>1. /\ camera = "idle" /\ camera' = camera /\ mMuxer' = None
          /\ \/ UNCHANGED <<mRequestStop, pc>>
             \/ /\ mMuxer # None /\ mIsCapturing[mMuxer]
                /\ mRequestStop' = [mRequestStop EXCEPT ![mMuxer] = TRUE]
                /\ NotifyAll(mMuxer)
          /\ UNCHANGED <<made, codec, mIsEOS, mIsCapturing>>
      BY <1>5 DEF HandleStopRecording, HandlesNext, StopEncoder, encoderVars, codecVars
    <2>2. ASSUME NEW s \in Recordings PROVE LifeOf(s)'
      <3>1. LifeOf(s)
        BY DEF Life
      <3>2. pc'[s] = pc[s] \/ (pc[s] = "asleep" /\ pc'[s] = "check")
        BY <1>1, <2>1, Wakes
      <3>3. \/ mRequestStop'[s] = mRequestStop[s]
            \/ mRequestStop'[s] /\ mIsCapturing[s]
        BY <2>1 DEF RunTypes
      <3> QED
        BY <1>1, <2>1, <3>1, <3>2, <3>3 DEF LifeOf, Stopping, Ending
    <2> QED
      BY <2>1, <2>2 DEF Life
  <1>6. CASE HandleStopPreview
    BY <1>6
    DEF HandleStopPreview, Ignored, Life, LifeOf, handlerVars, encoderVars, codecVars
  <1>7. CASE OnFrame \/ ReadEncoder \/ EncodeFrame
    BY <1>7
    DEF OnFrame, ReadEncoder, EncodeFrame, callbackFrame, Life, LifeOf, handlerVars,
        encoderVars
  <1>8. CASE FrameAvailableSoon
    <2>1. /\ UNCHANGED pc \/ NotifyAll(target)
          /\ UNCHANGED <<camera, mMuxer, made, codec, mIsCapturing, mRequestStop, mIsEOS>>
      BY <1>8 DEF FrameAvailableSoon, callbackFrame, handlerVars, encoderVars
    <2>2. ASSUME NEW s \in Recordings PROVE LifeOf(s)'
      <3>1. LifeOf(s)
        BY DEF Life
      <3>2. pc'[s] = pc[s] \/ (pc[s] = "asleep" /\ pc'[s] = "check")
        BY <1>1, <2>1, Wakes
      <3> QED
        BY <1>1, <2>1, <3>1, <3>2 DEF LifeOf, Stopping, Ending
    <2> QED
      BY <2>1, <2>2 DEF Life
  <1> QED
    BY <1>2, <1>3, <1>4, <1>5, <1>6, <1>7, <1>8 DEF Camera, Callback

-------------------------------------------------------------------------------
(* The muxer and the file of a recording *)

\* What belongs to a recording, apart from the queue of its codec.
Same(s) ==
    /\ pc'[s] = pc[s] /\ mIsCapturing'[s] = mIsCapturing[s] /\ mIsEOS'[s] = mIsEOS[s]
    /\ mRequestStop'[s] = mRequestStop[s] /\ mMuxerStarted'[s] = mMuxerStarted[s]
    /\ codec'[s] = codec[s] /\ input'[s] = input[s] /\ encoded'[s] = encoded[s]
    /\ drained'[s] = drained[s] /\ formatted'[s] = formatted[s]
    /\ mStatredCount'[s] = mStatredCount[s] /\ mIsStarted'[s] = mIsStarted[s]
    /\ collected'[s] = collected[s] /\ muxer'[s] = muxer[s] /\ tracks'[s] = tracks[s]
    /\ file'[s] = file[s]

\* A step of one recording's thread, codec or muxer touches no other recording.
LEMMA OthersSame ==
    ASSUME RunTypes, NEW r \in Recordings, NEW s \in Recordings, s # r,
           Run(r) \/ Encode(r) \/ Collect(r) \/ SpuriousWakeup(r)
    PROVE  Same(s)
  <1>1. CASE CheckRequests(r)
    BY <1>1 DEF CheckRequests, Same, RunTypes, encoderVars, codecVars, muxerVars
  <1>2. CASE Sleep(r)
    BY <1>2 DEF Sleep, Same, RunTypes, Goto, encoderVars, codecVars, muxerVars
  <1>3. CASE LeaveDrain(r)
    BY <1>3
    DEF LeaveDrain, Same, RunTypes, AfterDrain, Drains, Starting, encoderVars,
        codecVars, muxerVars
  <1>4. CASE AddTrack(r)
    BY <1>4 DEF AddTrack, Same, RunTypes, Drains, Loops
  <1>5. CASE StartMuxer(r)
    BY <1>5
    DEF StartMuxer, Same, RunTypes, Drains, Loops, Starting, StartIfAllReady,
        encoderVars, codecVars
  <1>6. CASE WriteSampleData(r)
    BY <1>6 DEF WriteSampleData, Same, RunTypes, Drains, Loops, Starting, encoderVars
  <1>7. CASE DrainEnd(r)
    BY <1>7
    DEF DrainEnd, Same, RunTypes, AfterDrain, Drains, Loops, Starting, EndCapturing,
        encoderVars, muxerVars
  <1>8. CASE SignalEndOfInputStream(r)
    BY <1>8 DEF SignalEndOfInputStream, Same, RunTypes, Goto, SignalAndDrain, muxerVars
  <1>9. CASE OnStopped(r)
    BY <1>9 DEF OnStopped, Same, RunTypes, Goto, encoderVars, codecVars, muxerVars
  <1>10. CASE Release(r)
    BY <1>10 DEF Release, Same, RunTypes, Goto, encoderVars, muxerVars
  <1>11. CASE StopMuxer(r)
    BY <1>11 DEF StopMuxer, Same, RunTypes, Goto, Stops, encoderVars, codecVars
  <1>12. CASE Exit(r)
    BY <1>12 DEF Exit, Same, RunTypes, Goto, encoderVars, codecVars, muxerVars
  <1>13. CASE Encode(r)
    BY <1>13 DEF Encode, Same, RunTypes, encoderVars, muxerVars
  <1>14. CASE Collect(r)
    BY <1>14 DEF Collect, Same, RunTypes, encoderVars, codecVars
  <1>15. CASE SpuriousWakeup(r)
    BY <1>15 DEF SpuriousWakeup, Same, RunTypes, Goto, encoderVars, codecVars, muxerVars
  <1> QED
    BY <1>1, <1>2, <1>3, <1>4, <1>5, <1>6, <1>7, <1>8, <1>9, <1>10, <1>11, <1>12, <1>13,
       <1>14, <1>15
    DEF Run, Drain

\* The camera thread and onFrame only wake a recording, make it capture or queue for it.
LEMMA CameraTouches ==
    ASSUME HandlerTypes, RunTypes, Calls, Life, Camera \/ Callback, NEW s \in Recordings
    PROVE  /\ pc'[s] = pc[s] \/ (pc[s] \in {"none", "asleep"} /\ pc'[s] = "check")
           /\ mIsCapturing[s] => mIsCapturing'[s]
           /\ ~mIsCapturing[s] /\ mIsCapturing'[s] => mMuxer = s /\ camera = "start"
           /\ mIsEOS'[s] = mIsEOS[s] /\ mMuxerStarted'[s] = mMuxerStarted[s]
           /\ encoded'[s] = encoded[s] /\ drained'[s] = drained[s]
           /\ formatted'[s] = formatted[s]
           /\ mStatredCount'[s] = mStatredCount[s] /\ mIsStarted'[s] = mIsStarted[s]
           /\ collected'[s] = collected[s] /\ muxer'[s] = muxer[s]
           /\ tracks'[s] = tracks[s] /\ file'[s] = file[s]
           /\ input'[s] = input[s] \/ (shown # EOS /\ input'[s] = Append(input[s], shown))
  <1>1. /\ pc \in [Recordings -> RunPlaces] /\ mIsCapturing \in [Recordings -> BOOLEAN]
        /\ input \in [Recordings -> Seq(Frames)]
    BY DEF RunTypes
  <1>2. CASE HandleStartRecording
    <2>1. UNCHANGED <<mIsCapturing, encoderVars, codecVars, muxerVars>>
      BY <1>2 DEF HandleStartRecording, Ignored
    <2>2. pc' = pc \/ (made' = made + 1 /\ pc' = [pc EXCEPT ![made'] = "check"])
      BY <1>2 DEF HandleStartRecording, Ignored
    <2>3. pc[s] = "none" <=> s > made
      BY DEF Life, LifeOf
    <2>4. pc'[s] = pc[s] \/ (pc[s] = "none" /\ pc'[s] = "check")
      BY <1>1, <2>2, <2>3, Bounds DEF HandlerTypes
    <2> QED
      BY <2>1, <2>4 DEF encoderVars, codecVars, muxerVars
  <1>3. CASE StartEncoder
    <2>1. /\ UNCHANGED <<encoderVars, codecVars, muxerVars>> /\ NotifyAll(mMuxer)
          /\ mIsCapturing' = [mIsCapturing EXCEPT ![mMuxer] = TRUE] /\ camera = "start"
      BY <1>3 DEF StartEncoder
    <2>2. pc'[s] = pc[s] \/ (pc[s] = "asleep" /\ pc'[s] = "check")
      BY <1>1, <2>1, Wakes
    <2> QED
      BY <1>1, <2>1, <2>2 DEF encoderVars, codecVars, muxerVars
  <1>4. CASE HandleStopRecording
    <2>1. /\ UNCHANGED <<encoderVars, codecVars, muxerVars, mIsCapturing>>
          /\ UNCHANGED pc \/ NotifyAll(mMuxer)
      BY <1>4 DEF HandleStopRecording, StopEncoder
    <2>2. pc'[s] = pc[s] \/ (pc[s] = "asleep" /\ pc'[s] = "check")
      BY <1>1, <2>1, Wakes
    <2> QED
      BY <2>1, <2>2 DEF encoderVars, codecVars, muxerVars
  <1>5. CASE Prepare \/ HandleStopPreview \/ OnFrame \/ ReadEncoder
    BY <1>5
    DEF Prepare, HandleStopPreview, Ignored, OnFrame, ReadEncoder, callbackFrame,
        encoderVars, codecVars, muxerVars
  <1>6. CASE EncodeFrame
    <2>1. /\ UNCHANGED <<pc, mIsCapturing, encoderVars, encoded, drained, formatted, muxerVars>>
          /\ input' = input \/ input' = [input EXCEPT ![target] = Append(@, shown)]
      BY <1>6 DEF EncodeFrame, callbackFrame
    <2>2. shown # EOS
      BY <1>6, Bounds DEF EncodeFrame, Calls, HandlerTypes, EOS
    <2>3. input'[s] = input[s] \/ input'[s] = Append(input[s], shown)
      BY <1>1, <2>1
    <2> QED
      BY <2>1, <2>2, <2>3 DEF encoderVars, muxerVars
  <1>7. CASE FrameAvailableSoon
    <2>1. /\ UNCHANGED <<input, mIsCapturing, encoderVars, encoded, drained, formatted, muxerVars>>
          /\ UNCHANGED pc \/ NotifyAll(target)
      BY <1>7 DEF FrameAvailableSoon, callbackFrame
    <2>2. pc'[s] = pc[s] \/ (pc[s] = "asleep" /\ pc'[s] = "check")
      BY <1>1, <2>1, Wakes
    <2> QED
      BY <2>1, <2>2 DEF encoderVars, muxerVars
  <1> QED
    BY <1>2, <1>3, <1>4, <1>5, <1>6, <1>7 DEF Camera, Callback

\* A recording's muxer stays as its encoder and its wrapper see it.
LEMMA MuxingKept ==
    ASSUME HandlerTypes, RunTypes, Calls, Life, NEW s \in Recordings, Muxing(s), Writing(s),
           Camera \/ Callback
              \/ Run(s) \/ Encode(s) \/ Collect(s) \/ SpuriousWakeup(s)
    PROVE  Muxing(s)'
  <1>1. CASE Camera \/ Callback
    BY <1>1, CameraTouches DEF Muxing, Loops, Drains
  <1>2. CASE CheckRequests(s)
    BY <1>2
    DEF CheckRequests, Muxing, RunTypes, Drains, Loops, encoderVars, codecVars,
        muxerVars
  <1>3. CASE Sleep(s)
    BY <1>3
    DEF Sleep, Muxing, RunTypes, Drains, Loops, Goto, encoderVars, codecVars, muxerVars
  <1>4. CASE LeaveDrain(s)
    BY <1>4
    DEF LeaveDrain, Muxing, RunTypes, AfterDrain, Drains, Loops, Starting, encoderVars,
        codecVars, muxerVars
  <1>5. CASE AddTrack(s)
    BY <1>5 DEF AddTrack, Muxing, RunTypes, Drains, Loops
  <1>6. CASE StartMuxer(s)
    <2>1. /\ Loops(s) /\ mMuxerStarted[s] /\ mStatredCount[s] = 0
          /\ mStatredCount' = [mStatredCount EXCEPT ![s] = @ + 1]
          /\ UNCHANGED <<pc, mIsCapturing, mMuxerStarted, formatted, collected, tracks, file>>
      BY <1>6 DEF StartMuxer, Starting, runFrame, encoderVars, codecVars
    <2>2. mStatredCount'[s] = 1
      BY <2>1 DEF RunTypes
    <2>3. muxer'[s] = "started" /\ mIsStarted'[s]
      BY <1>6, <2>2 DEF StartMuxer, StartIfAllReady, RunTypes
    <2> QED
      BY <2>1, <2>2, <2>3 DEF Muxing, Loops, Drains
  <1>7. CASE WriteSampleData(s)
    BY <1>7 DEF WriteSampleData, Muxing, RunTypes, Drains, Loops, Starting, encoderVars
  <1>8. CASE DrainEnd(s)
    BY <1>8
    DEF DrainEnd, Muxing, RunTypes, AfterDrain, Drains, Loops, Starting, EndCapturing,
        encoderVars, muxerVars
  <1>9. CASE SignalEndOfInputStream(s)
    BY <1>9
    DEF SignalEndOfInputStream, Muxing, RunTypes, Drains, Loops, Goto, SignalAndDrain,
        muxerVars
  <1>10. CASE OnStopped(s)
    BY <1>10
    DEF OnStopped, Muxing, RunTypes, Drains, Loops, Goto, encoderVars, codecVars,
        muxerVars
  <1>11. CASE Release(s)
    BY <1>11 DEF Release, Muxing, RunTypes, Drains, Loops, Goto, encoderVars, muxerVars
  <1>12. CASE StopMuxer(s)
    BY <1>12
    DEF StopMuxer, Muxing, RunTypes, Drains, Loops, Goto, Stops, encoderVars, codecVars
  <1>13. CASE Exit(s)
    BY <1>13
    DEF Exit, Muxing, RunTypes, Drains, Loops, Goto, encoderVars, codecVars, muxerVars
  <1>14. CASE Encode(s)
    BY <1>14 DEF Encode, Muxing, RunTypes, Drains, Loops, encoderVars, muxerVars
  <1>15. CASE Collect(s)
    BY <1>15 DEF Collect, Muxing, RunTypes, Drains, Loops, encoderVars, codecVars
  <1>16. CASE SpuriousWakeup(s)
    BY <1>16
    DEF SpuriousWakeup, Muxing, RunTypes, Drains, Loops, Goto, encoderVars, codecVars,
        muxerVars
  <1> QED
    BY <1>1, <1>2, <1>3, <1>4, <1>5, <1>6, <1>7, <1>8, <1>9, <1>10, <1>11, <1>12, <1>13,
       <1>14, <1>15, <1>16
    DEF Run, Drain

\* The camera thread and onFrame only add frames behind what has been drained.
LEMMA WritingCamera ==
    ASSUME HandlerTypes, RunTypes, Calls, Life, NEW s \in Recordings, Writing(s),
           Camera \/ Callback
    PROVE  Writing(s)'
  <1>1. /\ input[s] \in Seq(Frames) /\ drained[s] \in Nat /\ encoded[s] \in Nat
        /\ shown \in Frames /\ drained[s] <= Len(input[s])
    BY DEF HandlerTypes, RunTypes, Frames, Writing
  <1>2. /\ Len(input'[s]) >= Len(input[s]) /\ Len(input'[s]) \in Nat
        /\ \A n \in 1 .. Len(input[s]) : input'[s][n] = input[s][n]
        /\ \A n \in 1 .. Len(input'[s]) : n > Len(input[s]) => input'[s][n] # EOS
    BY <1>1, CameraTouches
  <1>3. \A n \in 0 .. Len(input[s]) : SubSeq(input'[s], 1, n) = SubSeq(input[s], 1, n)
    BY <1>1, CameraTouches, PrefixKept
  <1>4. /\ UNCHANGED <<drained[s], encoded[s], file[s], mIsEOS[s], collected[s]>>
        /\ pc'[s] \in Ending <=> pc[s] \in Ending
    BY CameraTouches DEF Ending
  <1>5. Drained(s) => Drained(s)'
    BY <1>1, <1>2, <1>3, <1>4 DEF Drained
  <1>6. Ended(s) <=> Ended(s)'
    BY <1>1, <1>2, <1>3, <1>4 DEF Ended
  <1>7. Ended(s) => mIsEOS[s]
    BY <1>1 DEF Writing, Ended
  <1>8. mIsEOS[s] => ~mIsCapturing'[s] \/ mIsCapturing[s]
    BY CameraTouches DEF Life, LifeOf, Stopping, Ending
  <1>9. ~mIsEOS[s] => \A n \in 1 .. Len(input'[s]) : input'[s][n] # EOS
    BY <1>1, <1>2 DEF Writing
  <1>10. drained'[s] <= encoded'[s] /\ encoded'[s] <= Len(input'[s])
    BY <1>1, <1>2, <1>4 DEF Writing
  <1> QED
    BY <1>4, <1>5, <1>6, <1>7, <1>8, <1>9, <1>10 DEF Writing

fileVars == <<input, encoded, drained, file, mIsEOS>>

\* The file of a recording grows with what is drained, and ends with the stream.
LEMMA WritingRun ==
    ASSUME HandlerTypes, RunTypes, Calls, Life, NEW s \in Recordings, Muxing(s), Writing(s),
           Run(s) \/ Encode(s) \/ Collect(s) \/ SpuriousWakeup(s)
    PROVE  Writing(s)'
  <1>1. /\ input[s] \in Seq(Frames) /\ drained[s] \in Nat /\ encoded[s] \in Nat
        /\ Len(input[s]) \in Nat
        /\ drained[s] <= encoded[s] /\ encoded[s] <= Len(input[s])
    BY DEF RunTypes, Writing
  <1>2. ASSUME UNCHANGED fileVars, mIsCapturing'[s] => mIsCapturing[s],
               pc'[s] \in Ending /\ ~collected'[s] => pc[s] \in Ending /\ ~collected[s]
        PROVE  Writing(s)'
    BY <1>2 DEF fileVars, Writing, Drained, Ended
  <1>3. CASE CheckRequests(s) \/ Sleep(s) \/ SpuriousWakeup(s)
    BY <1>2, <1>3
    DEF CheckRequests, Sleep, SpuriousWakeup, Goto, fileVars, encoderVars, codecVars,
        muxerVars, Ending, RunTypes
  <1>4. CASE LeaveDrain(s)
    <2>1. pc[s] = "drainLast" => collected[s] \/ ~mIsCapturing[s]
      BY <1>4 DEF LeaveDrain, Life, LifeOf
    <2>2. pc[s] = "drainLast" => collected[s]
      BY <2>1 DEF Life, LifeOf, Stopping, Ending
    <2>3. pc'[s] \in Ending => pc[s] = "drainLast"
      BY <1>4 DEF LeaveDrain, Drains, AfterDrain, Ending, RunTypes
    <2> QED
      BY <1>2, <1>4, <2>2, <2>3
      DEF LeaveDrain, fileVars, encoderVars, codecVars, muxerVars
  <1>5. CASE AddTrack(s) \/ StartMuxer(s)
    BY <1>2, <1>5 DEF AddTrack, StartMuxer, fileVars, encoderVars, codecVars
  <1>6. CASE WriteSampleData(s)
    <2>1. /\ drained'[s] = drained[s] + 1 /\ input' = input /\ drained[s] < encoded[s]
          /\ input[s][drained[s] + 1] # EOS /\ mIsCapturing[s] /\ pc[s] \notin Ending
          /\ UNCHANGED <<encoded, mIsEOS, mIsCapturing, pc>>
      BY <1>6
      DEF WriteSampleData, Loops, Drains, Ready, Output, encoderVars, Ending, RunTypes
    <2>2. mStatredCount[s] > 0
      BY <1>6 DEF WriteSampleData, Starting, Muxing, RunTypes
    <2>3. file'[s] = Append(file[s], input[s][drained[s] + 1])
      BY <1>6, <2>2 DEF WriteSampleData, Output, RunTypes
    <2>4. Drained(s)
      BY <2>1 DEF Writing
    <2>5. SubSeq(input[s], 1, drained[s] + 1) = file'[s]
      BY <1>1, <2>1, <2>3, <2>4, PrefixGrows DEF Drained
    <2>6. \A n \in 1 .. drained[s] + 1 : input[s][n] # EOS
      BY <1>1, <2>1, <2>4 DEF Drained
    <2>7. Drained(s)'
      BY <2>1, <2>5, <2>6 DEF Drained
    <2>8. ~Ended(s)'
      BY <1>1, <2>1 DEF Ended
    <2> QED
      BY <1>1, <2>1, <2>7, <2>8 DEF Writing
  <1>7. CASE DrainEnd(s)
    <2>1. /\ drained'[s] = drained[s] + 1 /\ drained[s] < encoded[s]
          /\ input[s][drained[s] + 1] = EOS /\ mIsCapturing[s] /\ ~mIsCapturing'[s]
          /\ UNCHANGED <<input, file, encoded, mIsEOS>>
      BY <1>7
      DEF DrainEnd, EndCapturing, Loops, Ready, Output, encoderVars, muxerVars, RunTypes
    <2>2. Drained(s)
      BY <2>1 DEF Writing
    <2>3. Ended(s)'
      BY <1>1, <2>1, <2>2 DEF Drained, Ended
    <2> QED
      BY <1>1, <2>1, <2>3 DEF Writing
  <1>8. CASE SignalEndOfInputStream(s)
    <2>1. /\ input'[s] = Append(input[s], EOS) /\ mIsEOS'[s]
          /\ pc[s] = "signal" /\ pc'[s] = "drainLast"
          /\ UNCHANGED <<drained, encoded, file, mIsCapturing>>
      BY <1>8 DEF SignalEndOfInputStream, SignalAndDrain, Goto, muxerVars, RunTypes
    <2>2. ~mIsEOS[s]
      BY <2>1 DEF Life, LifeOf, Ending
    <2>3. Drained(s)
      BY <1>1, <2>2 DEF Writing, Ended
    <2>4. Drained(s)'
      BY <1>1, <2>1, <2>3, PrefixKept, Bounds DEF Drained
    <2>5. ~Ended(s)'
      BY <1>1, <2>1, <2>2, Bounds DEF Ended, Writing
    <2> QED
      BY <1>1, <2>1, <2>4, <2>5, Bounds DEF Writing, Ending
  <1>9. CASE OnStopped(s)
    <2>1. pc[s] = "onStopped" /\ UNCHANGED <<fileVars, mIsCapturing, collected>>
      BY <1>9 DEF OnStopped, Goto, fileVars, encoderVars, codecVars, muxerVars
    <2> QED
      BY <1>2, <2>1 DEF Ending
  <1>10. CASE Release(s) \/ StopMuxer(s) \/ Exit(s)
    <2>1. pc[s] \in Ending /\ UNCHANGED <<fileVars, collected>>
      BY <1>10
      DEF Release, StopMuxer, Exit, Goto, fileVars, encoderVars, codecVars, muxerVars,
          Ending
    <2>2. mIsCapturing'[s] => mIsCapturing[s]
      BY <1>10 DEF Release, StopMuxer, Exit, RunTypes
    <2> QED
      BY <1>2, <2>1, <2>2
  <1>11. CASE Encode(s)
    <2>1. /\ encoded'[s] = encoded[s] + 1 /\ encoded[s] < Len(input[s])
          /\ UNCHANGED <<input, drained, file, mIsEOS, mIsCapturing, pc, collected>>
      BY <1>11 DEF Encode, encoderVars, muxerVars, RunTypes
    <2> QED
      BY <1>1, <2>1 DEF Writing, Drained, Ended
  <1>12. CASE Collect(s)
    <2>1. /\ collected'[s] /\ UNCHANGED <<fileVars, mIsCapturing, pc>>
      BY <1>12 DEF Collect, fileVars, encoderVars, codecVars, RunTypes
    <2> QED
      BY <1>2, <2>1
  <1> QED
    BY <1>3, <1>4, <1>5, <1>6, <1>7, <1>8, <1>9, <1>10, <1>11, <1>12 DEF Run, Drain

\* No step touches what another recording's thread does with its muxer and its file.
LEMMA FilesKept ==
    ASSUME HandlerTypes, RunTypes, Calls, Life, [Next]_vars,
           \A r \in Recordings : Muxing(r) /\ Writing(r)
    PROVE  \A r \in Recordings : Muxing(r)' /\ Writing(r)'
  <1> TAKE s \in Recordings
  <1>1. Muxing(s) /\ Writing(s)
    OBVIOUS
  <1>2. CASE Camera \/ Callback
    BY <1>1, <1>2, MuxingKept, WritingCamera
  <1>3. ASSUME NEW r \in Recordings, Run(r) \/ Encode(r) \/ Collect(r) \/ SpuriousWakeup(r)
        PROVE  Muxing(s)' /\ Writing(s)'
    <2>1. CASE r = s
      BY <1>1, <1>3, <2>1, MuxingKept, WritingRun
    <2>2. CASE r # s
      <3>1. Same(s)
        BY <1>3, <2>2, OthersSame
      <3> QED
        BY <1>1, <3>1 DEF Same, Muxing, Writing, Drained, Ended, Loops, Drains
    <2> QED
      BY <2>1, <2>2
  <1>4. CASE StartRecording \/ StopRecording \/ StopPreview \/ UNCHANGED vars
    <2>1. UNCHANGED <<mIsCapturing, encoderVars, codecVars, muxerVars, pc>>
      BY <1>4 DEF StartRecording, StopRecording, StopPreview, Send, vars
    <2> QED
      BY <1>1, <2>1
      DEF encoderVars, codecVars, muxerVars, Muxing, Writing, Drained, Ended, Loops,
          Drains
  <1> QED
    BY <1>2, <1>3, <1>4 DEF Next

-------------------------------------------------------------------------------
(* One recording at a time *)

\* The order of the messages when one is taken.
LEMMA TakenQueue ==
    ASSUME HandlerTypes, PreviewLast, NEW h, HandlesNext(h), messages' = Tail(messages)
    PROVE  /\ \A m : Waiting(m)' => Waiting(m) /\ Follows(h, m)
           /\ \A m, n : Follows(m, n)' => Follows(m, n)
           /\ h = "start" /\ Follows("stop", "start")' => Restarts
           /\ Restarts' => Restarts
           /\ PreviewLast'
           /\ h # "stopPreview" /\ InStopPreview => InStopPreview'
           /\ h = "stopPreview" => \A m : ~Waiting(m)'
           /\ Waiting(h)
  <1>1. /\ Len(messages) >= 1 /\ messages[1] = h
        /\ Len(messages) \in Nat /\ Len(messages') = Len(messages) - 1
        /\ DOMAIN messages = 1 .. Len(messages) /\ DOMAIN messages' = 1 .. Len(messages')
        /\ \A i \in 1 .. Len(messages') : messages'[i] = messages[i + 1]
    BY Taken
  <1>2. \A i \in DOMAIN messages' : /\ i \in Nat /\ i >= 1 /\ i + 1 \in DOMAIN messages
                                    /\ messages'[i] = messages[i + 1]
    BY <1>1
  <1>3. /\ 1 \in DOMAIN messages
        /\ \A i \in DOMAIN messages : i = 1 \/ i - 1 \in DOMAIN messages'
    BY <1>1
  <1>4. \A m : Waiting(m)' => Waiting(m) /\ Follows(h, m)
    BY <1>1, <1>2, <1>3 DEF Waiting, Follows
  <1>5. \A m, n : Follows(m, n)' => Follows(m, n)
    BY <1>2 DEF Follows
  <1>6. ASSUME h = "start", Follows("stop", "start")' PROVE Restarts
    <2>1. PICK i \in DOMAIN messages', j \in DOMAIN messages' :
              i < j /\ messages'[i] = "stop" /\ messages'[j] = "start"
      BY <1>6 DEF Follows
    <2>2. /\ 1 < i + 1 /\ i + 1 < j + 1 /\ i + 1 \in DOMAIN messages /\ j + 1 \in DOMAIN messages
          /\ messages[i + 1] = "stop" /\ messages[j + 1] = "start"
      BY <1>2, <2>1
    <2> QED
      BY <1>1, <1>3, <1>6, <2>2 DEF Restarts
  <1>7. ASSUME Restarts' PROVE Restarts
    <2>1. PICK i \in DOMAIN messages', j \in DOMAIN messages', k \in DOMAIN messages' :
              /\ i < j /\ j < k /\ messages'[i] = "start" /\ messages'[j] = "stop"
              /\ messages'[k] = "start"
      BY <1>7 DEF Restarts
    <2>2. /\ i + 1 < j + 1 /\ j + 1 < k + 1 /\ i + 1 \in DOMAIN messages
          /\ j + 1 \in DOMAIN messages /\ k + 1 \in DOMAIN messages
          /\ messages[i + 1] = "start" /\ messages[j + 1] = "stop" /\ messages[k + 1] = "start"
      BY <1>2, <2>1
    <2> QED
      BY <2>2 DEF Restarts
  <1>8. PreviewLast'
    BY <1>1, <1>2 DEF PreviewLast
  <1>9. ASSUME h # "stopPreview", InStopPreview PROVE InStopPreview'
    <2>1. PICK i \in DOMAIN messages : messages[i] = "stopPreview"
      BY <1>9 DEF InStopPreview
    <2>2. i - 1 \in DOMAIN messages' /\ messages'[i - 1] = "stopPreview"
      BY <1>1, <1>3, <1>9, <2>1
    <2> QED
      BY <2>2 DEF InStopPreview
  <1>10. ASSUME h = "stopPreview" PROVE \A m : ~Waiting(m)'
    <2>1. Len(messages) = 1
      BY <1>1, <1>3, <1>10 DEF PreviewLast
    <2>2. \A i : i \notin DOMAIN messages'
      <3>1. Len(messages') = 0 /\ DOMAIN messages' = 1 .. Len(messages')
        BY <1>1, <2>1
      <3> QED
        BY <3>1
    <2> QED
      BY <2>2 DEF Waiting
  <1>11. Waiting(h)
    BY <1>1, <1>3 DEF Waiting
  <1> QED
    BY <1>4, <1>5, <1>6, <1>7, <1>8, <1>9, <1>10, <1>11

\* The order of the messages when the app sends a start or a stop.
LEMMA SentQueue ==
    ASSUME HandlerTypes,
           NEW m \in Messages \ {"stopPreview"}, Send(<<m>>)
    PROVE  /\ \A n : Waiting(n)' => Waiting(n) \/ n = m
           /\ \A l, n : Follows(l, n)' => Follows(l, n) \/ (Waiting(l) /\ n = m)
           /\ Restarts' => Restarts \/ (m = "start" /\ Follows("start", "stop"))
           /\ PreviewLast' /\ ~InStopPreview /\ ~InStopPreview'
  <1> DEFINE L == Len(messages)
  <1>1. <<m>> \in Seq(Messages) /\ Len(<<m>>) = 1
    OBVIOUS
  <1>2. /\ L \in Nat /\ Len(messages') = L + 1 /\ messages'[L + 1] = m
        /\ DOMAIN messages = 1 .. L /\ DOMAIN messages' = 1 .. L + 1
        /\ \A i \in 1 .. L : messages'[i] = messages[i]
        /\ \A i \in 1 .. L : messages[i] # "stopPreview"
    BY <1>1, Sent, SentOne
  <1> HIDE DEF L
  <1>3. \A i \in DOMAIN messages' : \/ i \in DOMAIN messages /\ messages'[i] = messages[i] /\ i <= L
                                    \/ i = L + 1 /\ messages'[i] = m
    BY <1>2
  <1>4. \A n : Waiting(n)' => Waiting(n) \/ n = m
    BY <1>2, <1>3 DEF Waiting
  <1>5. \A l, n : Follows(l, n)' => Follows(l, n) \/ (Waiting(l) /\ n = m)
    BY <1>2, <1>3 DEF Waiting, Follows
  <1>6. ASSUME Restarts' PROVE Restarts \/ (m = "start" /\ Follows("start", "stop"))
    <2>1. PICK i \in DOMAIN messages', j \in DOMAIN messages', k \in DOMAIN messages' :
              /\ i < j /\ j < k /\ messages'[i] = "start" /\ messages'[j] = "stop"
              /\ messages'[k] = "start"
      BY <1>6 DEF Restarts
    <2>2. /\ i \in DOMAIN messages /\ messages[i] = "start"
          /\ j \in DOMAIN messages /\ messages[j] = "stop"
      BY <1>2, <1>3, <2>1
    <2>3. (k \in DOMAIN messages /\ messages[k] = "start") \/ m = "start"
      BY <1>3, <2>1
    <2> QED
      BY <2>1, <2>2, <2>3 DEF Restarts, Follows
  <1>7. PreviewLast' /\ ~InStopPreview /\ ~InStopPreview'
    BY <1>2, <1>3 DEF PreviewLast, InStopPreview
  <1> QED
    BY <1>4, <1>5, <1>6, <1>7

\* The order of the messages when the app stops the preview.
LEMMA SentStopPreview ==
    ASSUME HandlerTypes, StopPreview
    PROVE  /\ Waiting("start")' => Waiting("start")
           /\ Follows("stop", "start")' => Follows("stop", "start")
           /\ Restarts' => Restarts
           /\ PreviewLast' /\ InStopPreview'
  <1> DEFINE L == Len(messages)
  <1>1. /\ <<"stop", "stopPreview">> \in Seq(Messages) /\ Len(<<"stop", "stopPreview">>) = 2
        /\ Send(<<"stop", "stopPreview">>) /\ {"stop", "stopPreview"} \subseteq Messages
    BY DEF StopPreview, Messages
  <1>2. /\ L \in Nat /\ Len(messages') = L + 2 /\ messages'[L + 1] = "stop"
        /\ messages'[L + 2] = "stopPreview"
        /\ DOMAIN messages = 1 .. L /\ DOMAIN messages' = 1 .. L + 2
        /\ \A i \in 1 .. L : messages'[i] = messages[i]
        /\ \A i \in 1 .. L : messages[i] # "stopPreview"
    BY <1>1, Sent, SentTwo
  <1> HIDE DEF L
  <1>3. \A i \in DOMAIN messages' : \/ i \in DOMAIN messages /\ messages'[i] = messages[i] /\ i <= L
                                    \/ i = L + 1 /\ messages'[i] = "stop"
                                    \/ i = L + 2 /\ messages'[i] = "stopPreview"
    BY <1>2
  <1>4. \A i \in DOMAIN messages' : messages'[i] = "start" =>
            i \in DOMAIN messages /\ messages'[i] = messages[i] /\ i <= L
    BY <1>3
  <1>5. \A i, j \in DOMAIN messages' : i < j /\ j <= L => i <= L /\ i \in DOMAIN messages
                                                        /\ messages'[i] = messages[i]
    BY <1>2, <1>3
  <1>6. Waiting("start")' => Waiting("start")
    BY <1>4 DEF Waiting
  <1>7. Follows("stop", "start")' => Follows("stop", "start")
    BY <1>4, <1>5 DEF Follows
  <1>8. Restarts' => Restarts
    BY <1>4, <1>5 DEF Restarts
  <1>9. PreviewLast' /\ InStopPreview'
    BY <1>2, <1>3 DEF PreviewLast, InStopPreview
  <1> QED
    BY <1>6, <1>7, <1>8, <1>9

\* A step that leaves the messages, the flag and the codecs alone changes nothing here.
LEMMA LiveSame ==
    ASSUME UNCHANGED <<codec, mMuxer, mIsRecording, messages>>,
           \A r \in Recordings : pc'[r] = "release" <=> pc[r] = "release"
    PROVE  /\ OneLive => OneLive'
           /\ Queue => Queue'
           /\ \A r \in Recordings : Live(r)' <=> Live(r)
  <1>1. \A r \in Recordings : Live(r)' <=> Live(r)
    BY DEF Live
  <1>2. \A m : Waiting(m)' <=> Waiting(m)
    BY DEF Waiting
  <1>3. OneLive => OneLive'
    BY <1>1, <1>2 DEF OneLive
  <1>4. Queue => Queue'
    BY DEF Queue, Waiting, Follows, Restarts, PreviewLast, InStopPreview
  <1> QED
    BY <1>1, <1>3, <1>4

\* The app's messages start no second recording while one is live.
LEMMA SendKeeps ==
    ASSUME HandlerTypes, OneLive, Queue, StartRecording \/ StopRecording \/ StopPreview
    PROVE  OneLive' /\ Queue'
  <1>1. UNCHANGED <<codec, pc, mMuxer, mIsRecording>>
    BY DEF StartRecording, StopRecording, StopPreview, Send, handlerVars, codecVars
  <1>2. \A r \in Recordings : Live(r)' <=> Live(r)
    BY <1>1 DEF Live
  <1>3. CASE StartRecording
    <2>1. ~mIsRecording /\ Send(<<"start">>) /\ "start" \in Messages \ {"stopPreview"}
      BY <1>3 DEF StartRecording, Messages
    <2>2. OneLive'
      BY <1>1, <1>2, <2>1 DEF OneLive
    <2>3. ~InStopPreview /\ ~InStopPreview' /\ PreviewLast'
      BY <2>1, SentQueue
    <2>4. mMuxer # None => ~Waiting("stop")
      BY <2>1, <2>3 DEF Queue
    <2>5. /\ Waiting("stop")' => Waiting("stop")
          /\ Follows("start", "stop")' => Follows("start", "stop")
          /\ Follows("stop", "start")' => Follows("stop", "start") \/ Waiting("stop")
          /\ Restarts' => Restarts \/ Follows("start", "stop")
      BY <2>1, SentQueue
    <2>6. ~Follows("start", "stop")
      BY <2>3, <2>4 DEF Queue, Follows, Waiting
    <2> QED
      BY <1>1, <2>2, <2>3, <2>4, <2>5, <2>6 DEF Queue
  <1>4. CASE StopRecording
    <2>1. mIsRecording /\ Send(<<"stop">>) /\ "stop" \in Messages \ {"stopPreview"}
      BY <1>4 DEF StopRecording, Messages
    <2>2. /\ Waiting("start")' => Waiting("start")
          /\ Follows("stop", "start")' => Follows("stop", "start")
          /\ Follows("start", "stop")' => Follows("start", "stop") \/ Waiting("start")
          /\ Restarts' => Restarts
          /\ PreviewLast' /\ ~InStopPreview /\ ~InStopPreview'
      BY <2>1, SentQueue
    <2>3. OneLive'
      BY <1>1, <1>2, <2>2 DEF OneLive
    <2>4. Waiting("start") => mMuxer # None
      <3>1. PICK r \in Recordings : Live(r)
        BY <2>1 DEF OneLive
      <3> QED
        BY <3>1, Bounds DEF OneLive, None
    <2> QED
      BY <1>1, <2>1, <2>2, <2>3, <2>4 DEF Queue
  <1>5. CASE StopPreview
    <2>1. OneLive'
      BY <1>1, <1>2, <1>5, SentStopPreview DEF OneLive
    <2> QED
      BY <1>1, <1>5, <2>1, SentStopPreview DEF Queue
  <1> QED
    BY <1>3, <1>4, <1>5

\* The camera thread starts no second recording while one is live.
LEMMA CameraKeeps ==
    ASSUME HandlerTypes, RunTypes, Life, OneLive, Queue, Camera
    PROVE  OneLive' /\ Queue'
  <1>1. None \notin Recordings /\ mMuxer \in {None, made} /\ made \in 0 .. MaxRecordings
    BY Bounds DEF None, HandlerTypes
  <1>2. /\ codec \in [Recordings -> {"none", "running", "released"}]
        /\ pc \in [Recordings -> RunPlaces]
    BY DEF RunTypes
  <1>3. CASE HandleStartRecording
    <2>1. /\ HandlesNext("start") /\ messages' = Tail(messages)
          /\ UNCHANGED <<codec, mIsRecording>>
          /\ \/ UNCHANGED <<mMuxer, pc>>
             \/ /\ mMuxer = None /\ made' = made + 1 /\ mMuxer' = made'
                /\ pc' = [pc EXCEPT ![made'] = "check"]
      BY <1>3 DEF HandleStartRecording, Ignored, handlerVars, codecVars
    <2>2. /\ \A m : Waiting(m)' => Waiting(m) /\ Follows("start", m)
          /\ \A m, n : Follows(m, n)' => Follows(m, n)
          /\ ~Follows("stop", "start")' /\ ~Restarts' /\ PreviewLast'
          /\ InStopPreview => InStopPreview'
          /\ Waiting("start")
      BY <2>1, TakenQueue DEF Queue
    <2>3. \A r \in Recordings : Live(r)' <=> Live(r)
      <3> TAKE r \in Recordings
      <3>1. r = made + 1 => codec[r] = "none"
        BY <1>1, Bounds DEF Life, LifeOf
      <3> QED
        BY <1>1, <1>2, <2>1, <3>1 DEF Live
    <2>4. mMuxer = None => ~mIsRecording /\ \A r \in Recordings : ~Live(r)
      BY <1>1, <2>2 DEF OneLive
    <2>5. OneLive'
      BY <1>1, <2>1, <2>2, <2>3, <2>4 DEF OneLive
    <2>6. mMuxer = None /\ Waiting("stop")' => InStopPreview'
      BY <2>2 DEF Queue
    <2>7. Follows("start", "stop")' /\ ~InStopPreview' => mMuxer # None
      BY <2>2 DEF Queue
    <2>8. mMuxer # None => mMuxer' # None
      BY <2>1
    <2> QED
      BY <2>1, <2>2, <2>5, <2>6, <2>7, <2>8 DEF Queue
  <1>4. CASE Prepare
    <2>1. /\ mMuxer \in Recordings /\ codec[mMuxer] = "none"
          /\ UNCHANGED <<mMuxer, pc, messages>>
          /\ \/ codec' = [codec EXCEPT ![mMuxer] = "running"] /\ mIsRecording'
             \/ UNCHANGED <<codec, mIsRecording>>
      BY <1>1, <1>4, Bounds DEF Prepare, Life, LifeOf, handlerVars, None
    <2>2. CASE UNCHANGED <<codec, mIsRecording>>
      BY <2>1, <2>2, LiveSame
    <2>3. CASE codec' = [codec EXCEPT ![mMuxer] = "running"] /\ mIsRecording'
      <3>1. \A r \in Recordings : ~Live(r)
        BY <1>1, <2>1 DEF OneLive, Live
      <3>2. pc[mMuxer] # "release"
        BY <2>1 DEF Life, LifeOf, Stopping
      <3>3. \A r \in Recordings : Live(r)' <=> r = mMuxer
        BY <1>2, <2>1, <2>3, <3>1, <3>2 DEF Live
      <3>4. OneLive'
        BY <2>1, <2>3, <3>3 DEF OneLive
      <3>5. Queue'
        BY <2>1, <2>3 DEF Queue, Waiting, Follows, Restarts, PreviewLast, InStopPreview
      <3> QED
        BY <3>4, <3>5
    <2> QED
      BY <2>1, <2>2, <2>3
  <1>5. CASE StartEncoder
    <2>1. UNCHANGED <<codec, mMuxer, mIsRecording, messages>> /\ NotifyAll(mMuxer)
      BY <1>5 DEF StartEncoder, handlerVars, codecVars
    <2>2. \A r \in Recordings : pc'[r] = "release" <=> pc[r] = "release"
      BY <1>2, <2>1, Wakes
    <2> QED
      BY <2>1, <2>2, LiveSame
  <1>6. CASE HandleStopRecording
    <2>1. /\ HandlesNext("stop") /\ messages' = Tail(messages) /\ mMuxer' = None
          /\ UNCHANGED <<codec, mIsRecording>> /\ (UNCHANGED pc \/ NotifyAll(mMuxer))
      BY <1>6 DEF HandleStopRecording, StopEncoder, codecVars
    <2>2. /\ \A m : Waiting(m)' => Waiting(m) /\ Follows("stop", m)
          /\ \A m, n : Follows(m, n)' => Follows(m, n)
          /\ ~Restarts' /\ PreviewLast'
          /\ InStopPreview => InStopPreview'
      BY <2>1, TakenQueue DEF Queue
    <2>3. \A r \in Recordings : Live(r)' <=> Live(r)
      BY <1>2, <2>1, Wakes DEF Live
    <2>4. mMuxer # None => ~Waiting("start")'
      BY <2>2 DEF Queue
    <2>5. OneLive'
      BY <1>1, <2>1, <2>2, <2>3, <2>4 DEF OneLive
    <2>6. Follows("start", "stop")' => InStopPreview'
      <3>1. Follows("start", "stop")' => Waiting("start")'
        BY DEF Follows, Waiting
      <3> QED
        BY <2>2, <2>4, <3>1 DEF Queue
    <2> QED
      BY <2>1, <2>2, <2>5, <2>6 DEF Queue
  <1>7. CASE HandleStopPreview
    <2>1. /\ HandlesNext("stopPreview") /\ messages' = Tail(messages)
          /\ UNCHANGED <<codec, mIsRecording, mMuxer, pc>>
      BY <1>7 DEF HandleStopPreview, Ignored, handlerVars, codecVars
    <2>2. /\ \A m : ~Waiting(m)'
          /\ \A m, n : Follows(m, n)' => Follows(m, n)
          /\ ~Restarts' /\ PreviewLast'
      BY <2>1, TakenQueue DEF Queue
    <2>3. \A r \in Recordings : Live(r)' <=> Live(r)
      BY <2>1 DEF Live
    <2>4. OneLive'
      BY <2>1, <2>2, <2>3 DEF OneLive
    <2>5. ~Follows("start", "stop")' /\ ~Follows("stop", "start")'
      BY <2>2 DEF Follows, Waiting
    <2> QED
      BY <2>1, <2>2, <2>4, <2>5 DEF Queue
  <1> QED
    BY <1>3, <1>4, <1>5, <1>6, <1>7 DEF Camera

\* Neither does any other step, and the flag falls with the recording it is about.
LEMMA OthersKeep ==
    ASSUME HandlerTypes, RunTypes, Calls, Life, OneLive, Queue,
           \/ Callback
           \/ \E r \in Recordings : Run(r) \/ Encode(r) \/ Collect(r) \/ SpuriousWakeup(r)
           \/ UNCHANGED vars
    PROVE  OneLive' /\ Queue'
  <1>1. None \notin Recordings /\ mMuxer \in {None, made} /\ made \in 0 .. MaxRecordings
    BY Bounds DEF None, HandlerTypes
  <1>2. /\ codec \in [Recordings -> {"none", "running", "released"}]
        /\ pc \in [Recordings -> RunPlaces]
    BY DEF RunTypes
  <1>3. CASE Callback
    <2>1. /\ UNCHANGED <<codec, mMuxer, mIsRecording, messages>>
          /\ UNCHANGED pc \/ NotifyAll(target)
      BY <1>3
      DEF Callback, OnFrame, ReadEncoder, EncodeFrame, FrameAvailableSoon,
          callbackFrame, handlerVars
    <2>2. \A r \in Recordings : pc'[r] = "release" <=> pc[r] = "release"
      BY <1>2, <2>1, Wakes
    <2> QED
      BY <2>1, <2>2, LiveSame
  <1>4. ASSUME NEW r \in Recordings, OnStopped(r) PROVE OneLive' /\ Queue'
    <2>1. /\ pc[r] = "onStopped" /\ pc' = [pc EXCEPT ![r] = "release"] /\ ~mIsRecording'
          /\ UNCHANGED <<codec, mMuxer, messages>>
      BY <1>4 DEF OnStopped, Goto, runFrame, handlerVars, codecVars
    <2>2. mRequestStop[r] /\ codec[r] = "running" /\ mMuxer # r
      BY <1>2, <2>1 DEF Life, LifeOf, Stopping
    <2>3. Live(r)
      BY <2>1, <2>2 DEF Live
    <2>4. mMuxer = None /\ ~Waiting("start")
      BY <2>2, <2>3 DEF OneLive
    <2>5. \A s \in Recordings : ~Live(s)'
      BY <1>2, <2>1, <2>3 DEF OneLive, Live
    <2>6. OneLive'
      BY <2>1, <2>5 DEF OneLive
    <2>7. Queue'
      BY <2>1, <2>4 DEF Queue, Waiting, Follows, Restarts, PreviewLast, InStopPreview
    <2> QED
      BY <2>6, <2>7
  <1>5. ASSUME NEW r \in Recordings, Release(r) PROVE OneLive' /\ Queue'
    <2>1. /\ pc[r] = "release" /\ pc' = [pc EXCEPT ![r] = "stopMuxer"]
          /\ codec' = [codec EXCEPT ![r] = "released"]
          /\ UNCHANGED <<mIsRecording, mMuxer, messages>>
      BY <1>5 DEF Release, Goto, runFrame, handlerVars
    <2>2. \A s \in Recordings : Live(s)' <=> Live(s)
      BY <1>2, <2>1 DEF Live
    <2>3. OneLive'
      BY <2>1, <2>2 DEF OneLive, Waiting
    <2>4. Queue'
      BY <2>1 DEF Queue, Waiting, Follows, Restarts, PreviewLast, InStopPreview
    <2> QED
      BY <2>3, <2>4
  <1>6. ASSUME NEW r \in Recordings, Run(r) \/ Encode(r) \/ Collect(r) \/ SpuriousWakeup(r),
               ~OnStopped(r), ~Release(r)
        PROVE  OneLive' /\ Queue'
    <2>1. UNCHANGED <<codec, mMuxer, mIsRecording, messages>>
      BY <1>6
      DEF Run, Drain, CheckRequests, Sleep, LeaveDrain, AddTrack, StartMuxer,
          WriteSampleData, DrainEnd, SignalEndOfInputStream, StopMuxer, Exit, Encode,
          Collect, SpuriousWakeup, runFrame, handlerVars, codecVars
    <2>2. \A s \in Recordings : pc'[s] = "release" <=> pc[s] = "release"
      BY <1>2, <1>6
      DEF Run, Drain, CheckRequests, Sleep, LeaveDrain, AddTrack, StartMuxer,
          WriteSampleData, DrainEnd, EndCapturing, SignalEndOfInputStream,
          SignalAndDrain, StopMuxer, Exit, Encode, Collect, SpuriousWakeup, Goto,
          Drains, AfterDrain, Loops
    <2> QED
      BY <2>1, <2>2, LiveSame
  <1>7. CASE UNCHANGED vars
    BY <1>7, LiveSame DEF vars, handlerVars, codecVars
  <1> QED
    BY <1>3, <1>4, <1>5, <1>6, <1>7

-------------------------------------------------------------------------------
(* The invariant *)

\* The invariant holds at first.
LEMMA InitIInv ==
    Init => IInv
  <1> SUFFICES ASSUME Init PROVE IInv
    OBVIOUS
  <1>1. /\ messages = <<>> /\ mMuxer = None /\ videoEncoder = None /\ made = 0
        /\ mIsRecording = FALSE /\ camera = "idle" /\ callback = "idle" /\ shown = 0
        /\ target = None /\ None = 0
    BY DEF Init, None
  <1>2. HandlerTypes
    <2>1. messages \in Seq(Messages) /\ Len(messages) = 0
      BY <1>1
    <2>2. StartsOf(messages) = {}
      BY <1>1 DEF StartsOf
    <2>3. Cardinality(StartsOf(messages)) = 0
      BY <2>2, FS_EmptySet
    <2>4. /\ made \in 0 .. MaxRecordings /\ target \in 0 .. MaxRecordings
          /\ shown \in 0 .. MaxFrames /\ Len(messages) <= MaxMessages
          /\ made + Cardinality(StartsOf(messages)) <= MaxRecordings
      BY <1>1, <2>1, <2>3, Bounds
    <2>5. /\ mIsRecording \in BOOLEAN /\ camera \in CameraPlaces /\ callback \in CallPlaces
          /\ videoEncoder = made /\ mMuxer \in {None, made}
      BY <1>1 DEF CameraPlaces, CallPlaces
    <2> QED
      BY <2>1, <2>4, <2>5 DEF HandlerTypes
  <1>3. RunTypes
    BY DEF Init, RunTypes, RunPlaces
  <1>4. Calls
    BY <1>1 DEF Init, Calls
  <1>5. Life
    BY <1>1, Bounds DEF Init, Life, LifeOf, Stopping, Ending
  <1>6. \A r \in Recordings : Muxing(r)
    BY DEF Init, Muxing
  <1>7. \A r \in Recordings : Writing(r)
    <2> TAKE r \in Recordings
    <2>1. /\ drained[r] = 0 /\ encoded[r] = 0 /\ input[r] = <<>> /\ file[r] = <<>>
          /\ pc[r] = "none" /\ ~mIsEOS[r]
      BY DEF Init
    <2>2. Len(<<>>) = 0 /\ SubSeq(<<>>, 1, 0) = <<>>
      BY SubSeqEmpty
    <2>3. Drained(r)
      BY <2>1, <2>2 DEF Drained
    <2>4. ~Ended(r)
      BY <2>1 DEF Ended
    <2> QED
      BY <2>1, <2>2, <2>3, <2>4 DEF Writing, Ending
  <1>8. OneLive
    BY <1>1 DEF Init, OneLive, Live
  <1>9. Queue
    <2>1. DOMAIN messages = {}
      BY <1>1
    <2> QED
      BY <1>1, <2>1 DEF Queue, Waiting, Follows, Restarts, PreviewLast, InStopPreview
  <1> QED
    BY <1>2, <1>3, <1>4, <1>5, <1>6, <1>7, <1>8, <1>9 DEF IInv

\* Every step keeps the invariant.
LEMMA IInvKept ==
    IInv /\ [Next]_vars => IInv'
  <1> SUFFICES ASSUME IInv, [Next]_vars PROVE IInv'
    OBVIOUS
  <1>1. /\ HandlerTypes /\ RunTypes /\ Calls /\ Life /\ OneLive /\ Queue
        /\ \A r \in Recordings : Muxing(r) /\ Writing(r)
    BY DEF IInv
  <1>2. \/ StartRecording \/ StopRecording \/ StopPreview
        \/ Camera \/ Callback
        \/ \E r \in Recordings : Run(r) \/ Encode(r) \/ Collect(r) \/ SpuriousWakeup(r)
        \/ UNCHANGED vars
    BY DEF Next
  <1>3. HandlerTypes' /\ Calls'
    BY <1>1, HandlerTypesKept, CallsKept
  <1>4. RunTypes' /\ Life'
    <2>1. CASE Camera \/ Callback
      BY <1>1, <2>1, RunTypesCamera, LifeCamera
    <2>2. ASSUME NEW r \in Recordings, Run(r) \/ Encode(r) \/ Collect(r) \/ SpuriousWakeup(r)
          PROVE  RunTypes' /\ Life'
      BY <1>1, <2>2, RunTypesRun, LifeRun
    <2>3. CASE StartRecording \/ StopRecording \/ StopPreview \/ UNCHANGED vars
      <3>1. UNCHANGED <<handlerVars, mIsCapturing, mRequestStop, mRequestDrain, encoderVars,
                        codecVars, muxerVars, camera, pc>>
        BY <2>3 DEF StartRecording, StopRecording, StopPreview, Send, vars
      <3> QED
        BY <1>1, <3>1
        DEF RunTypes, Life, LifeOf, handlerVars, encoderVars, codecVars, muxerVars
    <2> QED
      BY <1>2, <2>1, <2>2, <2>3
  <1>5. \A r \in Recordings : Muxing(r)' /\ Writing(r)'
    BY <1>1, FilesKept
  <1>6. OneLive' /\ Queue'
    BY <1>1, <1>2, SendKeeps, CameraKeeps, OthersKeep
  <1> QED
    BY <1>3, <1>4, <1>5, <1>6 DEF IInv

\* The invariant: every recording is where its thread, codec, muxer and file agree, and
\* one is live at a time.
THEOREM InvariantHolds == Spec => []IInv
  <1>1. Init => IInv
    BY InitIInv
  <1>2. IInv /\ [Next]_vars => IInv'
    BY IInvKept
  <1> QED
    BY <1>1, <1>2, PTL DEF Spec

-------------------------------------------------------------------------------
(* What it means *)

\* Every field keeps its type, and a muxer is not stopped more often than started.
THEOREM TypeCorrect == Spec => []TypeOK
  <1>1. IInv => TypeOK
    <2> SUFFICES ASSUME IInv PROVE TypeOK
      OBVIOUS
    <2>1. HandlerTypes /\ RunTypes /\ Calls /\ \A r \in Recordings : Muxing(r) /\ Writing(r)
      BY DEF IInv
    <2>2. messages \in Seq({"start", "stop", "stopPreview"}) /\ Len(messages) <= MaxMessages
      BY <2>1 DEF HandlerTypes, Messages
    <2>3. {mMuxer, videoEncoder, target, made} \subseteq 0..MaxRecordings
      BY <2>1, Bounds DEF HandlerTypes, None
    <2>4. {mIsCapturing, mRequestStop, mIsEOS, mMuxerStarted, formatted, mIsStarted}
              \subseteq [Recordings -> BOOLEAN]
      BY <2>1 DEF RunTypes
    <2>5. mRequestDrain \in [Recordings -> 0..MaxFrames]
      <3>1. mRequestDrain \in [Recordings -> Nat] /\ shown \in 0 .. MaxFrames
        BY <2>1 DEF RunTypes, HandlerTypes
      <3>2. \A r \in Recordings : mRequestDrain[r] \in 0 .. MaxFrames
        BY <2>1, <3>1, Bounds DEF Calls
      <3> QED
        BY <3>1, <3>2
    <2>6. codec \in [Recordings -> {"none", "running", "released"}]
      BY <2>1 DEF RunTypes
    <2>7. \A r \in Recordings : drained[r] <= encoded[r] /\ encoded[r] <= Len(input[r])
      BY <2>1 DEF Writing
    <2>8. mStatredCount \in [Recordings -> 0..1]
      <3>1. \A r \in Recordings : mStatredCount[r] \in 0..1
        BY <2>1 DEF Muxing
      <3> QED
        BY <2>1, <3>1 DEF RunTypes
    <2>9. \A r \in Recordings : mIsStarted[r] <=> muxer[r] = "started"
      BY <2>1 DEF Muxing
    <2>10. mIsRecording \in BOOLEAN /\ shown \in 0..MaxFrames
      BY <2>1 DEF HandlerTypes
    <2> QED
      BY <2>2, <2>3, <2>4, <2>5, <2>6, <2>7, <2>8, <2>9, <2>10 DEF TypeOK
  <1> QED
    BY <1>1, InvariantHolds, PTL

\* The file of a recording whose thread has ended holds every frame its codec took, and
\* is closed, for whatever starts, stops, faults and wakeups there were.
THEOREM FileIsWhole == Spec => []NothingLost
  <1>1. IInv => NothingLost
    <2> SUFFICES ASSUME IInv, NEW r \in Recordings, pc[r] = "exited", ~collected[r]
                 PROVE  /\ \E n \in DOMAIN input[r] :
                              input[r][n] = EOS /\ file[r] = SubSeq(input[r], 1, n - 1)
                        /\ file[r] # <<>> => muxer[r] = "released"
      BY DEF NothingLost
    <2>1. /\ RunTypes /\ Muxing(r) /\ Writing(r)
      BY DEF IInv
    <2>2. Ended(r) /\ drained[r] <= Len(input[r])
      BY <2>1 DEF Writing, Ending, RunTypes
    <2>3. drained[r] \in DOMAIN input[r]
      BY <2>1, <2>2 DEF Ended, RunTypes
    <2>4. file[r] # <<>> => muxer[r] = "released"
      BY <2>1 DEF Muxing, RunTypes
    <2> QED
      BY <2>2, <2>3, <2>4 DEF Ended
  <1> QED
    BY <1>1, InvariantHolds, PTL

\* As long as the handler has a muxer whose codec runs, isRecording() is true: no late
\* onStopped of another recording clears the flag.
THEOREM FlagTruth == Spec => []FlagFollows
  <1>1. IInv => FlagFollows
    <2> SUFFICES ASSUME IInv, mMuxer # None, codec[mMuxer] = "running"
                 PROVE  mIsRecording
      BY DEF FlagFollows
    <2>1. mMuxer \in Recordings
      BY Bounds DEF IInv, HandlerTypes, None
    <2>2. pc[mMuxer] # "release"
      BY <2>1 DEF IInv, Life, LifeOf, Stopping
    <2> QED
      BY <2>1, <2>2 DEF IInv, OneLive, Live
  <1> QED
    BY <1>1, InvariantHolds, PTL

\* Every muxer is driven as MediaMuxer asks for: added to, started, written to and
\* stopped in this order, whoever collects it.
THEOREM MuxerUsedAsAsked == Spec => ImplementsMuxer
  <1>1. Init => Muxer!Init
    BY DEF Init, Muxer!Init
  <1>2. IInv /\ [Next]_vars => [Muxer!Next]_Muxer!vars
    <2> SUFFICES ASSUME IInv, [Next]_vars
                 PROVE  [Muxer!Next]_Muxer!vars
      OBVIOUS
    <2>1. CASE UNCHANGED <<muxer, tracks, file>>
      BY <2>1 DEF Muxer!vars
    <2>2. ASSUME NEW r \in Recordings, AddTrack(r) PROVE Muxer!Next
      <3>1. RunTypes /\ Muxing(r)
        BY DEF IInv
      <3>2. tracks[r] = {} /\ muxer[r] = "initialized"
        BY <2>2, <3>1 DEF AddTrack, Muxing, RunTypes
      <3>3. Muxer!AddTrack(r, "video")
        BY <2>2, <3>1, <3>2 DEF AddTrack, Muxer!AddTrack, RunTypes
      <3> QED
        BY <3>3 DEF Muxer!Next
    <2>3. ASSUME NEW r \in Recordings, StartMuxer(r) PROVE Muxer!Next
      <3>1. RunTypes /\ Muxing(r)
        BY DEF IInv
      <3>2. mStatredCount[r] = 0 /\ mMuxerStarted[r] /\ Loops(r)
        BY <2>3 DEF StartMuxer, Starting
      <3>3. tracks[r] = {"video"} /\ muxer[r] = "initialized"
        BY <3>1, <3>2 DEF Muxing, RunTypes, Loops, Drains
      <3>4. mStatredCount'[r] = 1
        BY <2>3, <3>1, <3>2 DEF StartMuxer, RunTypes
      <3>5. muxer' = [muxer EXCEPT ![r] = "started"] /\ UNCHANGED <<tracks, file>>
        BY <2>3, <3>4 DEF StartMuxer, StartIfAllReady
      <3> QED
        BY <3>3, <3>5 DEF Muxer!Next, Muxer!Start
    <2>4. ASSUME NEW r \in Recordings, WriteSampleData(r)
          PROVE  Muxer!Next \/ UNCHANGED <<muxer, tracks, file>>
      <3>1. RunTypes /\ Muxing(r) /\ Writing(r)
        BY DEF IInv
      <3>2. Output(r) \in 1 .. MaxFrames
        <4>1. Output(r) \in Frames /\ Output(r) # EOS
          BY <2>4, <3>1 DEF WriteSampleData, Ready, Output, Writing, RunTypes
        <4> QED
          BY <4>1, Bounds DEF Frames, EOS
      <3>3. muxer[r] = "started" /\ tracks[r] # {}
        BY <2>4, <3>1 DEF WriteSampleData, Starting, Muxing, RunTypes
      <3>4. /\ UNCHANGED <<muxer, tracks>>
            /\ file' = [file EXCEPT ![r] = Append(@, Output(r))] \/ UNCHANGED file
        BY <2>4 DEF WriteSampleData
      <3>5. CASE file' = [file EXCEPT ![r] = Append(@, Output(r))]
        <4>1. Muxer!WriteSampleData(r, Output(r))
          BY <3>3, <3>4, <3>5 DEF Muxer!WriteSampleData
        <4> QED
          BY <3>2, <4>1 DEF Muxer!Next
      <3> QED
        BY <3>4, <3>5
    <2>5. ASSUME NEW r \in Recordings, StopMuxer(r)
          PROVE  Muxer!Next \/ UNCHANGED <<muxer, tracks, file>>
      <3>1. RunTypes /\ Muxing(r)
        BY DEF IInv
      <3>2. pc[r] = "stopMuxer" /\ UNCHANGED <<tracks, file>>
        BY <2>5 DEF StopMuxer, Goto
      <3>3. CASE Stops(r)
        <4>1. muxer[r] = "started" /\ mStatredCount[r] = 1
          BY <3>1, <3>2, <3>3 DEF Stops, Muxing, RunTypes, Loops, Drains
        <4>2. mStatredCount'[r] = 0
          BY <2>5, <3>1, <3>3, <4>1 DEF StopMuxer, RunTypes
        <4>3. muxer' = [muxer EXCEPT ![r] = "released"]
          BY <2>5, <3>3, <4>2 DEF StopMuxer
        <4> QED
          BY <3>2, <4>1, <4>3 DEF Muxer!Next, Muxer!StopAndRelease
      <3>4. CASE ~Stops(r)
        BY <2>5, <3>4 DEF StopMuxer
      <3> QED
        BY <3>3, <3>4
    <2>6. ASSUME NEW r \in Recordings, Run(r)
          PROVE  Muxer!Next \/ UNCHANGED <<muxer, tracks, file>>
      BY <2>2, <2>3, <2>4, <2>5, <2>6
      DEF Run, Drain, CheckRequests, Sleep, LeaveDrain, DrainEnd,
          SignalEndOfInputStream, OnStopped, Release, Exit, muxerVars
    <2>7. ASSUME NEW r \in Recordings, Encode(r) \/ Collect(r) \/ SpuriousWakeup(r)
          PROVE  UNCHANGED <<muxer, tracks, file>>
      BY <2>7 DEF Encode, Collect, SpuriousWakeup, muxerVars
    <2>8. Camera \/ Callback => UNCHANGED <<muxer, tracks, file>>
      BY DEF Camera, HandleStartRecording, Ignored, Prepare, StartEncoder,
             HandleStopRecording, HandleStopPreview, Callback, OnFrame, ReadEncoder,
             EncodeFrame, FrameAvailableSoon, callbackFrame, muxerVars
    <2>9. StartRecording \/ StopRecording \/ StopPreview \/ UNCHANGED vars
             => UNCHANGED <<muxer, tracks, file>>
      BY DEF StartRecording, StopRecording, StopPreview, Send, vars, muxerVars
    <2> QED
      BY <2>1, <2>6, <2>7, <2>8, <2>9 DEF Next
  <1> QED
    BY <1>1, <1>2, InvariantHolds, PTL DEF Spec, ImplementsMuxer, Muxer!Spec

===============================================================================
