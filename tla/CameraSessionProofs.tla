------------------------- MODULE CameraSessionProofs -------------------------
(***************************************************************************)
(* Proofs about CameraSession for any devices and any number of openings,    *)
(* with faults, for patient and impatient applications.                      *)
(***************************************************************************)
EXTENDS CameraSession, FiniteSetTheorems, SequenceTheorems, TLAPS

PostKinds    == {"granted", "connect", "detached"}
MessageKinds == {"open", "start", "stop", "close"}
CameraStates == {"none", "created", "connected", "previewing", "destroyed"}

\* The places in a queue that hold an entry of some kind.
Marked(s, kinds) == {i \in DOMAIN s : s[i][1] \in kinds}
Count(s, kinds)  == Cardinality(Marked(s, kinds))

Requests == Count(posted, {"granted", "connect"})
Opens    == Count(messages, {"open"})
Used     == {c \in Cameras : camera[c] # "none"}

-------------------------------------------------------------------------------
(* The inductive invariant *)

UsbTypes ==
    /\ permitted \subseteq plugged /\ plugged \subseteq Devices
    /\ asking \subseteq Devices /\ IsFiniteSet(asking)
    /\ opens \in 0 .. MaxOpens
    /\ patient \in BOOLEAN /\ mHandler \in BOOLEAN /\ crashed \in BOOLEAN
    /\ mPermissionIntent \in BOOLEAN
    /\ posted \in Seq(PostKinds \X Devices)

BlockTypes ==
    /\ device \in Seq(Devices)
    /\ mConnection \subseteq 1 .. Len(device)
    /\ mCtrlBlocks \in [Devices -> Nat]
    /\ \A d \in Devices : mCtrlBlocks[d] # None =>
          mCtrlBlocks[d] \in 1 .. Len(device) /\ device[mCtrlBlocks[d]] = d

UiTypes ==
    /\ ui \in {"idle", "waiting", "woken", "destroying"}
    /\ uiNext \in {"idle", "destroying"}
    /\ closing \in 0 .. Len(device)

MessageTypes ==
    /\ messages \in Seq(MessageKinds \X Nat)
    /\ \A i \in DOMAIN messages :
          IF messages[i][1] = "open" THEN messages[i][2] \in 1 .. Len(device)
                                     ELSE messages[i][2] = None

ThreadTypes ==
    /\ thread \in {"idle", "open", "connect"}
    /\ mUVCCamera \in {None} \cup Used
    /\ camera \in [Cameras -> CameraStates]
    /\ block \in [Cameras -> {None} \cup Blocks]

\* Every control block and every UVCCamera can be charged to a call of open, and so can
\* the openings that are on their way.
Charged ==
    /\ IsFiniteSet(Used) /\ Used = 1 .. Cardinality(Used)
    /\ Len(device) + Cardinality(asking) + Requests <= opens
    /\ Cardinality(asking) + Requests + Opens + Cardinality(Used) <= opens

\* A patient application has one opening on its way, and then no camera.
OneAtATime ==
    patient => /\ Cardinality(asking) + Requests + Opens <= 1
               /\ mUVCCamera # None => Cardinality(asking) + Requests + Opens = 0

\* What the UI thread sends, and what it does not send while it waits.
Queued ==
    /\ \A i \in DOMAIN messages :
          /\ messages[i][1] = "open" => i < Len(messages) /\ messages[i + 1][1] = "start"
          /\ messages[i][1] = "stop" => ui = "waiting" /\ i = Len(messages)
    /\ ui = "woken" => messages = <<>> /\ thread = "idle"

\* A camera that is not connected has its start before it.
StartAhead ==
    mUVCCamera # None /\ ~Live(mUVCCamera) =>
        \E i \in DOMAIN messages : messages[i][1] = "start"

Types == UsbTypes /\ BlockTypes /\ UiTypes /\ MessageTypes /\ ThreadTypes

IInv ==
    /\ Types /\ Charged /\ OneAtATime /\ Queued /\ StartAhead
    /\ EachConnectionFiled /\ NoneLeaked /\ PreviewStopped

-------------------------------------------------------------------------------
(* Counting the entries of a queue *)

\* The entries of some kind can be counted.
LEMMA MarkedFinite ==
    ASSUME NEW S, NEW s \in Seq(S), NEW kinds
    PROVE  /\ IsFiniteSet(Marked(s, kinds)) /\ Count(s, kinds) \in Nat
           /\ (\E i \in DOMAIN s : s[i][1] \in kinds) <=> Count(s, kinds) > 0
  <1>1. DOMAIN s = 1 .. Len(s) /\ Len(s) \in Nat
    BY LenProperties
  <1>2. IsFiniteSet(1 .. Len(s))
    BY <1>1, FS_Interval
  <1>3. IsFiniteSet(Marked(s, kinds))
    BY <1>1, <1>2, FS_Subset DEF Marked
  <1>4. Count(s, kinds) \in Nat
    BY <1>3, FS_CardinalityType DEF Count
  <1>5. Count(s, kinds) = 0 <=> Marked(s, kinds) = {}
    BY <1>3, FS_EmptySet DEF Count
  <1>6. Marked(s, kinds) # {} <=> \E i \in DOMAIN s : s[i][1] \in kinds
    BY DEF Marked
  <1> QED
    BY <1>3, <1>4, <1>5, <1>6

\* An entry that is appended counts if it is of the kind.
LEMMA CountAppended ==
    ASSUME NEW S, NEW s \in Seq(S), NEW e \in S, NEW kinds
    PROVE  /\ Append(s, e) \in Seq(S) /\ Len(Append(s, e)) = Len(s) + 1
           /\ DOMAIN Append(s, e) = 1 .. Len(s) + 1 /\ Append(s, e)[Len(s) + 1] = e
           /\ \A i \in 1 .. Len(s) : Append(s, e)[i] = s[i]
           /\ Count(Append(s, e), kinds) =
                 IF e[1] \in kinds THEN Count(s, kinds) + 1 ELSE Count(s, kinds)
  <1> DEFINE t == Append(s, e)
  <1>1. /\ t \in Seq(S) /\ Len(t) = Len(s) + 1 /\ Len(s) \in Nat
        /\ DOMAIN t = 1 .. Len(s) + 1 /\ DOMAIN s = 1 .. Len(s)
        /\ t[Len(s) + 1] = e /\ \A i \in 1 .. Len(s) : t[i] = s[i]
    OBVIOUS
  <1> HIDE DEF t
  <1>2. IsFiniteSet(Marked(s, kinds)) /\ Count(s, kinds) \in Nat
    BY MarkedFinite
  <1>3. CASE e[1] \in kinds
    <2>1. Marked(t, kinds) = Marked(s, kinds) \cup {Len(s) + 1}
      BY <1>1, <1>3 DEF Marked
    <2>2. Len(s) + 1 \notin Marked(s, kinds)
      BY <1>1 DEF Marked
    <2>3. Count(t, kinds) = Count(s, kinds) + 1
      BY <1>2, <2>1, <2>2, FS_AddElement DEF Count
    <2> QED
      BY <1>1, <1>3, <2>3 DEF t
  <1>4. CASE e[1] \notin kinds
    <2>1. Marked(t, kinds) = Marked(s, kinds)
      BY <1>1, <1>4 DEF Marked
    <2> QED
      BY <1>1, <1>4, <2>1 DEF t, Count
  <1> QED
    BY <1>3, <1>4

\* An entry that is taken from the front counts if it is of the kind.
LEMMA CountTaken ==
    ASSUME NEW S, NEW s \in Seq(S), s # <<>>, NEW kinds
    PROVE  /\ Tail(s) \in Seq(S) /\ Len(s) \in Nat /\ Len(s) >= 1 /\ Len(Tail(s)) = Len(s) - 1
           /\ Head(s) = s[1] /\ Head(s) \in S
           /\ DOMAIN s = 1 .. Len(s) /\ DOMAIN Tail(s) = 1 .. Len(s) - 1
           /\ \A i \in 1 .. Len(s) - 1 : Tail(s)[i] = s[i + 1]
           /\ Count(s, kinds) =
                 IF Head(s)[1] \in kinds THEN Count(Tail(s), kinds) + 1
                                        ELSE Count(Tail(s), kinds)
  <1> DEFINE M == Marked(s, kinds) \ {1}
             T == Marked(Tail(s), kinds)
             f == [i \in T |-> i + 1]
  <1>1. /\ DOMAIN s = 1 .. Len(s) /\ Len(s) \in Nat /\ Len(s) >= 1
        /\ Tail(s) \in Seq(S) /\ Len(Tail(s)) = Len(s) - 1
        /\ DOMAIN Tail(s) = 1 .. Len(s) - 1
        /\ \A i \in 1 .. Len(s) - 1 : Tail(s)[i] = s[i + 1]
        /\ Head(s) = s[1] /\ Head(s) \in S
    BY HeadTailProperties
  <1>2. /\ \A i \in T : i \in Nat /\ i + 1 \in M
        /\ \A j \in M : j - 1 \in T /\ j \in Nat
    BY <1>1 DEF Marked
  <1>3. IsFiniteSet(T) /\ IsFiniteSet(Marked(s, kinds)) /\ Count(s, kinds) \in Nat
        /\ Count(Tail(s), kinds) \in Nat
    BY <1>1, MarkedFinite
  <1>4. 1 \in Marked(s, kinds) <=> Head(s)[1] \in kinds
    BY <1>1 DEF Marked
  <1>5. Cardinality(M) = IF Head(s)[1] \in kinds THEN Count(s, kinds) - 1 ELSE Count(s, kinds)
    BY <1>3, <1>4, FS_RemoveElement DEF Count
  <1> HIDE DEF M, T
  <1>6. f \in [T -> M]
    BY <1>2
  <1>7. \A a, b \in T : f[a] = f[b] => a = b
    BY <1>2
  <1>8. \A j \in M : \E i \in T : f[i] = j
    BY <1>2
  <1>9. f \in Bijection(T, M)
    BY <1>6, <1>7, <1>8 DEF Bijection, Injection, Surjection, IsInjective
  <1>10. Cardinality(T) = Cardinality(M)
    BY <1>3, <1>9, FS_Bijection DEF ExistsBijection
  <1>11. Count(s, kinds) = IF Head(s)[1] \in kinds THEN Count(Tail(s), kinds) + 1
                                                  ELSE Count(Tail(s), kinds)
    <2>1. Count(Tail(s), kinds) = Cardinality(M)
      BY <1>10 DEF T, Count
    <2> QED
      BY <1>3, <1>5, <2>1
  <1> QED
    BY <1>1, <1>11

\* What the queue of the UI thread gains and loses.
LEMMA Posted ==
    ASSUME UsbTypes, NEW k \in PostKinds, NEW d \in Devices, NEW q, q = Append(posted, <<k, d>>)
    PROVE  /\ q \in Seq(PostKinds \X Devices)
           /\ Count(q, {"granted", "connect"}) =
                 IF k = "detached" THEN Requests ELSE Requests + 1
  <1>1. posted \in Seq(PostKinds \X Devices) /\ <<k, d>> \in PostKinds \X Devices /\ <<k, d>>[1] = k
    BY DEF UsbTypes
  <1>2. /\ q \in Seq(PostKinds \X Devices)
        /\ Count(q, {"granted", "connect"}) =
              IF k \in {"granted", "connect"} THEN Requests + 1 ELSE Requests
    BY <1>1, CountAppended DEF Requests
  <1> QED
    BY <1>2 DEF PostKinds

\* The entry that is taken from the queue of the UI thread is counted no more.
LEMMA TakenFromPosted ==
    ASSUME UsbTypes, NEW k \in PostKinds, NEW d \in Devices, Takes(k, d)
    PROVE  /\ Tail(posted) \in Seq(PostKinds \X Devices)
           /\ Count(Tail(posted), {"granted", "connect"}) \in Nat
           /\ Requests = IF k = "detached" THEN Count(Tail(posted), {"granted", "connect"})
                         ELSE Count(Tail(posted), {"granted", "connect"}) + 1
  <1>1. /\ posted \in Seq(PostKinds \X Devices) /\ posted # <<>> /\ Head(posted) = <<k, d>>
        /\ <<k, d>>[1] = k
    BY DEF UsbTypes, Takes
  <1>2. /\ Tail(posted) \in Seq(PostKinds \X Devices)
        /\ Requests = IF k \in {"granted", "connect"}
                      THEN Count(Tail(posted), {"granted", "connect"}) + 1
                      ELSE Count(Tail(posted), {"granted", "connect"})
    BY <1>1, CountTaken DEF Requests
  <1>3. Count(Tail(posted), {"granted", "connect"}) \in Nat
    BY <1>2, MarkedFinite
  <1> QED
    BY <1>2, <1>3 DEF PostKinds

\* What the queue of the CameraThread gains and loses.
LEMMA Messaged ==
    ASSUME MessageTypes, NEW k \in MessageKinds, NEW n \in Nat,
           messages' = Append(messages, <<k, n>>)
    PROVE  /\ messages' \in Seq(MessageKinds \X Nat) /\ Len(messages) \in Nat
           /\ Len(messages') = Len(messages) + 1 /\ messages'[Len(messages) + 1] = <<k, n>>
           /\ DOMAIN messages = 1 .. Len(messages) /\ DOMAIN messages' = 1 .. Len(messages) + 1
           /\ \A i \in 1 .. Len(messages) : messages'[i] = messages[i]
           /\ Opens' = IF k = "open" THEN Opens + 1 ELSE Opens
  <1>1. /\ messages \in Seq(MessageKinds \X Nat) /\ <<k, n>> \in MessageKinds \X Nat
        /\ <<k, n>>[1] = k
    BY DEF MessageTypes
  <1>2. Opens' = IF k \in {"open"} THEN Opens + 1 ELSE Opens
    BY <1>1, CountAppended DEF Opens
  <1>3. /\ messages' \in Seq(MessageKinds \X Nat)
        /\ Len(messages') = Len(messages) + 1 /\ messages'[Len(messages) + 1] = <<k, n>>
        /\ DOMAIN messages' = 1 .. Len(messages) + 1
        /\ \A i \in 1 .. Len(messages) : messages'[i] = messages[i]
    BY <1>1, CountAppended
  <1>4. DOMAIN messages = 1 .. Len(messages) /\ Len(messages) \in Nat
    BY <1>1
  <1> QED
    BY <1>2, <1>3, <1>4

\* Two entries are appended one after the other.
LEMMA TwoAppended ==
    ASSUME NEW S, NEW s \in Seq(S), NEW e \in S, NEW g \in S
    PROVE  s \o <<e, g>> = Append(Append(s, e), g)
  <1> DEFINE t == s \o <<e, g>>
             u == Append(Append(s, e), g)
  <1>1. /\ t \in Seq(S) /\ Len(t) = Len(s) + 2 /\ Len(s) \in Nat
        /\ \A i \in 1 .. Len(s) : t[i] = s[i]
        /\ t[Len(s) + 1] = e /\ t[Len(s) + 2] = g
    OBVIOUS
  <1>2. /\ u \in Seq(S) /\ Len(u) = Len(s) + 2
        /\ \A i \in 1 .. Len(s) : u[i] = s[i]
        /\ u[Len(s) + 1] = e /\ u[Len(s) + 2] = g
    OBVIOUS
  <1> HIDE DEF t, u
  <1>3. \A i \in 1 .. Len(t) : i \in 1 .. Len(s) \/ i = Len(s) + 1 \/ i = Len(s) + 2
    BY <1>1
  <1>4. \A i \in 1 .. Len(t) : t[i] = u[i]
    BY <1>1, <1>2, <1>3
  <1>5. t = u
    BY <1>1, <1>2, <1>4, SeqEqual
  <1> QED
    BY <1>5 DEF t, u

\* onConnect sends two messages.
LEMMA OpenMessaged ==
    ASSUME MessageTypes, NEW n \in Nat,
           messages' = messages \o << <<"open", n>>, <<"start", None>> >>
    PROVE  /\ messages' \in Seq(MessageKinds \X Nat) /\ Len(messages) \in Nat
           /\ Len(messages') = Len(messages) + 2
           /\ messages'[Len(messages) + 1] = <<"open", n>>
           /\ messages'[Len(messages) + 2] = <<"start", None>>
           /\ DOMAIN messages = 1 .. Len(messages) /\ DOMAIN messages' = 1 .. Len(messages) + 2
           /\ \A i \in 1 .. Len(messages) : messages'[i] = messages[i]
           /\ Opens' = Opens + 1
  <1> DEFINE S == MessageKinds \X Nat
             e == <<"open", n>>
             g == <<"start", None>>
             s == Append(messages, e)
  <1>1. messages \in Seq(S) /\ e \in S /\ g \in S /\ e[1] = "open" /\ g[1] = "start"
    BY DEF MessageTypes, MessageKinds, None
  <1> HIDE DEF S
  <1>2. messages' = Append(s, g)
    <2> HIDE DEF e, g
    <2>1. messages \o <<e, g>> = Append(Append(messages, e), g)
      BY <1>1, TwoAppended
    <2> QED
      BY <2>1 DEF e, g
  <1>3. /\ s \in Seq(S) /\ Len(s) = Len(messages) + 1
        /\ s[Len(messages) + 1] = e /\ \A i \in 1 .. Len(messages) : s[i] = messages[i]
        /\ Count(s, {"open"}) = IF e[1] \in {"open"} THEN Count(messages, {"open"}) + 1
                                ELSE Count(messages, {"open"})
    <2> HIDE DEF e
    <2> QED
      BY <1>1, CountAppended
  <1> HIDE DEF s
  <1>4. /\ messages' \in Seq(S) /\ Len(messages') = Len(s) + 1
        /\ messages'[Len(s) + 1] = g /\ \A i \in 1 .. Len(s) : messages'[i] = s[i]
        /\ DOMAIN messages' = 1 .. Len(s) + 1
        /\ Count(messages', {"open"}) = IF g[1] \in {"open"} THEN Count(s, {"open"}) + 1
                                        ELSE Count(s, {"open"})
    <2> HIDE DEF g
    <2> DEFINE w == Append(s, g)
    <2>1. /\ w \in Seq(S) /\ Len(w) = Len(s) + 1 /\ w[Len(s) + 1] = g
          /\ \A i \in 1 .. Len(s) : w[i] = s[i] /\ DOMAIN w = 1 .. Len(s) + 1
          /\ DOMAIN w = 1 .. Len(s) + 1
          /\ Count(w, {"open"}) = IF g[1] \in {"open"} THEN Count(s, {"open"}) + 1
                                  ELSE Count(s, {"open"})
      BY <1>1, <1>3, CountAppended
    <2> QED
      BY <1>2, <2>1
  <1>5. DOMAIN messages = 1 .. Len(messages) /\ Len(messages) \in Nat
    BY <1>1
  <1>6. Opens' = Opens + 1
    <2>1. Count(s, {"open"}) = Count(messages, {"open"}) + 1
      BY <1>1, <1>3
    <2>2. Count(messages', {"open"}) = Count(s, {"open"})
      BY <1>1, <1>4
    <2> QED
      BY <2>1, <2>2 DEF Opens
  <1>7. Len(messages) + 1 \in 1 .. Len(s) /\ 1 .. Len(messages) \subseteq 1 .. Len(s)
        /\ Len(messages') = Len(messages) + 2 /\ DOMAIN messages' = 1 .. Len(messages) + 2
    BY <1>3, <1>4, <1>5
  <1>8. /\ messages'[Len(messages) + 1] = e /\ messages'[Len(messages) + 2] = g
        /\ \A i \in 1 .. Len(messages) : messages'[i] = messages[i]
    <2> HIDE DEF e, g
    <2>1. messages'[Len(messages) + 1] = s[Len(messages) + 1]
      BY <1>4, <1>7
    <2>2. Len(messages) + 2 = Len(s) + 1
      BY <1>3, <1>5
    <2>3. messages'[Len(messages) + 2] = g
      BY <1>4, <2>2
    <2> QED
      BY <1>3, <1>4, <1>7, <2>1, <2>3
  <1> QED
    BY <1>4, <1>5, <1>6, <1>7, <1>8 DEF S

\* What the CameraThread takes from its queue, and what is left.
LEMMA TakenFromMessages ==
    ASSUME MessageTypes, NEW k \in MessageKinds, Handles(k)
    PROVE  /\ messages' \in Seq(MessageKinds \X Nat) /\ Len(messages) \in Nat
           /\ Len(messages) >= 1 /\ Len(messages') = Len(messages) - 1
           /\ messages[1][1] = k /\ Head(messages) = messages[1]
           /\ DOMAIN messages = 1 .. Len(messages) /\ DOMAIN messages' = 1 .. Len(messages) - 1
           /\ \A i \in 1 .. Len(messages) - 1 : messages'[i] = messages[i + 1]
           /\ Opens' \in Nat /\ Opens = IF k = "open" THEN Opens' + 1 ELSE Opens'
  <1>1. /\ messages \in Seq(MessageKinds \X Nat) /\ messages # <<>>
        /\ Head(messages)[1] = k /\ messages' = Tail(messages)
    BY DEF MessageTypes, Handles
  <1>2. /\ messages' \in Seq(MessageKinds \X Nat) /\ Len(messages) \in Nat
        /\ Len(messages) >= 1 /\ Len(messages') = Len(messages) - 1
        /\ Head(messages) = messages[1]
        /\ DOMAIN messages = 1 .. Len(messages) /\ DOMAIN messages' = 1 .. Len(messages) - 1
        /\ \A i \in 1 .. Len(messages) - 1 : messages'[i] = messages[i + 1]
    BY <1>1, CountTaken
  <1>3. /\ Opens = IF Head(messages)[1] \in {"open"} THEN Count(Tail(messages), {"open"}) + 1
                   ELSE Count(Tail(messages), {"open"})
    BY <1>1, CountTaken DEF Opens
  <1>4. Opens' \in Nat
    BY <1>2, MarkedFinite DEF Opens
  <1>5. Opens' = Count(Tail(messages), {"open"})
    BY <1>1 DEF Opens
  <1> QED
    BY <1>1, <1>2, <1>3, <1>4, <1>5

\* The counts are numbers, and none is zero while there is an opening of its kind.
LEMMA CountsAreNumbers ==
    ASSUME UsbTypes, MessageTypes, ThreadTypes
    PROVE  /\ Requests \in Nat /\ Opens \in Nat /\ Cardinality(asking) \in Nat
           /\ ~Opening => Requests = 0 /\ Opens = 0 /\ Cardinality(asking) = 0
  <1>1. /\ posted \in Seq(PostKinds \X Devices) /\ messages \in Seq(MessageKinds \X Nat)
        /\ IsFiniteSet(asking)
    BY DEF UsbTypes, MessageTypes
  <1>2. /\ Requests \in Nat /\ Opens \in Nat /\ Cardinality(asking) \in Nat
        /\ asking = {} => Cardinality(asking) = 0
    BY <1>1, MarkedFinite, FS_CardinalityType, FS_EmptySet DEF Requests, Opens
  <1>3. ASSUME ~Opening PROVE Requests = 0 /\ Opens = 0 /\ asking = {}
    <2>1. /\ \A p \in Elements(posted) : p[1] \notin {"granted", "connect"}
          /\ \A x \in Elements(messages) : x[1] # "open"
          /\ asking = {}
      BY <1>3 DEF Opening
    <2>2. /\ ~ \E i \in DOMAIN posted : posted[i][1] \in {"granted", "connect"}
          /\ ~ \E i \in DOMAIN messages : messages[i][1] \in {"open"}
      BY <2>1 DEF Elements
    <2>3. ~(Requests > 0) /\ ~(Opens > 0)
      BY <1>1, <2>2, MarkedFinite DEF Requests, Opens
    <2> QED
      BY <1>2, <2>1, <2>3
  <1> QED
    BY <1>2, <1>3
-------------------------------------------------------------------------------
(* What the steps leave alone *)

\* The CameraThread changes neither the USB, nor the monitor, nor what the application has.
LEMMA ThreadLeavesAlone ==
    ASSUME Thread
    PROVE  UNCHANGED <<usbVars, monitorVars, appVars, posted>> /\ UNCHANGED <<uiNext, closing>>
  <1>1. CASE HandleOpen
    BY <1>1 DEF HandleOpen, threadFrame, uiVars
  <1>2. CASE GetFileDescriptor
    BY <1>2 DEF GetFileDescriptor, threadFrame, uiVars
  <1>3. CASE NativeConnect
    BY <1>3 DEF NativeConnect, threadFrame, uiVars
  <1>4. CASE HandleClose
    BY <1>4 DEF HandleClose, threadFrame, uiVars
  <1>5. CASE HandleStartPreview
    BY <1>5 DEF HandleStartPreview, threadFrame, uiVars
  <1>6. CASE HandleStopPreview
    BY <1>6 DEF HandleStopPreview, threadFrame, uiVars
  <1> QED
    BY <1>1, <1>2, <1>3, <1>4, <1>5, <1>6 DEF Thread

\* Closing a control block either closes its connection and sends a stop, or only moves on.
LEMMA BlockClosed ==
    ASSUME NEW b, NEW next, CloseBlock(b, next)
    PROVE  \/ /\ b \in mConnection /\ mConnection' = mConnection \ {b} /\ closing' = b
              /\ messages' = Append(messages, <<"stop", None>>)
              /\ ui' = "waiting" /\ uiNext' = next
           \/ /\ b \notin mConnection /\ ui' = next
              /\ UNCHANGED <<mConnection, closing, messages, uiNext>>
  BY DEF CloseBlock, CloseCamera

\* Looking a control block up leaves it as it is or makes one and files it.
LEMMA BlockGot ==
    ASSUME NEW d, GetBlock(d)
    PROVE  \/ mCtrlBlocks[d] # None /\ UNCHANGED <<mCtrlBlocks, device, mConnection>>
           \/ /\ mCtrlBlocks[d] = None /\ device' = Append(device, d)
              /\ mCtrlBlocks' = [mCtrlBlocks EXCEPT ![d] = Len(device')]
              /\ \/ mConnection' = mConnection \cup {Len(device')}
                 \/ mConnection' = mConnection
  BY DEF GetBlock, OpenDevice

-------------------------------------------------------------------------------
(* UsbTypes *)

\* Every step keeps the types of the USB, the application and the posted queue.
LEMMA UsbTypesKept ==
    ASSUME UsbTypes, [Next]_vars, SessionAssumption
    PROVE  UsbTypes'
  <1> USE DEF UsbTypes
  <1>1. ASSUME NEW d \in Devices, Unplug(d) PROVE UsbTypes'
    <2>1. mPermissionIntent => posted' \in Seq(PostKinds \X Devices)
      BY <1>1, "detached" \in PostKinds, Posted DEF Unplug, PostKinds
    <2>2. /\ posted' \in Seq(PostKinds \X Devices)
          /\ plugged' = plugged \ {d} /\ permitted' = permitted \ {d}
      BY <1>1, <2>1 DEF Unplug
    <2> QED
      BY <1>1, <2>2 DEF Unplug, monitorVars, appVars
  <1>2. ASSUME NEW d \in Devices, Answer(d) PROVE UsbTypes'
    <2>1. posted' \in Seq(PostKinds \X Devices)
      BY <1>2, "granted" \in PostKinds, Posted DEF Answer, PostKinds
    <2>2. permitted' \subseteq plugged /\ asking' = asking \ {d}
      BY <1>2 DEF Answer
    <2>3. IsFiniteSet(asking') /\ asking' \subseteq Devices
      BY <2>2, FS_RemoveElement
    <2> QED
      BY <1>2, <2>1, <2>2, <2>3 DEF Answer, monitorVars, appVars
  <1>3. ASSUME NEW d \in Devices, Open(d) PROVE UsbTypes'
    <2>1. posted' \in Seq(PostKinds \X Devices)
      BY <1>3, "connect" \in PostKinds, Posted DEF Open, RequestPermission, PostKinds
    <2>2. asking' = asking \/ asking' = asking \cup {d}
      BY <1>3 DEF Open, RequestPermission
    <2>3. IsFiniteSet(asking') /\ asking' \subseteq Devices
      BY <2>2, FS_AddElement
    <2>4. opens' \in 0 .. MaxOpens
      BY <1>3 DEF Open, SessionAssumption
    <2> QED
      BY <1>3, <2>1, <2>3, <2>4 DEF Open, monitorVars
  <1>4. ASSUME NEW d \in Devices, PermissionGranted(d) PROVE UsbTypes'
    <2> DEFINE t == Tail(posted)
    <2>1. t \in Seq(PostKinds \X Devices) /\ <<"connect", d>> \in PostKinds \X Devices
      BY <1>4, TakenFromPosted DEF PermissionGranted, PostKinds
    <2> HIDE DEF t
    <2>2. Append(t, <<"connect", d>>) \in Seq(PostKinds \X Devices)
      BY <2>1
    <2>3. posted' = Append(t, <<"connect", d>>) \/ posted' = t
      BY <1>4 DEF PermissionGranted, t
    <2> QED
      BY <1>4, <2>1, <2>2, <2>3 DEF PermissionGranted, usbVars, monitorVars, appVars
  <1>5. ASSUME NEW d \in Devices, Detached(d) PROVE UsbTypes'
    <2>1. posted' \in Seq(PostKinds \X Devices)
      BY <1>5, TakenFromPosted DEF Detached, PostKinds
    <2> QED
      BY <1>5, <2>1 DEF Detached, usbVars, appVars
  <1>6. ASSUME NEW d \in Devices, Connect(d) PROVE UsbTypes'
    <2>1. posted' \in Seq(PostKinds \X Devices)
      BY <1>6, TakenFromPosted DEF Connect, PostKinds
    <2>2. crashed' \in BOOLEAN
      BY <1>6 DEF Connect
    <2> QED
      BY <1>6, <2>1, <2>2 DEF Connect, usbVars
  <1>7. ASSUME NEW d \in Devices, DestroyBlock(d) PROVE UsbTypes'
    BY <1>7 DEF DestroyBlock, usbVars, appVars
  <1>8. CASE Close \/ CameraClosed \/ Destroy \/ Destroyed
    BY <1>8 DEF Close, CameraClosed, Destroy, Destroyed, usbVars, monitorVars, appVars
  <1>9. CASE Thread
    BY <1>9, ThreadLeavesAlone DEF usbVars, monitorVars, appVars
  <1>10. CASE UNCHANGED vars
    BY <1>10 DEF vars, usbVars, monitorVars, appVars
  <1> QED
    BY <1>1, <1>2, <1>3, <1>4, <1>5, <1>6, <1>7, <1>8, <1>9, <1>10 DEF Next, Ui

-------------------------------------------------------------------------------
(* Control blocks *)

\* Whatever block is taken out of the files is closed.
LEMMA BlocksKeptByRemoval ==
    ASSUME BlockTypes, EachConnectionFiled, NEW d \in Devices, mCtrlBlocks[d] # None,
           RemoveBlock(d), UNCHANGED device,
           mConnection' = mConnection \ {mCtrlBlocks[d]}
    PROVE  BlockTypes' /\ EachConnectionFiled'
  <1>1. mCtrlBlocks' \in [Devices -> Nat]
    BY DEF BlockTypes, RemoveBlock, None
  <1>2. /\ mCtrlBlocks'[d] = None
        /\ \A x \in Devices : x # d => mCtrlBlocks'[x] = mCtrlBlocks[x]
    BY DEF BlockTypes, RemoveBlock
  <1>3. \A x \in Devices : mCtrlBlocks'[x] # None =>
          mCtrlBlocks'[x] \in 1 .. Len(device') /\ device'[mCtrlBlocks'[x]] = x
    BY <1>2 DEF BlockTypes
  <1>4. BlockTypes'
    BY <1>1, <1>3 DEF BlockTypes
  <1>5. ASSUME NEW b \in mConnection' PROVE mCtrlBlocks'[device'[b]] = b
    <2>1. b \in mConnection /\ b # mCtrlBlocks[d] /\ mCtrlBlocks[device[b]] = b
      BY <1>5 DEF EachConnectionFiled
    <2>2. device[b] \in Devices /\ device[b] # d
      BY <2>1 DEF BlockTypes
    <2> QED
      BY <1>2, <2>1, <2>2
  <1> QED
    BY <1>4, <1>5 DEF EachConnectionFiled

\* A block that is made is filed under its device; the ones before are not touched.
LEMMA BlocksKeptByConnect ==
    ASSUME BlockTypes, EachConnectionFiled, NEW d \in Devices, GetBlock(d)
    PROVE  /\ BlockTypes' /\ EachConnectionFiled' /\ mCtrlBlocks'[d] \in 1 .. Len(device')
           /\ 1 .. Len(device) \subseteq 1 .. Len(device')
           /\ Len(device) \in Nat /\ Len(device') \in {Len(device), Len(device) + 1}
           /\ \A b \in 1 .. Len(device) : device'[b] = device[b]
  <1> DEFINE n == Len(device) + 1
  <1>1. device \in Seq(Devices) /\ Len(device) \in Nat
    BY DEF BlockTypes
  <1>2. CASE mCtrlBlocks[d] # None /\ UNCHANGED <<mCtrlBlocks, device, mConnection>>
    BY <1>1, <1>2 DEF BlockTypes, EachConnectionFiled
  <1>3. CASE /\ mCtrlBlocks[d] = None /\ device' = Append(device, d)
             /\ mCtrlBlocks' = [mCtrlBlocks EXCEPT ![d] = Len(device')]
             /\ \/ mConnection' = mConnection \cup {Len(device')}
                \/ mConnection' = mConnection
    <2>1. /\ device' \in Seq(Devices) /\ Len(device') = n /\ device'[n] = d
          /\ \A b \in 1 .. Len(device) : device'[b] = device[b]
      BY <1>1, <1>3
    <2>2. /\ mCtrlBlocks' \in [Devices -> Nat] /\ mCtrlBlocks'[d] = n
          /\ \A x \in Devices : x # d => mCtrlBlocks'[x] = mCtrlBlocks[x]
      BY <1>1, <1>3, <2>1 DEF BlockTypes
    <2>3. 1 .. Len(device) \subseteq 1 .. n /\ n \in 1 .. n
      BY <1>1
    <2>4. mConnection' \subseteq mConnection \cup {n} /\ mConnection \subseteq 1 .. Len(device)
      BY <1>3, <2>1 DEF BlockTypes
    <2>5. \A x \in Devices : mCtrlBlocks'[x] # None =>
              mCtrlBlocks'[x] \in 1 .. n /\ device'[mCtrlBlocks'[x]] = x
      BY <2>1, <2>2, <2>3 DEF BlockTypes
    <2>6. BlockTypes'
      BY <2>1, <2>2, <2>3, <2>4, <2>5 DEF BlockTypes
    <2>7. ASSUME NEW b \in mConnection' PROVE mCtrlBlocks'[device'[b]] = b
      <3>1. CASE b = n
        BY <2>1, <2>2, <3>1
      <3>2. CASE b # n
        <4>1. b \in mConnection /\ b \in 1 .. Len(device) /\ device'[b] = device[b]
          BY <2>1, <2>4, <3>2
        <4>2. mCtrlBlocks[device[b]] = b /\ device[b] \in Devices /\ b # None
          BY <4>1 DEF EachConnectionFiled, BlockTypes, None
        <4> QED
          BY <1>3, <2>2, <4>1, <4>2
      <3> QED
        BY <3>1, <3>2
    <2> HIDE DEF n
    <2>8. EachConnectionFiled'
      BY <2>7 DEF EachConnectionFiled
    <2> QED
      BY <1>1, <2>1, <2>2, <2>3, <2>6, <2>8 DEF n
  <1> QED
    BY <1>2, <1>3, BlockGot

\* Every step keeps the files, and no block that was made changes its device.
LEMMA BlocksKept ==
    ASSUME BlockTypes, EachConnectionFiled, [Next]_vars
    PROVE  /\ BlockTypes' /\ EachConnectionFiled'
           /\ Len(device) \in Nat /\ Len(device') \in Nat
           /\ 1 .. Len(device) \subseteq 1 .. Len(device')
           /\ \A b \in 1 .. Len(device) : device'[b] = device[b]
  <1> DEFINE Goal == /\ BlockTypes' /\ EachConnectionFiled'
                     /\ Len(device) \in Nat /\ Len(device') \in Nat
                     /\ 1 .. Len(device) \subseteq 1 .. Len(device')
                     /\ \A b \in 1 .. Len(device) : device'[b] = device[b]
  <1> HIDE DEF Goal
  <1>1. ASSUME NEW d \in Devices, Connect(d) PROVE Goal
    <2>1. GetBlock(d)
      BY <1>1 DEF Connect
    <2>2. /\ BlockTypes' /\ EachConnectionFiled' /\ Len(device) \in Nat
          /\ 1 .. Len(device) \subseteq 1 .. Len(device')
          /\ Len(device') \in {Len(device), Len(device) + 1}
          /\ \A b \in 1 .. Len(device) : device'[b] = device[b]
      BY <2>1, BlocksKeptByConnect
    <2> QED
      BY <2>2 DEF Goal
  <1>2. ASSUME NEW d \in Devices, mCtrlBlocks[d] # None, RemoveBlock(d), UNCHANGED device,
               NEW next, CloseBlock(mCtrlBlocks[d], next)
        PROVE  Goal
    <2>1. mConnection' = mConnection \ {mCtrlBlocks[d]}
      BY <1>2, BlockClosed
    <2>2. BlockTypes' /\ EachConnectionFiled'
      BY <1>2, <2>1, BlocksKeptByRemoval
    <2> QED
      BY <1>2, <2>2 DEF BlockTypes, Goal
  <1>3. ASSUME UNCHANGED <<mCtrlBlocks, device, mConnection>> PROVE Goal
    BY <1>3 DEF BlockTypes, EachConnectionFiled, Goal
  <1>4. ASSUME NEW d \in Devices, DestroyBlock(d) PROVE Goal
    BY <1>2, <1>4 DEF DestroyBlock
  <1>5. ASSUME NEW d \in Devices, Detached(d) PROVE Goal
    <2>1. CASE mPermissionIntent /\ mCtrlBlocks[d] # None
      BY <1>2, <1>5, <2>1 DEF Detached
    <2>2. CASE ~(mPermissionIntent /\ mCtrlBlocks[d] # None)
      BY <1>3, <1>5, <2>2 DEF Detached
    <2> QED
      BY <2>1, <2>2
  <1>6. ASSUME NEW d \in Devices, Unplug(d) \/ Answer(d) \/ Open(d) \/ PermissionGranted(d)
        PROVE  Goal
    BY <1>3, <1>6 DEF Unplug, Answer, Open, PermissionGranted, monitorVars
  <1>7. ASSUME Close \/ CameraClosed \/ Destroy \/ Destroyed PROVE Goal
    BY <1>3, <1>7 DEF Close, CameraClosed, Destroy, Destroyed, monitorVars
  <1>8. ASSUME Thread PROVE Goal
    BY <1>3, <1>8, ThreadLeavesAlone DEF monitorVars
  <1>9. ASSUME UNCHANGED vars PROVE Goal
    BY <1>3, <1>9 DEF vars, monitorVars
  <1>10. Goal
    BY <1>1, <1>4, <1>5, <1>6, <1>7, <1>8, <1>9 DEF Next, Ui
  <1> QED
    BY <1>10 DEF Goal

-------------------------------------------------------------------------------
(* The queue of the CameraThread *)

\* Control blocks are made, never forgotten.
Grows == Len(device) \in Nat /\ Len(device') \in Nat /\ 1 .. Len(device) \subseteq 1 .. Len(device')

\* A stop is sent once, by a UI thread that was not waiting.
LEMMA StopSent ==
    ASSUME MessageTypes, Queued, Grows, messages' = Append(messages, <<"stop", None>>),
           ui \in {"idle", "destroying"}, ui' = "waiting"
    PROVE  MessageTypes' /\ Queued' /\ Opens' = Opens
  <1>1. /\ messages' \in Seq(MessageKinds \X Nat) /\ Len(messages) \in Nat
        /\ messages'[Len(messages) + 1] = <<"stop", None>>
        /\ DOMAIN messages = 1 .. Len(messages) /\ DOMAIN messages' = 1 .. Len(messages) + 1
        /\ Len(messages') = Len(messages) + 1
        /\ \A i \in 1 .. Len(messages) : messages'[i] = messages[i]
        /\ Opens' = Opens
    <2>1. "stop" \in MessageKinds /\ None \in Nat
      BY DEF MessageKinds, None
    <2> QED
      BY <2>1, Messaged
  <1>2. MessageTypes'
    BY <1>1 DEF MessageTypes, Grows
  <1>3. ASSUME NEW i \in 1 .. Len(messages)
        PROVE  /\ messages'[i][1] # "stop" /\ i < Len(messages')
               /\ messages'[i][1] = "open" => messages'[i + 1][1] = "start"
    <2>1. /\ messages[i][1] = "open" => i < Len(messages) /\ messages[i + 1][1] = "start"
          /\ messages[i][1] # "stop"
      BY <1>1 DEF Queued
    <2>2. i < Len(messages) => i + 1 \in 1 .. Len(messages)
      BY <1>1
    <2> QED
      BY <1>1, <2>1, <2>2
  <1>4. Queued'
    BY <1>1, <1>3 DEF Queued
  <1> QED
    BY <1>1, <1>2, <1>4

\* A close is sent by a UI thread that has been woken.
LEMMA CloseSent ==
    ASSUME MessageTypes, Queued, Grows, messages' = Append(messages, <<"close", None>>),
           ui = "woken", ui' \in {"idle", "destroying"}
    PROVE  MessageTypes' /\ Queued' /\ Opens' = Opens
  <1>1. /\ messages' \in Seq(MessageKinds \X Nat) /\ Len(messages) \in Nat
        /\ messages'[Len(messages) + 1] = <<"close", None>>
        /\ DOMAIN messages = 1 .. Len(messages) /\ DOMAIN messages' = 1 .. Len(messages) + 1
        /\ \A i \in 1 .. Len(messages) : messages'[i] = messages[i]
        /\ Opens' = Opens
    <2>1. "close" \in MessageKinds /\ None \in Nat
      BY DEF MessageKinds, None
    <2> QED
      BY <2>1, Messaged
  <1>2. MessageTypes'
    BY <1>1 DEF MessageTypes, Grows
  <1>3. messages = <<>>
    BY DEF Queued
  <1>4. Len(messages) = 0
    BY <1>3
  <1>5. Queued'
    BY <1>1, <1>4 DEF Queued
  <1> QED
    BY <1>1, <1>2, <1>5

\* onConnect sends an open and the start that belongs to it.
LEMMA OpenSent ==
    ASSUME MessageTypes, Queued, Grows, NEW n \in 1 .. Len(device'),
           messages' = messages \o << <<"open", n>>, <<"start", None>> >>,
           ui = "idle", ui' = ui
    PROVE  MessageTypes' /\ Queued' /\ Opens' = Opens + 1
  <1>1. n \in Nat
    BY DEF Grows
  <1>2. /\ messages' \in Seq(MessageKinds \X Nat) /\ Len(messages) \in Nat
        /\ Len(messages') = Len(messages) + 2
        /\ messages'[Len(messages) + 1] = <<"open", n>>
        /\ messages'[Len(messages) + 2] = <<"start", None>>
        /\ DOMAIN messages = 1 .. Len(messages) /\ DOMAIN messages' = 1 .. Len(messages) + 2
        /\ \A i \in 1 .. Len(messages) : messages'[i] = messages[i]
        /\ Opens' = Opens + 1
    BY <1>1, OpenMessaged
  <1>3. MessageTypes'
    <2>1. ASSUME NEW i \in DOMAIN messages'
          PROVE  IF messages'[i][1] = "open" THEN messages'[i][2] \in 1 .. Len(device')
                                             ELSE messages'[i][2] = None
      <3>1. CASE i \in 1 .. Len(messages)
        BY <1>2, <3>1 DEF MessageTypes, Grows
      <3>2. CASE i \notin 1 .. Len(messages)
        <4>1. i = Len(messages) + 1 \/ i = Len(messages) + 2
          BY <1>2, <3>2
        <4> QED
          BY <1>2, <4>1
      <3> QED
        BY <3>1, <3>2
    <2> QED
      BY <1>2, <2>1 DEF MessageTypes
  <1>4. ASSUME NEW i \in 1 .. Len(messages)
        PROVE  /\ messages'[i][1] # "stop" /\ i < Len(messages')
               /\ messages'[i][1] = "open" => messages'[i + 1][1] = "start"
    <2>1. /\ messages[i][1] = "open" => i < Len(messages) /\ messages[i + 1][1] = "start"
          /\ messages[i][1] # "stop"
      BY <1>2 DEF Queued
    <2>2. i < Len(messages) => i + 1 \in 1 .. Len(messages)
      BY <1>2
    <2> QED
      BY <1>2, <2>1, <2>2
  <1>5. \A i \in DOMAIN messages' :
            i \in 1 .. Len(messages) \/ i = Len(messages) + 1 \/ i = Len(messages) + 2
    BY <1>2
  <1>6. Len(messages) + 1 < Len(messages') /\ Len(messages) + 1 + 1 = Len(messages) + 2
    BY <1>2
  <1>7. ASSUME NEW i \in DOMAIN messages'
        PROVE  /\ messages'[i][1] # "stop"
               /\ messages'[i][1] = "open" =>
                     i < Len(messages') /\ messages'[i + 1][1] = "start"
    <2>1. CASE i \in 1 .. Len(messages)
      BY <1>4, <2>1
    <2>2. CASE i = Len(messages) + 1
      BY <1>2, <1>6, <2>2
    <2>3. CASE i = Len(messages) + 2
      BY <1>2, <2>3
    <2> QED
      BY <1>5, <2>1, <2>2, <2>3
  <1>8. Queued'
    BY <1>7 DEF Queued
  <1> QED
    BY <1>2, <1>3, <1>8

\* The CameraThread takes the first message; after a stop the queue is empty.
LEMMA MessageHandled ==
    ASSUME MessageTypes, Queued, NEW k \in MessageKinds, Handles(k), UNCHANGED device,
           k # "stop" => ui' = ui,
           k = "stop" => ui' = (IF ui = "waiting" THEN "woken" ELSE ui) /\ thread' = thread
    PROVE  /\ MessageTypes' /\ Queued'
           /\ k = "open" => Len(messages') >= 1 /\ messages'[1][1] = "start"
           /\ k = "stop" => messages' = <<>>
  <1>1. /\ messages' \in Seq(MessageKinds \X Nat) /\ Len(messages) \in Nat
        /\ Len(messages) >= 1 /\ Len(messages') = Len(messages) - 1
        /\ messages[1][1] = k
        /\ DOMAIN messages = 1 .. Len(messages) /\ DOMAIN messages' = 1 .. Len(messages) - 1
        /\ \A i \in 1 .. Len(messages) - 1 : messages'[i] = messages[i + 1]
    BY TakenFromMessages
  <1>2. \A i \in 1 .. Len(messages) - 1 : i + 1 \in 1 .. Len(messages) /\ i + 1 # 1
    BY <1>1
  <1>3. 1 \in DOMAIN messages /\ thread = "idle" /\ messages # <<>>
    BY <1>1 DEF Handles
  <1>4. ui # "woken"
    BY <1>3 DEF Queued
  <1>5. MessageTypes'
    <2>1. ASSUME NEW i \in DOMAIN messages'
          PROVE  IF messages'[i][1] = "open" THEN messages'[i][2] \in 1 .. Len(device')
                                             ELSE messages'[i][2] = None
      <3>1. messages'[i] = messages[i + 1] /\ i + 1 \in DOMAIN messages
        BY <1>1, <1>2
      <3> QED
        BY <3>1 DEF MessageTypes
    <2> QED
      BY <1>1, <2>1 DEF MessageTypes
  <1>6. k = "stop" => ui = "waiting" /\ Len(messages) = 1
    BY <1>1, <1>3 DEF Queued
  <1>7. k = "stop" => messages' = <<>>
    <2>1. Len(messages) = 1 => Len(messages') = 0
      BY <1>1
    <2>2. k = "stop" => Len(messages') = 0
      BY <1>6, <2>1
    <2> QED
      BY <1>1, <2>2, EmptySeq
  <1>8. k = "open" => Len(messages) > 1 /\ messages[2][1] = "start"
    <2>1. k = "open" => 1 < Len(messages) /\ messages[1 + 1][1] = "start"
      BY <1>1, <1>3 DEF Queued
    <2> QED
      BY <1>1, <2>1
  <1>9. k = "open" => Len(messages') >= 1 /\ messages'[1][1] = "start"
    BY <1>1, <1>8
  <1>10. ASSUME NEW i \in 1 .. Len(messages) - 1
         PROVE  /\ messages'[i][1] = "open" =>
                      i < Len(messages) - 1 /\ messages'[i + 1][1] = "start"
                /\ messages'[i][1] = "stop" => ui = "waiting" /\ i = Len(messages) - 1
    <2>1. /\ messages'[i] = messages[i + 1] /\ i + 1 \in DOMAIN messages
          /\ i + 1 < Len(messages) => messages'[i + 1] = messages[i + 1 + 1]
      BY <1>1, <1>2
    <2>2. /\ messages[i + 1][1] = "open" =>
                i + 1 < Len(messages) /\ messages[i + 1 + 1][1] = "start"
          /\ messages[i + 1][1] = "stop" => ui = "waiting" /\ i + 1 = Len(messages)
      BY <2>1 DEF Queued
    <2> QED
      BY <1>1, <2>1, <2>2
  <1>11. Queued'
    <2>1. CASE k = "stop"
      <3>1. DOMAIN messages' = {} /\ thread' = "idle" /\ messages' = <<>>
        BY <1>1, <1>3, <1>6, <1>7, <2>1
      <3> QED
        BY <3>1 DEF Queued
    <2>2. CASE k # "stop"
      <3>1. ui' = ui /\ ui' # "woken"
        BY <1>4, <2>2
      <3>2. \A i \in DOMAIN messages' :
               /\ messages'[i][1] = "open" => i < Len(messages') /\ messages'[i + 1][1] = "start"
               /\ messages'[i][1] = "stop" => ui' = "waiting" /\ i = Len(messages')
        BY <1>1, <1>10, <3>1
      <3> QED
        BY <3>1, <3>2 DEF Queued
    <2> QED
      BY <2>1, <2>2
  <1> QED
    BY <1>5, <1>7, <1>9, <1>11

\* A step that sends nothing and handles nothing.
LEMMA NothingSent ==
    ASSUME MessageTypes, Queued, Grows, UNCHANGED messages,
           ui' = ui \/ (ui # "waiting" /\ ui' \in {"idle", "destroying"}),
           thread' = thread \/ thread # "idle"
    PROVE  MessageTypes' /\ Queued' /\ Opens' = Opens
  <1>1. MessageTypes'
    BY DEF MessageTypes, Grows
  <1>2. Queued'
    <2>1. ui' = "woken" => ui = "woken"
      OBVIOUS
    <2>2. ui = "waiting" => ui' = "waiting"
      OBVIOUS
    <2> QED
      BY <2>1, <2>2 DEF Queued
  <1>3. Opens' = Opens
    BY DEF Opens, Count, Marked
  <1> QED
    BY <1>1, <1>2, <1>3

\* What the two threads say to each other.
Talk == UiTypes /\ MessageTypes /\ Queued

\* A block is closed only by a UI thread that does not wait already.
LEMMA TalkKeptByClosing ==
    ASSUME Talk, BlockTypes, Grows, NEW b, NEW next \in {"idle", "destroying"}, CloseBlock(b, next),
           ui \in {"idle", "destroying"}, UNCHANGED <<device, thread>>
    PROVE  Talk' /\ Opens' = Opens
  <1>1. CASE /\ b \in mConnection /\ mConnection' = mConnection \ {b} /\ closing' = b
             /\ messages' = Append(messages, <<"stop", None>>)
             /\ ui' = "waiting" /\ uiNext' = next
    <2>1. closing' \in 0 .. Len(device')
      BY <1>1 DEF BlockTypes, Grows
    <2>2. MessageTypes' /\ Queued' /\ Opens' = Opens
      BY <1>1, StopSent DEF Talk
    <2> QED
      BY <1>1, <2>1, <2>2 DEF Talk, UiTypes
  <1>2. CASE /\ b \notin mConnection /\ ui' = next
             /\ UNCHANGED <<mConnection, closing, messages, uiNext>>
    <2>1. MessageTypes' /\ Queued' /\ Opens' = Opens
      BY <1>2, NothingSent DEF Talk
    <2> QED
      BY <1>2, <2>1 DEF Talk, UiTypes
  <1> QED
    BY <1>1, <1>2, BlockClosed

\* The UI thread keeps the order of the messages,
LEMMA TalkKeptByUi ==
    ASSUME Talk, BlockTypes, EachConnectionFiled, Grows,
           \/ Ui \/ Close \/ Destroy
           \/ \E d \in Devices : Unplug(d) \/ Answer(d) \/ Open(d)
    PROVE  Talk'
  <1>1. ASSUME Close PROVE Talk'
    <2>1. /\ ui = "idle" /\ messages' = Append(messages, <<"stop", None>>)
          /\ ui' = "waiting" /\ uiNext' = "idle" /\ closing' = closing
      BY <1>1 DEF Close, UiIdle, CloseCamera
    <2>2. MessageTypes' /\ Queued'
      BY <2>1, StopSent DEF Talk
    <2> QED
      BY <1>1, <2>1, <2>2 DEF Talk, UiTypes, Close, monitorVars
  <1>2. ASSUME CameraClosed PROVE Talk'
    <2>1. MessageTypes' /\ Queued'
      BY <1>2, CloseSent DEF Talk, CameraClosed, UiTypes
    <2>2. closing' \in 0 .. Len(device')
      BY <1>2 DEF CameraClosed, None, Grows
    <2> QED
      BY <1>2, <2>1, <2>2 DEF Talk, UiTypes, CameraClosed
  <1>3. ASSUME Destroy PROVE Talk'
    <2>1. MessageTypes' /\ Queued'
      BY <1>3, NothingSent DEF Talk, Destroy, UiIdle, cameraVars
    <2> QED
      BY <1>3, <2>1 DEF Talk, UiTypes, Destroy
  <1>4. ASSUME Destroyed PROVE Talk'
    <2>1. MessageTypes' /\ Queued'
      BY <1>4, NothingSent DEF Talk, Destroyed, cameraVars
    <2> QED
      BY <1>4, <2>1 DEF Talk, UiTypes, Destroyed, monitorVars
  <1>5. ASSUME NEW x \in Devices, DestroyBlock(x) PROVE Talk'
    BY <1>5, TalkKeptByClosing DEF DestroyBlock, cameraVars
  <1>6. ASSUME NEW x \in Devices, Detached(x) PROVE Talk'
    <2>1. CASE mPermissionIntent /\ mCtrlBlocks[x] # None
      <3>1. CloseBlock(mCtrlBlocks[x], "idle") /\ ui = "idle" /\ UNCHANGED <<device, thread>>
        BY <1>6, <2>1 DEF Detached, Takes, UiIdle, cameraVars
      <3> QED
        BY <3>1, TalkKeptByClosing
    <2>2. CASE ~(mPermissionIntent /\ mCtrlBlocks[x] # None)
      <3>1. UNCHANGED <<device, thread, messages, ui, uiNext, closing>>
        BY <1>6, <2>2 DEF Detached, cameraVars, uiVars
      <3>2. MessageTypes' /\ Queued'
        BY <3>1, NothingSent DEF Talk
      <3> QED
        BY <3>1, <3>2 DEF Talk, UiTypes
    <2> QED
      BY <2>1, <2>2
  <1>7. ASSUME NEW x \in Devices, Connect(x) PROVE Talk'
    <2>1. /\ GetBlock(x) /\ ui = "idle" /\ ui' = ui /\ uiNext' = uiNext /\ closing' = closing
          /\ thread' = thread
      BY <1>7 DEF Connect, Takes, UiIdle, uiVars, cameraVars
    <2>2. mCtrlBlocks'[x] \in 1 .. Len(device')
      BY <2>1, BlocksKeptByConnect
    <2>3. \/ messages' = messages \o << <<"open", mCtrlBlocks'[x]>>, <<"start", None>> >>
          \/ messages' = messages
      BY <1>7 DEF Connect
    <2>4. MessageTypes' /\ Queued'
      BY <2>1, <2>2, <2>3, OpenSent, NothingSent DEF Talk
    <2>5. closing' \in 0 .. Len(device')
      BY <2>1 DEF Talk, UiTypes, Grows
    <2> QED
      BY <2>1, <2>4, <2>5 DEF Talk, UiTypes
  <1>8. ASSUME NEW x \in Devices, Unplug(x) \/ Answer(x) \/ Open(x) \/ PermissionGranted(x)
        PROVE  Talk'
    <2>1. UNCHANGED <<device, thread, messages, ui, uiNext, closing>>
      BY <1>8 DEF Unplug, Answer, Open, PermissionGranted, monitorVars, uiVars, cameraVars
    <2>2. MessageTypes' /\ Queued'
      BY <2>1, NothingSent DEF Talk
    <2> QED
      BY <2>1, <2>2 DEF Talk, UiTypes
  <1> QED
    BY <1>1, <1>2, <1>3, <1>4, <1>5, <1>6, <1>7, <1>8 DEF Ui

\* and so does the CameraThread,
LEMMA TalkKeptByThread ==
    ASSUME Talk, Grows, Thread
    PROVE  Talk'
  <1>1. UNCHANGED <<device, uiNext, closing>>
    BY ThreadLeavesAlone DEF monitorVars
  <1>2. CASE HandleOpen
    <2>1. Handles("open") /\ ui' = ui /\ "open" \in MessageKinds
      BY <1>2 DEF HandleOpen, uiVars, MessageKinds
    <2>2. MessageTypes' /\ Queued'
      BY <1>1, <2>1, MessageHandled DEF Talk
    <2> QED
      BY <1>1, <2>1, <2>2 DEF Talk, UiTypes
  <1>3. CASE HandleClose
    <2>1. Handles("close") /\ ui' = ui /\ "close" \in MessageKinds
      BY <1>3 DEF HandleClose, uiVars, MessageKinds
    <2>2. MessageTypes' /\ Queued'
      BY <1>1, <2>1, MessageHandled DEF Talk
    <2> QED
      BY <1>1, <2>1, <2>2 DEF Talk, UiTypes
  <1>4. CASE HandleStartPreview
    <2>1. Handles("start") /\ ui' = ui /\ "start" \in MessageKinds
      BY <1>4 DEF HandleStartPreview, uiVars, MessageKinds
    <2>2. MessageTypes' /\ Queued'
      BY <1>1, <2>1, MessageHandled DEF Talk
    <2> QED
      BY <1>1, <2>1, <2>2 DEF Talk, UiTypes
  <1>5. CASE HandleStopPreview
    <2>1. /\ Handles("stop") /\ "stop" \in MessageKinds /\ thread' = thread
          /\ ui' = (IF ui = "waiting" THEN "woken" ELSE ui)
      BY <1>5 DEF HandleStopPreview, NotifyAll, MessageKinds
    <2>2. MessageTypes' /\ Queued'
      BY <1>1, <2>1, MessageHandled DEF Talk
    <2> QED
      BY <1>1, <2>1, <2>2 DEF Talk, UiTypes
  <1>6. CASE GetFileDescriptor \/ NativeConnect
    <2>1. thread # "idle" /\ UNCHANGED <<ui, messages>>
      BY <1>6 DEF GetFileDescriptor, NativeConnect, uiVars
    <2>2. MessageTypes' /\ Queued'
      BY <2>1, NothingSent DEF Talk
    <2> QED
      BY <1>1, <2>1, <2>2 DEF Talk, UiTypes
  <1> QED
    BY <1>2, <1>3, <1>4, <1>5, <1>6 DEF Thread

\* and every step.
LEMMA TalkKept ==
    ASSUME Talk, BlockTypes, EachConnectionFiled, [Next]_vars
    PROVE  Talk'
  <1>1. Grows
    BY BlocksKept DEF Grows
  <1>2. CASE Thread
    BY <1>1, <1>2, TalkKeptByThread
  <1>3. CASE UNCHANGED vars
    <2>1. UNCHANGED <<device, thread, messages, ui, uiNext, closing>>
      BY <1>3 DEF vars, monitorVars, uiVars, cameraVars
    <2>2. MessageTypes' /\ Queued'
      BY <1>1, <2>1, NothingSent DEF Talk
    <2> QED
      BY <2>1, <2>2 DEF Talk, UiTypes
  <1>4. ASSUME \/ Ui \/ Close \/ Destroy
               \/ \E d \in Devices : Unplug(d) \/ Answer(d) \/ Open(d)
        PROVE  Talk'
    BY <1>1, <1>4, TalkKeptByUi
  <1> QED
    BY <1>2, <1>3, <1>4 DEF Next

-------------------------------------------------------------------------------
(* The cameras *)

\* handleOpen takes a camera that has not been used, and leaves the ones before alone.
LEMMA CameraMade ==
    ASSUME ThreadTypes, MessageTypes, Charged, UsbTypes, BlockTypes, Queued, HandleOpen
    PROVE  LET c == Cardinality(Used) + 1
           IN /\ c \in Cameras /\ c # None /\ c \notin Used
              /\ camera' = [camera EXCEPT ![c] = "created"] /\ mUVCCamera' = c
              /\ Used' = Used \cup {c} /\ IsFiniteSet(Used') /\ Cardinality(Used') = c
              /\ Used' = 1 .. Cardinality(Used')
              /\ ThreadTypes' /\ Opens' \in Nat /\ Opens = Opens' + 1
              /\ Len(messages') >= 1 /\ messages'[1][1] = "start"
  <1> DEFINE c == Cardinality(Used) + 1
  <1>1. /\ mUVCCamera' = c /\ camera' = [camera EXCEPT ![c] = "created"]
        /\ block' = [block EXCEPT ![c] = Head(messages)[2]]
        /\ thread' = "open" /\ Handles("open") /\ UNCHANGED <<ui, device>>
        /\ "open" \in MessageKinds
    BY DEF HandleOpen, Used, uiVars, threadFrame, monitorVars, MessageKinds
  <1>2. /\ Opens' \in Nat /\ Opens = Opens' + 1 /\ messages[1][1] = "open"
        /\ Head(messages) = messages[1] /\ 1 \in DOMAIN messages
    BY <1>1, TakenFromMessages
  <1>3. Len(messages') >= 1 /\ messages'[1][1] = "start"
    BY <1>1, MessageHandled
  <1>4. /\ IsFiniteSet(Used) /\ Used = 1 .. Cardinality(Used) /\ Cardinality(Used) \in Nat
    BY FS_CardinalityType DEF Charged
  <1>5. Cardinality(asking) \in Nat /\ Requests \in Nat
    BY CountsAreNumbers
  <1>6. /\ Cardinality(asking) + Requests + Opens + Cardinality(Used) <= opens
        /\ Len(device) + Cardinality(asking) + Requests <= opens
        /\ opens \in 0 .. MaxOpens /\ Len(device) \in Nat
    BY DEF Charged, UsbTypes, BlockTypes
  <1>7. c \in 1 .. MaxOpens /\ c # 0 /\ Len(device) <= MaxOpens /\ MaxOpens \in Nat
    BY <1>2, <1>4, <1>5, <1>6, SessionAssumption
  <1>8. c \in Cameras /\ c # None /\ c \notin Used
    BY <1>4, <1>7 DEF Cameras, None
  <1>9. 1 .. c = (1 .. Cardinality(Used)) \cup {c}
    BY <1>4
  <1> HIDE DEF c
  <1>10. /\ camera' \in [Cameras -> CameraStates] /\ camera'[c] = "created"
         /\ \A x \in Cameras : x # c => camera'[x] = camera[x]
    BY <1>1, <1>8 DEF ThreadTypes, CameraStates
  <1>11. Used' = Used \cup {c}
    BY <1>8, <1>10 DEF Used
  <1>12. IsFiniteSet(Used') /\ Cardinality(Used') = Cardinality(Used) + 1
    BY <1>4, <1>8, <1>11, FS_AddElement
  <1>13. Cardinality(Used') = c /\ Used' = 1 .. Cardinality(Used')
    BY <1>4, <1>9, <1>11, <1>12 DEF c
  <1>14. Head(messages)[2] \in Blocks
    <2>1. Head(messages)[2] \in 1 .. Len(device)
      BY <1>2 DEF MessageTypes
    <2> QED
      BY <1>6, <1>7, <2>1 DEF Blocks
  <1>15. block' \in [Cameras -> {None} \cup Blocks]
    BY <1>1, <1>14 DEF ThreadTypes
  <1>16. ThreadTypes'
    BY <1>1, <1>10, <1>11, <1>15 DEF ThreadTypes
  <1> QED
    BY <1>1, <1>2, <1>3, <1>8, <1>11, <1>12, <1>13, <1>16 DEF c

\* The other steps of the CameraThread use the same cameras, and give the one they know up
\* only when it is destroyed.
LEMMA CamerasChanged ==
    ASSUME ThreadTypes, MessageTypes,
           \/ GetFileDescriptor \/ NativeConnect \/ HandleClose
           \/ HandleStartPreview \/ HandleStopPreview
    PROVE  /\ ThreadTypes' /\ Used' = Used /\ Opens' \in Nat /\ Opens' = Opens
           /\ \A x \in Cameras : x # mUVCCamera => camera'[x] = camera[x]
           /\ \/ mUVCCamera' = mUVCCamera
              \/ mUVCCamera' = None /\ (mUVCCamera # None => camera'[mUVCCamera] = "destroyed")
  <1> DEFINE Tame == /\ camera' \in [Cameras -> CameraStates]
                     /\ \A x \in Cameras : x # mUVCCamera => camera'[x] = camera[x]
                     /\ \A x \in Cameras : camera'[x] # "none" <=> camera[x] # "none"
             Known == \/ mUVCCamera' = mUVCCamera
                      \/ /\ mUVCCamera' = None
                         /\ mUVCCamera # None => camera'[mUVCCamera] = "destroyed"
             Same == Opens' \in Nat /\ Opens' = Opens
             Threaded == thread' \in {"idle", "open", "connect"} /\ block' = block
  <1>1. /\ mUVCCamera # None => mUVCCamera \in Cameras /\ camera[mUVCCamera] # "none"
        /\ camera \in [Cameras -> CameraStates] /\ thread \in {"idle", "open", "connect"}
    BY DEF ThreadTypes, Used
  <1>2. None \notin Cameras
    BY DEF None, Cameras
  <1>3. ASSUME UNCHANGED camera PROVE Tame
    BY <1>1, <1>3
  <1>4. ASSUME NEW s \in {"connected", "previewing"}, camera' = [camera EXCEPT ![mUVCCamera] = s]
        PROVE  Tame
    <2>1. s \in CameraStates /\ s # "none"
      BY DEF CameraStates
    <2>2. CASE mUVCCamera = None
      <3>1. camera' = camera
        BY <1>1, <1>2, <1>4, <2>2
      <3> QED
        BY <1>3, <3>1
    <2>3. CASE mUVCCamera # None
      BY <1>1, <1>4, <2>1, <2>3
    <2> QED
      BY <2>2, <2>3
  <1>5. ASSUME DestroyCamera PROVE Tame /\ Known
    <2>1. /\ mUVCCamera' = None
          /\ camera' = [c \in Cameras |-> IF c = mUVCCamera THEN "destroyed" ELSE camera[c]]
      BY <1>5 DEF DestroyCamera
    <2>2. "destroyed" \in CameraStates
      BY DEF CameraStates
    <2>3. /\ \A x \in Cameras : camera[x] \in CameraStates
          /\ \A x \in Cameras : camera'[x] = IF x = mUVCCamera THEN "destroyed" ELSE camera[x]
      BY <1>1, <2>1
    <2>4. \A x \in Cameras : camera'[x] # "none" <=> camera[x] # "none"
      BY <1>1, <1>2, <2>3
    <2> QED
      BY <1>1, <2>1, <2>2, <2>3, <2>4
  <1>6. ASSUME UNCHANGED messages PROVE Same
    <2>1. messages \in Seq(MessageKinds \X Nat)
      BY DEF MessageTypes
    <2>2. Opens' = Opens
      BY <1>6 DEF Opens, Count, Marked
    <2>3. Opens \in Nat
      BY <2>1, MarkedFinite DEF Opens
    <2> QED
      BY <2>2, <2>3
  <1>7. ASSUME NEW k \in {"start", "stop", "close"}, Handles(k) PROVE Same
    <2>1. k \in MessageKinds /\ k # "open"
      BY <1>7 DEF MessageKinds
    <2>2. Opens' \in Nat /\ Opens = IF k = "open" THEN Opens' + 1 ELSE Opens'
      BY <1>7, <2>1, TakenFromMessages
    <2> QED
      BY <2>1, <2>2
  <1> HIDE DEF Tame, Known, Same
  <1>8. ASSUME GetFileDescriptor PROVE Tame /\ Known /\ Same /\ Threaded
    <2>1. /\ UNCHANGED <<mUVCCamera, camera, block, messages>>
          /\ thread' \in {"idle", "open", "connect"}
      BY <1>8 DEF GetFileDescriptor
    <2> QED
      BY <1>3, <1>6, <2>1 DEF Known
  <1>9. ASSUME NativeConnect PROVE Tame /\ Known /\ Same /\ Threaded
    <2>1. /\ UNCHANGED <<mUVCCamera, block, messages>> /\ thread' = "idle"
          /\ \/ camera' = [camera EXCEPT ![mUVCCamera] = "connected"]
             \/ UNCHANGED camera
      BY <1>9 DEF NativeConnect
    <2> QED
      BY <1>3, <1>4, <1>6, <2>1 DEF Known
  <1>10. ASSUME HandleClose PROVE Tame /\ Known /\ Same /\ Threaded
    BY <1>1, <1>5, <1>7, <1>10 DEF HandleClose
  <1>11. ASSUME HandleStartPreview PROVE Tame /\ Known /\ Same /\ Threaded
    <2>1. /\ Handles("start") /\ UNCHANGED <<thread, block>>
          /\ \/ UNCHANGED <<mUVCCamera, camera>>
             \/ /\ \/ camera' = [camera EXCEPT ![mUVCCamera] = "previewing"]
                   \/ UNCHANGED camera
                /\ UNCHANGED mUVCCamera
             \/ DestroyCamera
      BY <1>11 DEF HandleStartPreview, GiveUp
    <2>2. Same /\ Threaded
      BY <1>1, <1>7, <2>1
    <2>3. CASE UNCHANGED <<mUVCCamera, camera>>
      BY <1>3, <2>2, <2>3 DEF Known
    <2>4. CASE camera' = [camera EXCEPT ![mUVCCamera] = "previewing"] /\ UNCHANGED mUVCCamera
      BY <1>4, <2>2, <2>4 DEF Known
    <2>5. CASE DestroyCamera
      BY <1>5, <2>2, <2>5
    <2> QED
      BY <2>1, <2>3, <2>4, <2>5
  <1>12. ASSUME HandleStopPreview PROVE Tame /\ Known /\ Same /\ Threaded
    <2>1. /\ Handles("stop") /\ UNCHANGED <<thread, mUVCCamera, block>>
          /\ camera' = [c \in Cameras |->
                IF c = mUVCCamera /\ camera[c] = "previewing" THEN "connected" ELSE camera[c]]
      BY <1>12 DEF HandleStopPreview, StopCamera
    <2>2. "connected" \in CameraStates
      BY DEF CameraStates
    <2>3. \A x \in Cameras : /\ camera[x] \in CameraStates
                             /\ camera'[x] = IF x = mUVCCamera /\ camera[x] = "previewing"
                                             THEN "connected" ELSE camera[x]
      BY <1>1, <2>1
    <2>4. Tame
      BY <2>1, <2>2, <2>3 DEF Tame
    <2> QED
      BY <1>1, <1>7, <2>1, <2>4 DEF Known
  <1>13. Tame /\ Known /\ Same /\ Threaded
    BY <1>8, <1>9, <1>10, <1>11, <1>12
  <1>14. Used' = Used
    BY <1>13 DEF Used, Tame
  <1>15. mUVCCamera' \in {None} \cup Used'
    BY <1>13, <1>14 DEF Known, ThreadTypes
  <1>16. ThreadTypes'
    BY <1>13, <1>15 DEF ThreadTypes, Tame
  <1> QED
    BY <1>13, <1>14, <1>16 DEF Tame, Known, Same

-------------------------------------------------------------------------------
(* The openings on their way *)

Pending == Cardinality(asking) + Requests + Opens

\* The counts after a step are numbers too.
LEMMA CountsStayNumbers ==
    ASSUME UsbTypes', MessageTypes'
    PROVE  Requests' \in Nat /\ Opens' \in Nat /\ Cardinality(asking)' \in Nat
  <1>1. /\ posted' \in Seq(PostKinds \X Devices) /\ messages' \in Seq(MessageKinds \X Nat)
        /\ IsFiniteSet(asking')
    BY DEF UsbTypes, MessageTypes
  <1>2. /\ Count(posted', {"granted", "connect"}) \in Nat /\ Count(messages', {"open"}) \in Nat
        /\ Cardinality(asking') \in Nat
    BY <1>1, MarkedFinite, FS_CardinalityType
  <1> QED
    BY <1>2 DEF Requests, Opens

\* A step that makes no opening and no camera keeps the account.
LEMMA AccountKept ==
    ASSUME Types, UsbTypes', MessageTypes', Charged, OneAtATime,
           Used' = Used, UNCHANGED <<opens, patient>>,
           mUVCCamera' = mUVCCamera \/ mUVCCamera' = None, Grows,
           Pending' <= Pending,
           (Len(device) + Cardinality(asking) + Requests)' <=
              Len(device) + Cardinality(asking) + Requests
    PROVE  Charged' /\ OneAtATime'
  <1>1. Requests \in Nat /\ Opens \in Nat /\ Cardinality(asking) \in Nat
    BY CountsAreNumbers DEF Types
  <1>2. Requests' \in Nat /\ Opens' \in Nat /\ Cardinality(asking)' \in Nat
    BY CountsStayNumbers
  <1>3. Cardinality(Used) \in Nat /\ opens \in Nat /\ Len(device) \in Nat /\ Len(device') \in Nat
    BY FS_CardinalityType DEF Charged, Types, UsbTypes, Grows
  <1>4. Charged'
    <2>1. /\ IsFiniteSet(Used') /\ Used' = 1 .. Cardinality(Used')
          /\ Cardinality(Used)' = Cardinality(Used)
      BY DEF Charged
    <2>2. /\ Len(device) + Cardinality(asking) + Requests <= opens
          /\ Pending + Cardinality(Used) <= opens
      BY DEF Charged, Pending
    <2>3. (Len(device) + Cardinality(asking) + Requests)' <= opens'
      <3> DEFINE k  == Len(device) + Cardinality(asking) + Requests
                 k1 == (Len(device) + Cardinality(asking) + Requests)'
      <3>1. k \in Nat /\ k1 \in Nat /\ opens \in Nat
        BY <1>1, <1>2, <1>3
      <3>2. k1 <= k /\ k <= opens
        BY <2>2
      <3> HIDE DEF k, k1
      <3>3. k1 <= opens
        BY <3>1, <3>2
      <3> QED
        BY <3>3 DEF k1
    <2>4. Pending \in Nat /\ Pending' \in Nat
      BY <1>1, <1>2 DEF Pending
    <2>5. Pending' + Cardinality(Used) <= opens
      BY <1>3, <2>2, <2>4
    <2> QED
      BY <2>1, <2>3, <2>5 DEF Charged, Pending
  <1>5. OneAtATime'
    <2>1. ASSUME patient'
          PROVE  (Cardinality(asking) + Requests + Opens)' <= 1
      BY <1>1, <1>2, <2>1 DEF OneAtATime, Pending
    <2>2. ASSUME patient', mUVCCamera' # None
          PROVE  (Cardinality(asking) + Requests + Opens)' = 0
      BY <1>1, <1>2, <2>2 DEF OneAtATime, Pending
    <2> QED
      BY <2>1, <2>2 DEF OneAtATime
  <1> QED
    BY <1>4, <1>5

\* An appended message that is not an open is not counted.
LEMMA OtherSent ==
    ASSUME MessageTypes, NEW k \in {"stop", "close"}, messages' = Append(messages, <<k, None>>)
    PROVE  Opens' = Opens
  <1>1. k \in MessageKinds /\ None \in Nat /\ k # "open"
    BY DEF MessageKinds, None
  <1> QED
    BY <1>1, Messaged

\* Closing a control block is no opening.
LEMMA OpensKeptByClosing ==
    ASSUME MessageTypes, NEW b, NEW next, CloseBlock(b, next)
    PROVE  Opens' = Opens
  <1>1. messages' = Append(messages, <<"stop", None>>) \/ messages' = messages
    BY BlockClosed
  <1>2. messages' = messages => Opens' = Opens
    BY DEF Opens, Count, Marked
  <1> QED
    BY <1>1, <1>2, OtherSent

\* Steps of the UI thread leave the cameras alone.
LEMMA CamerasKept ==
    ASSUME ThreadTypes, UNCHANGED cameraVars
    PROVE  ThreadTypes' /\ Used' = Used /\ mUVCCamera' = mUVCCamera /\ camera' = camera
  BY DEF ThreadTypes, Used, cameraVars

\* Open begins an opening, and an application that is patient has no other one.
LEMMA AccountKeptByOpen ==
    ASSUME Types, UsbTypes', MessageTypes', Charged, OneAtATime, NEW d \in Devices, Open(d)
    PROVE  Charged' /\ OneAtATime'
  <1>1. /\ Requests \in Nat /\ Opens \in Nat /\ Cardinality(asking) \in Nat
        /\ ~Opening => Requests = 0 /\ Opens = 0 /\ Cardinality(asking) = 0
    BY CountsAreNumbers DEF Types
  <1>2. Requests' \in Nat /\ Opens' \in Nat /\ Cardinality(asking)' \in Nat
    BY CountsStayNumbers
  <1>3. /\ mUVCCamera = None /\ opens' = opens + 1 /\ RequestPermission(d)
        /\ UNCHANGED <<messages, device, patient>> /\ UNCHANGED cameraVars
        /\ patient => ~Opening
    BY DEF Open, monitorVars, isCameraOpened
  <1>4. Used' = Used /\ mUVCCamera' = None
    BY <1>3, CamerasKept DEF Types
  <1>5. Opens' = Opens
    BY <1>3 DEF Opens, Count, Marked
  <1>6. IsFiniteSet(asking)
    BY DEF Types, UsbTypes
  <1>7. \/ Requests' = Requests + 1 /\ Cardinality(asking)' = Cardinality(asking)
        \/ /\ Requests' = Requests
           /\ Cardinality(asking)' \in {Cardinality(asking), Cardinality(asking) + 1}
    <2>1. CASE posted' = Append(posted, <<"connect", d>>) /\ UNCHANGED asking
      <3>1. "connect" \in PostKinds /\ "connect" # "detached" /\ UsbTypes
        BY DEF PostKinds, Types
      <3>2. Count(posted', {"granted", "connect"}) = Requests + 1
        BY <2>1, <3>1, Posted
      <3> QED
        BY <2>1, <3>2 DEF Requests
    <2>2. CASE asking' = asking \cup {d} /\ UNCHANGED posted
      <3>1. Requests' = Requests
        BY <2>2 DEF Requests, Count, Marked
      <3>2. Cardinality(asking') \in {Cardinality(asking), Cardinality(asking) + 1}
        BY <1>6, <2>2, FS_AddElement
      <3> QED
        BY <3>1, <3>2
    <2> QED
      BY <1>3, <2>1, <2>2 DEF RequestPermission
  <1>8. Cardinality(Used) \in Nat /\ opens \in Nat /\ Len(device) \in Nat
    BY FS_CardinalityType DEF Charged, Types, UsbTypes, BlockTypes
  <1>9. /\ (Cardinality(asking) + Requests)' <= Cardinality(asking) + Requests + 1
        /\ (Cardinality(asking) + Requests)' \in Nat
    BY <1>1, <1>2, <1>7
  <1>10. Charged'
    <2>1. /\ IsFiniteSet(Used') /\ Used' = 1 .. Cardinality(Used')
          /\ Cardinality(Used)' = Cardinality(Used) /\ Len(device)' = Len(device)
      BY <1>3, <1>4 DEF Charged
    <2>2. /\ Len(device) + Cardinality(asking) + Requests <= opens
          /\ Cardinality(asking) + Requests + Opens + Cardinality(Used) <= opens
      BY DEF Charged
    <2> DEFINE p  == Cardinality(asking) + Requests
               p1 == (Cardinality(asking) + Requests)'
               l  == Len(device)
               u  == Cardinality(Used)
               o  == Opens
    <2>3. p \in Nat /\ p1 \in Nat /\ p1 <= p + 1 /\ l \in Nat /\ u \in Nat /\ o \in Nat
      BY <1>1, <1>8, <1>9
    <2>4. l + p <= opens /\ p + o + u <= opens
      BY <1>1, <1>8, <2>2
    <2>5. /\ Len(device)' = l /\ Opens' = o /\ Cardinality(Used)' = u /\ opens' = opens + 1
          /\ opens \in Nat
      BY <1>3, <1>5, <1>8, <2>1
    <2> HIDE DEF p, p1, l, u, o
    <2>6. l + p1 <= opens + 1 /\ p1 + o + u <= opens + 1
      BY <2>3, <2>4, <2>5
    <2>7. Len(device)' + p1 <= opens' /\ p1 + Opens' + Cardinality(Used)' <= opens'
      BY <2>5, <2>6
    <2>8. (Len(device) + Cardinality(asking) + Requests)' <= opens'
      BY <1>2, <1>8, <2>5, <2>7 DEF p1, l
    <2>9. (Cardinality(asking) + Requests + Opens + Cardinality(Used))' <= opens'
      BY <1>2, <1>8, <2>5, <2>7 DEF p1
    <2> QED
      BY <2>1, <2>8, <2>9 DEF Charged
  <1>11. patient' => (Cardinality(asking) + Requests + Opens)' <= 1
    BY <1>1, <1>2, <1>3, <1>5, <1>9
  <1>12. OneAtATime'
    BY <1>4, <1>11 DEF OneAtATime
  <1> QED
    BY <1>10, <1>12

\* handleOpen turns an opening into a camera.
LEMMA AccountKeptByHandleOpen ==
    ASSUME Types, UsbTypes', MessageTypes', Charged, OneAtATime, Queued, HandleOpen
    PROVE  Charged' /\ OneAtATime'
  <1>1. Requests \in Nat /\ Opens \in Nat /\ Cardinality(asking) \in Nat
    BY CountsAreNumbers DEF Types
  <1>2. /\ IsFiniteSet(Used') /\ Cardinality(Used') = Cardinality(Used) + 1
        /\ Used' = 1 .. Cardinality(Used') /\ Opens' \in Nat /\ Opens = Opens' + 1
    BY CameraMade DEF Types
  <1>3. UNCHANGED <<asking, posted, opens, device, patient>>
    BY DEF HandleOpen, threadFrame, usbVars, appVars, monitorVars
  <1>4. Requests' = Requests /\ Cardinality(asking)' = Cardinality(asking)
    BY <1>3 DEF Requests, Count, Marked
  <1>5. Cardinality(Used) \in Nat /\ opens \in Nat /\ Len(device) \in Nat
    BY FS_CardinalityType DEF Charged, Types, UsbTypes, BlockTypes
  <1>6. Charged'
    BY <1>1, <1>2, <1>3, <1>4, <1>5 DEF Charged
  <1>7. patient => (Cardinality(asking) + Requests + Opens)' = 0
    BY <1>1, <1>2, <1>4 DEF OneAtATime
  <1>8. OneAtATime'
    BY <1>3, <1>7 DEF OneAtATime
  <1> QED
    BY <1>6, <1>8

\* What a step that is neither Open nor handleOpen does to the counts.
Balanced ==
    /\ Used' = Used /\ UNCHANGED <<opens, patient>>
    /\ mUVCCamera' = mUVCCamera \/ mUVCCamera' = None
    /\ ThreadTypes'
    /\ Pending' <= Pending
    /\ (Len(device) + Cardinality(asking) + Requests)' <=
          Len(device) + Cardinality(asking) + Requests

\* The steps that leave both queues' openings and the dialogs as they are.
LEMMA BalancedWhenSame ==
    ASSUME Types, Used' = Used, UNCHANGED <<opens, patient, asking, device>>,
           mUVCCamera' = mUVCCamera \/ mUVCCamera' = None, ThreadTypes',
           Requests' = Requests, Opens' = Opens
    PROVE  Balanced
  <1>1. Requests \in Nat /\ Opens \in Nat /\ Cardinality(asking) \in Nat /\ Len(device) \in Nat
    BY CountsAreNumbers DEF Types, BlockTypes
  <1>2. Cardinality(asking)' = Cardinality(asking) /\ Len(device)' = Len(device)
    OBVIOUS
  <1>3. Pending' = Pending /\ Pending \in Nat
    BY <1>1, <1>2 DEF Pending
  <1>4. /\ (Len(device) + Cardinality(asking) + Requests)' =
              Len(device) + Cardinality(asking) + Requests
        /\ Len(device) + Cardinality(asking) + Requests \in Nat
    BY <1>1, <1>2
  <1> QED
    BY <1>3, <1>4 DEF Balanced

\* Unplugging posts a broadcast, which is no request.
LEMMA BalancedByUnplug ==
    ASSUME Types, NEW d \in Devices, Unplug(d)
    PROVE  Balanced
  <1>1. /\ UNCHANGED <<opens, patient, asking, device, messages>> /\ UNCHANGED cameraVars
        /\ posted' = Append(posted, <<"detached", d>>) \/ posted' = posted
    BY DEF Unplug, monitorVars, appVars
  <1>2. Requests' = Requests
    <2>1. CASE posted' = posted
      BY <2>1 DEF Requests, Count, Marked
    <2>2. CASE posted' = Append(posted, <<"detached", d>>)
      <3>1. "detached" \in PostKinds /\ UsbTypes
        BY DEF PostKinds, Types
      <3>2. Count(posted', {"granted", "connect"}) = Requests
        BY <2>2, <3>1, Posted
      <3> QED
        BY <3>2 DEF Requests
    <2> QED
      BY <1>1, <2>1, <2>2
  <1>3. Opens' = Opens
    BY <1>1 DEF Opens, Count, Marked
  <1>4. ThreadTypes' /\ Used' = Used /\ mUVCCamera' = mUVCCamera
    BY <1>1, CamerasKept DEF Types
  <1> QED
    BY <1>1, <1>2, <1>3, <1>4, BalancedWhenSame

\* The answer turns a question into a broadcast, or into nothing.
LEMMA BalancedByAnswer ==
    ASSUME Types, UsbTypes', MessageTypes', NEW d \in Devices, Answer(d)
    PROVE  Balanced
  <1>1. /\ UNCHANGED <<opens, patient, device, messages>> /\ UNCHANGED cameraVars
        /\ d \in asking /\ asking' = asking \ {d} /\ IsFiniteSet(asking)
        /\ posted' = Append(posted, <<"granted", d>>) \/ posted' = posted
    BY DEF Answer, monitorVars, appVars, Types, UsbTypes
  <1>2. Requests' = Requests \/ Requests' = Requests + 1
    <2>1. CASE posted' = posted
      BY <2>1 DEF Requests, Count, Marked
    <2>2. CASE posted' = Append(posted, <<"granted", d>>)
      <3>1. "granted" \in PostKinds /\ "granted" # "detached" /\ UsbTypes
        BY DEF PostKinds, Types
      <3>2. Count(posted', {"granted", "connect"}) = Requests + 1
        BY <2>2, <3>1, Posted
      <3> QED
        BY <3>2 DEF Requests
    <2> QED
      BY <1>1, <2>1, <2>2
  <1>3. Cardinality(asking') = Cardinality(asking) - 1
    BY <1>1, FS_RemoveElement
  <1>4. /\ Requests \in Nat /\ Opens \in Nat /\ Cardinality(asking) \in Nat /\ Len(device) \in Nat
        /\ Requests' \in Nat /\ Cardinality(asking') \in Nat
    BY CountsAreNumbers, CountsStayNumbers DEF Types, BlockTypes
  <1>5. Opens' = Opens
    BY <1>1 DEF Opens, Count, Marked
  <1>6. ThreadTypes' /\ Used' = Used /\ mUVCCamera' = mUVCCamera
    BY <1>1, CamerasKept DEF Types
  <1>7. (Cardinality(asking) + Requests)' <= Cardinality(asking) + Requests
    BY <1>2, <1>3, <1>4
  <1>8. Pending' <= Pending
    BY <1>4, <1>5, <1>7 DEF Pending
  <1>9. (Len(device) + Cardinality(asking) + Requests)' <=
           Len(device) + Cardinality(asking) + Requests
    BY <1>1, <1>4, <1>7
  <1> QED
    BY <1>1, <1>6, <1>8, <1>9 DEF Balanced

\* The broadcast becomes a runnable of processConnect, or nothing.
LEMMA BalancedByPermissionGranted ==
    ASSUME Types, UsbTypes', MessageTypes', NEW d \in Devices, PermissionGranted(d)
    PROVE  Balanced
  <1> DEFINE t == Tail(posted)
             S == PostKinds \X Devices
             K == {"granted", "connect"}
  <1>1. /\ UNCHANGED <<opens, patient, asking, device, messages>> /\ UNCHANGED cameraVars
        /\ Takes("granted", d)
        /\ posted' = Append(t, <<"connect", d>>) \/ posted' = t
    BY DEF PermissionGranted, usbVars, monitorVars, appVars
  <1>2. t \in Seq(S) /\ Count(t, K) \in Nat /\ Requests = Count(t, K) + 1
    <2>1. "granted" \in PostKinds /\ "granted" # "detached"
      BY DEF PostKinds
    <2> QED
      BY <1>1, <2>1, TakenFromPosted DEF Types
  <1>3. <<"connect", d>> \in S /\ <<"connect", d>>[1] \in K
    BY DEF PostKinds
  <1> HIDE DEF t, S, K
  <1>4. Count(Append(t, <<"connect", d>>), K) = Count(t, K) + 1
    BY <1>2, <1>3, CountAppended
  <1>5. Requests' = Count(posted', K)
    BY DEF Requests, K
  <1>6. /\ Requests \in Nat /\ Opens \in Nat /\ Cardinality(asking) \in Nat /\ Len(device) \in Nat
        /\ Requests' \in Nat
    BY CountsAreNumbers, CountsStayNumbers DEF Types, BlockTypes
  <1>7. Requests' <= Requests
    <2>1. Takes("granted", d) => posted' = t \/ posted' = Append(t, <<"connect", d>>)
      BY DEF PermissionGranted, t
    <2>2. posted' = t \/ posted' = Append(t, <<"connect", d>>)
      BY <2>1 DEF PermissionGranted
    <2>3. Requests' = Count(t, K) \/ Requests' = Count(t, K) + 1
      BY <1>4, <1>5, <2>2
    <2> QED
      BY <1>2, <1>6, <2>3
  <1>8. Opens' = Opens
    BY <1>1 DEF Opens, Count, Marked
  <1>9. ThreadTypes' /\ Used' = Used /\ mUVCCamera' = mUVCCamera
    BY <1>1, CamerasKept DEF Types
  <1>10. Cardinality(asking)' = Cardinality(asking) /\ Len(device)' = Len(device)
    BY <1>1
  <1>11. Pending' <= Pending
    BY <1>6, <1>7, <1>8, <1>10 DEF Pending
  <1>12. (Len(device) + Cardinality(asking) + Requests)' <=
            Len(device) + Cardinality(asking) + Requests
    BY <1>6, <1>7, <1>10
  <1> QED
    BY <1>1, <1>9, <1>11, <1>12 DEF Balanced

\* The runnable becomes the opening that is sent to the CameraThread.
LEMMA BalancedByConnect ==
    ASSUME Types, EachConnectionFiled, UsbTypes', MessageTypes', NEW d \in Devices, Connect(d)
    PROVE  Balanced
  <1>1. /\ UNCHANGED <<opens, patient, asking>> /\ UNCHANGED cameraVars
        /\ Takes("connect", d) /\ posted' = Tail(posted) /\ GetBlock(d)
        /\ \/ messages' = messages \o << <<"open", mCtrlBlocks'[d]>>, <<"start", None>> >>
           \/ messages' = messages
    BY DEF Connect, usbVars
  <1>2. Count(Tail(posted), {"granted", "connect"}) \in Nat
        /\ Requests = Count(Tail(posted), {"granted", "connect"}) + 1
    <2>1. "connect" \in PostKinds /\ "connect" # "detached"
      BY DEF PostKinds
    <2> QED
      BY <1>1, <2>1, TakenFromPosted DEF Types
  <1>3. Requests' = Count(Tail(posted), {"granted", "connect"})
    BY <1>1 DEF Requests
  <1>4. /\ mCtrlBlocks'[d] \in 1 .. Len(device') /\ Len(device) \in Nat
        /\ Len(device') \in {Len(device), Len(device) + 1}
    BY <1>1, BlocksKeptByConnect DEF Types
  <1>5. mCtrlBlocks'[d] \in Nat
    BY <1>4
  <1>6. Opens' = Opens \/ Opens' = Opens + 1
    <2>1. CASE messages' = messages
      BY <2>1 DEF Opens, Count, Marked
    <2>2. CASE messages' = messages \o << <<"open", mCtrlBlocks'[d]>>, <<"start", None>> >>
      BY <1>5, <2>2, OpenMessaged DEF Types
    <2> QED
      BY <1>1, <2>1, <2>2
  <1>7. /\ Requests \in Nat /\ Opens \in Nat /\ Cardinality(asking) \in Nat
        /\ Requests' \in Nat /\ Opens' \in Nat /\ Requests' = Requests - 1
    <2>1. /\ Requests \in Nat /\ Opens \in Nat /\ Cardinality(asking) \in Nat
          /\ Requests' \in Nat /\ Opens' \in Nat
      BY CountsAreNumbers, CountsStayNumbers DEF Types
    <2> QED
      BY <1>2, <1>3, <2>1
  <1>8. ThreadTypes' /\ Used' = Used /\ mUVCCamera' = mUVCCamera
    BY <1>1, CamerasKept DEF Types
  <1>9. Cardinality(asking)' = Cardinality(asking)
    BY <1>1
  <1>10. Pending' <= Pending
    BY <1>6, <1>7, <1>9 DEF Pending
  <1>11. (Len(device) + Cardinality(asking) + Requests)' <=
            Len(device) + Cardinality(asking) + Requests
    BY <1>4, <1>7, <1>9
  <1> QED
    BY <1>1, <1>8, <1>10, <1>11 DEF Balanced

\* Closing, unplugged or destroyed, makes no opening.
LEMMA BalancedByClosing ==
    ASSUME Types, NEW d,
           \/ Close \/ CameraClosed \/ Destroy \/ Destroyed \/ DestroyBlock(d)
           \/ d \in Devices /\ Detached(d)
    PROVE  Balanced
  <1>1. /\ UNCHANGED <<opens, patient, asking, device>> /\ UNCHANGED cameraVars
    BY DEF Close, CameraClosed, Destroy, Destroyed, DestroyBlock, Detached, usbVars, monitorVars,
       appVars
  <1>2. ThreadTypes' /\ Used' = Used /\ mUVCCamera' = mUVCCamera
    BY <1>1, CamerasKept DEF Types
  <1>3. posted' = posted => Requests' = Requests
    BY DEF Requests, Count, Marked
  <1>4. messages' = messages => Opens' = Opens
    BY DEF Opens, Count, Marked
  <1>5. ASSUME Close \/ CameraClosed PROVE Requests' = Requests /\ Opens' = Opens
    <2>1. /\ posted' = posted
          /\ \/ messages' = Append(messages, <<"stop", None>>)
             \/ messages' = Append(messages, <<"close", None>>)
      BY <1>5 DEF Close, CameraClosed, CloseCamera
    <2> QED
      BY <1>3, <2>1, OtherSent DEF Types
  <1>6. ASSUME Destroy \/ Destroyed PROVE Requests' = Requests /\ Opens' = Opens
    BY <1>3, <1>4, <1>6 DEF Destroy, Destroyed
  <1>7. ASSUME DestroyBlock(d) PROVE Requests' = Requests /\ Opens' = Opens
    <2>1. posted' = posted /\ CloseBlock(mCtrlBlocks[d], "destroying")
      BY <1>7 DEF DestroyBlock
    <2> QED
      BY <1>3, <2>1, OpensKeptByClosing DEF Types
  <1>8. ASSUME d \in Devices, Detached(d) PROVE Requests' = Requests /\ Opens' = Opens
    <2>1. /\ Takes("detached", d) /\ posted' = Tail(posted)
          /\ CloseBlock(mCtrlBlocks[d], "idle") \/ messages' = messages
      BY <1>8 DEF Detached
    <2>2. Requests = Count(Tail(posted), {"granted", "connect"})
      <3>1. "detached" \in PostKinds
        BY DEF PostKinds
      <3> QED
        BY <1>8, <2>1, <3>1, TakenFromPosted DEF Types
    <2>3. Requests' = Requests
      BY <2>1, <2>2 DEF Requests
    <2> QED
      BY <1>4, <2>1, <2>3, OpensKeptByClosing DEF Types
  <1> QED
    BY <1>1, <1>2, <1>5, <1>6, <1>7, <1>8, BalancedWhenSame

\* The CameraThread opens only in handleOpen.
LEMMA BalancedByThread ==
    ASSUME Types, Thread, ~HandleOpen
    PROVE  Balanced
  <1>1. GetFileDescriptor \/ NativeConnect \/ HandleClose \/ HandleStartPreview \/ HandleStopPreview
    BY DEF Thread
  <1>2. /\ ThreadTypes' /\ Used' = Used /\ Opens' = Opens
        /\ mUVCCamera' = mUVCCamera \/ mUVCCamera' = None
    BY <1>1, CamerasChanged DEF Types
  <1>3. UNCHANGED <<opens, patient, asking, device, posted>>
    BY ThreadLeavesAlone DEF usbVars, monitorVars, appVars
  <1>4. Requests' = Requests
    BY <1>3 DEF Requests, Count, Marked
  <1> QED
    BY <1>2, <1>3, <1>4, BalancedWhenSame

\* Every step keeps the account.
LEMMA AccountKeptByAll ==
    ASSUME Types, EachConnectionFiled, Charged, OneAtATime, Queued, UsbTypes', MessageTypes',
           Grows, [Next]_vars
    PROVE  ThreadTypes' /\ Charged' /\ OneAtATime'
  <1>1. Balanced => ThreadTypes' /\ Charged' /\ OneAtATime'
    BY AccountKept DEF Balanced
  <1>2. ASSUME NEW d \in Devices, Open(d) PROVE ThreadTypes' /\ Charged' /\ OneAtATime'
    <2>1. ThreadTypes'
      BY <1>2, CamerasKept DEF Open, Types
    <2> QED
      BY <1>2, <2>1, AccountKeptByOpen
  <1>3. CASE HandleOpen
    <2>1. ThreadTypes'
      BY <1>3, CameraMade DEF Types
    <2> QED
      BY <1>3, <2>1, AccountKeptByHandleOpen
  <1>4. ASSUME Thread, ~HandleOpen PROVE Balanced
    BY <1>4, BalancedByThread
  <1>5. ASSUME NEW d \in Devices,
               \/ Unplug(d) \/ Answer(d) \/ PermissionGranted(d) \/ Connect(d)
               \/ DestroyBlock(d) \/ Detached(d)
        PROVE  Balanced
    BY <1>5, BalancedByUnplug, BalancedByAnswer, BalancedByPermissionGranted, BalancedByConnect,
       BalancedByClosing
  <1>6. ASSUME Close \/ CameraClosed \/ Destroy \/ Destroyed PROVE Balanced
    BY <1>6, BalancedByClosing
  <1>7. ASSUME UNCHANGED vars PROVE Balanced
    <2>1. UNCHANGED <<opens, patient, asking, device, posted, messages>> /\ UNCHANGED cameraVars
      BY <1>7 DEF vars, usbVars, monitorVars, appVars
    <2>2. ThreadTypes' /\ Used' = Used /\ mUVCCamera' = mUVCCamera
      BY <2>1, CamerasKept DEF Types
    <2>3. Requests' = Requests /\ Opens' = Opens
      BY <2>1 DEF Requests, Opens, Count, Marked
    <2> QED
      BY <2>1, <2>2, <2>3, BalancedWhenSame
  <1> QED
    BY <1>1, <1>2, <1>3, <1>4, <1>5, <1>6, <1>7 DEF Next, Ui

-------------------------------------------------------------------------------
(* What becomes of the cameras *)

Fate == StartAhead /\ NoneLeaked /\ PreviewStopped

\* The UI thread only appends to the queue, and does not wake itself.
LEMMA UiOnlySends ==
    ASSUME Types, EachConnectionFiled,
           \/ Ui \/ Close \/ Destroy
           \/ \E d \in Devices : Unplug(d) \/ Answer(d) \/ Open(d)
    PROVE  /\ UNCHANGED cameraVars /\ patient' = patient /\ (ui' = "woken" => ui = "woken")
           /\ \A i \in DOMAIN messages : i \in DOMAIN messages' /\ messages'[i] = messages[i]
  <1> DEFINE Sends ==
        /\ UNCHANGED cameraVars /\ patient' = patient /\ (ui' = "woken" => ui = "woken")
        /\ \A i \in DOMAIN messages : i \in DOMAIN messages' /\ messages'[i] = messages[i]
  <1>1. ASSUME NEW k \in {"stop", "close"}, messages' = Append(messages, <<k, None>>)
        PROVE  \A i \in DOMAIN messages : i \in DOMAIN messages' /\ messages'[i] = messages[i]
    <2>1. k \in MessageKinds /\ None \in Nat
      BY DEF MessageKinds, None
    <2>2. /\ DOMAIN messages = 1 .. Len(messages) /\ DOMAIN messages' = 1 .. Len(messages) + 1
          /\ Len(messages) \in Nat /\ \A i \in 1 .. Len(messages) : messages'[i] = messages[i]
      BY <1>1, <2>1, Messaged DEF Types
    <2> QED
      BY <2>2
  <1>2. ASSUME NEW b, NEW next \in {"idle", "destroying"}, CloseBlock(b, next)
        PROVE  /\ ui' # "woken"
               /\ \A i \in DOMAIN messages : i \in DOMAIN messages' /\ messages'[i] = messages[i]
    <2>1. /\ messages' = Append(messages, <<"stop", None>>) \/ messages' = messages
          /\ ui' \in {"waiting", "idle", "destroying"}
      BY <1>2, BlockClosed
    <2> QED
      BY <1>1, <2>1
  <1>3. ASSUME Close PROVE Sends
    <2>1. /\ UNCHANGED cameraVars /\ patient' = patient /\ ui' = "waiting"
          /\ messages' = Append(messages, <<"stop", None>>)
      BY <1>3 DEF Close, CloseCamera, appVars
    <2> QED
      BY <1>1, <2>1
  <1>4. ASSUME CameraClosed PROVE Sends
    <2>1. /\ UNCHANGED cameraVars /\ patient' = patient /\ ui' \in {"idle", "destroying"}
          /\ messages' = Append(messages, <<"close", None>>)
      BY <1>4 DEF CameraClosed, appVars, Types, UiTypes
    <2> QED
      BY <1>1, <2>1
  <1>5. ASSUME Destroy \/ Destroyed PROVE Sends
    BY <1>5 DEF Destroy, Destroyed, appVars
  <1>6. ASSUME NEW d \in Devices, DestroyBlock(d) PROVE Sends
    <2>1. /\ UNCHANGED cameraVars /\ patient' = patient
          /\ CloseBlock(mCtrlBlocks[d], "destroying")
      BY <1>6 DEF DestroyBlock, appVars
    <2> QED
      BY <1>2, <2>1
  <1>7. ASSUME NEW d \in Devices, Detached(d) PROVE Sends
    <2>1. /\ UNCHANGED cameraVars /\ patient' = patient
          /\ CloseBlock(mCtrlBlocks[d], "idle") \/ (messages' = messages /\ ui' = ui)
      BY <1>7 DEF Detached, appVars, uiVars
    <2> QED
      BY <1>2, <2>1
  <1>8. ASSUME NEW d \in Devices, Connect(d) PROVE Sends
    <2>1. /\ UNCHANGED cameraVars /\ patient' = patient /\ ui' = ui /\ GetBlock(d)
          /\ \/ messages' = messages \o << <<"open", mCtrlBlocks'[d]>>, <<"start", None>> >>
             \/ messages' = messages
      BY <1>8 DEF Connect, uiVars
    <2>2. mCtrlBlocks'[d] \in Nat
      <3>1. mCtrlBlocks'[d] \in 1 .. Len(device')
        BY <2>1, BlocksKeptByConnect DEF Types
      <3> QED
        BY <3>1
    <2>3. CASE messages' = messages \o << <<"open", mCtrlBlocks'[d]>>, <<"start", None>> >>
      <3>1. /\ DOMAIN messages = 1 .. Len(messages) /\ DOMAIN messages' = 1 .. Len(messages) + 2
            /\ Len(messages) \in Nat /\ \A i \in 1 .. Len(messages) : messages'[i] = messages[i]
        BY <2>2, <2>3, OpenMessaged DEF Types
      <3> QED
        BY <2>1, <3>1
    <2> QED
      BY <2>1, <2>3
  <1>9. ASSUME NEW d \in Devices, Unplug(d) \/ Answer(d) \/ Open(d) \/ PermissionGranted(d)
        PROVE  Sends
    BY <1>9 DEF Unplug, Answer, Open, PermissionGranted, appVars, uiVars
  <1> QED
    BY <1>3, <1>4, <1>5, <1>6, <1>7, <1>8, <1>9 DEF Ui

\* A camera that has been made stays made, so one that is replaced stays replaced.
LEMMA ReplacedStays ==
    ASSUME ThreadTypes, patient' = patient,
           \A x \in Cameras : camera[x] # "none" => camera'[x] # "none"
    PROVE  \A c \in Cameras : Replaced(c) => Replaced(c)'
  BY DEF Replaced

\* What is only appended to keeps its start.
LEMMA FateKeptBySending ==
    ASSUME Fate, UNCHANGED cameraVars, patient' = patient, ui' = "woken" => ui = "woken",
           \A i \in DOMAIN messages : i \in DOMAIN messages' /\ messages'[i] = messages[i]
    PROVE  Fate'
  <1>1. mUVCCamera' = mUVCCamera /\ camera' = camera
    BY DEF cameraVars
  <1>2. StartAhead'
    BY <1>1 DEF Fate, StartAhead, Live
  <1>3. NoneLeaked'
    BY <1>1 DEF Fate, NoneLeaked, Replaced
  <1>4. PreviewStopped'
    BY <1>1 DEF Fate, PreviewStopped, Replaced
  <1> QED
    BY <1>2, <1>3, <1>4 DEF Fate

\* A patient application's camera is opened when there is no other; an impatient one's
\* replaces all that were made before.
LEMMA FateKeptByHandleOpen ==
    ASSUME Types, Charged, OneAtATime, Queued, Fate, HandleOpen
    PROVE  Fate'
  <1> DEFINE c == Cardinality(Used) + 1
  <1>1. /\ c \in Cameras /\ camera' = [camera EXCEPT ![c] = "created"] /\ mUVCCamera' = c
        /\ Opens' \in Nat /\ Opens = Opens' + 1
        /\ Len(messages') >= 1 /\ messages'[1][1] = "start" /\ ThreadTypes'
    BY CameraMade DEF Types
  <1>2. patient' = patient /\ ui' = ui /\ thread = "idle" /\ messages # <<>>
    BY DEF HandleOpen, Handles, threadFrame, appVars, uiVars
  <1>3. messages' \in Seq(MessageKinds \X Nat)
    <2>1. "open" \in MessageKinds /\ Handles("open")
      BY DEF HandleOpen, MessageKinds
    <2> QED
      BY <2>1, TakenFromMessages DEF Types
  <1>4. 1 \in DOMAIN messages'
    BY <1>1, <1>3, LenProperties
  <1>5. StartAhead'
    BY <1>1, <1>4 DEF StartAhead
  <1>6. patient => mUVCCamera = None
    <2>1. Requests \in Nat /\ Cardinality(asking) \in Nat
      BY CountsAreNumbers DEF Types
    <2> QED
      BY <1>1, <2>1 DEF OneAtATime
  <1>7. NoneLeaked'
    <2>1. None \notin Cameras
      BY DEF None, Cameras
    <2>2. camera'[c] # "none" /\ \A x \in Cameras : x # c => camera'[x] = camera[x]
      BY <1>1 DEF Types, ThreadTypes
    <2>3. ASSUME patient, NEW x \in Cameras, x # c PROVE camera'[x] \in {"none", "destroyed"}
      <3>1. x \in Cameras \ {mUVCCamera}
        BY <1>6, <2>1, <2>3
      <3> QED
        BY <2>2, <2>3, <3>1 DEF Fate, NoneLeaked, Replaced
    <2>4. ASSUME ~patient, NEW x \in Cameras, x # c, camera'[x] # "none" PROVE Replaced(x)'
      <3>1. x \in Used /\ Used = 1 .. Cardinality(Used) /\ Cardinality(Used) \in Nat
        BY <2>2, <2>4, FS_CardinalityType DEF Used, Charged
      <3>2. c > x
        BY <3>1
      <3> HIDE DEF c
      <3> QED
        BY <1>1, <1>2, <2>2, <2>4, <3>2 DEF Replaced
    <2> HIDE DEF c
    <2> QED
      BY <1>1, <1>2, <2>3, <2>4 DEF NoneLeaked
  <1>8. PreviewStopped'
    <2>1. ui' # "woken"
      BY <1>2 DEF Queued
    <2> QED
      BY <2>1 DEF PreviewStopped
  <1> QED
    BY <1>5, <1>7, <1>8 DEF Fate

\* The other steps give a camera up only when they destroy it.
LEMMA FateKeptByThread ==
    ASSUME Types, Queued, Fate, Thread, ~HandleOpen
    PROVE  Fate'
  <1>1. GetFileDescriptor \/ NativeConnect \/ HandleClose \/ HandleStartPreview \/ HandleStopPreview
    BY DEF Thread
  <1>2. /\ \A x \in Cameras : x # mUVCCamera => camera'[x] = camera[x]
        /\ \/ mUVCCamera' = mUVCCamera
           \/ mUVCCamera' = None /\ (mUVCCamera # None => camera'[mUVCCamera] = "destroyed")
    BY <1>1, CamerasChanged DEF Types
  <1>3. patient' = patient
    BY ThreadLeavesAlone DEF appVars
  <1>4. None \notin Cameras /\ (mUVCCamera # None => mUVCCamera \in Cameras)
        /\ camera \in [Cameras -> CameraStates]
    BY DEF None, Cameras, Types, ThreadTypes, Used
  <1>5. /\ NoneLeaked'
        /\ \A x \in Cameras : Replaced(x) => Replaced(x)'
    <2>1. \A x \in Cameras : camera[x] # "none" => camera'[x] # "none"
      <3>1. Used' = Used
        BY <1>1, CamerasChanged DEF Types
      <3> QED
        BY <3>1 DEF Used
    <2>2. \A x \in Cameras : Replaced(x) => Replaced(x)'
      BY <1>3, <2>1, ReplacedStays DEF Types
    <2>3. ASSUME NEW x \in Cameras, x # mUVCCamera'
          PROVE  camera'[x] \in {"none", "destroyed"} \/ Replaced(x)'
      <3>1. CASE x = mUVCCamera
        BY <1>2, <1>4, <2>3, <3>1
      <3>2. CASE x # mUVCCamera
        BY <1>2, <2>2, <2>3, <3>2 DEF Fate, NoneLeaked
      <3> QED
        BY <3>1, <3>2
    <2> QED
      BY <2>2, <2>3 DEF NoneLeaked
  <1>6. ASSUME HandleStopPreview PROVE StartAhead' /\ PreviewStopped'
    <2>1. /\ Handles("stop") /\ "stop" \in MessageKinds /\ mUVCCamera' = mUVCCamera
          /\ camera' = [c \in Cameras |->
                IF c = mUVCCamera /\ camera[c] = "previewing" THEN "connected" ELSE camera[c]]
      BY <1>6 DEF HandleStopPreview, StopCamera, MessageKinds
    <2>2. \A x \in Cameras : camera'[x] =
              IF x = mUVCCamera /\ camera[x] = "previewing" THEN "connected" ELSE camera[x]
      BY <2>1
    <2>3. PreviewStopped'
      <3>1. ASSUME NEW x \in Cameras, camera'[x] = "previewing" PROVE Replaced(x)'
        <4>1. x # mUVCCamera
          BY <2>2, <3>1
        <4>2. Replaced(x)
          BY <2>2, <3>1, <4>1 DEF Fate, NoneLeaked
        <4> QED
          BY <1>5, <4>2
      <3> QED
        BY <3>1 DEF PreviewStopped
    <2>4. ASSUME mUVCCamera' # None, ~Live(mUVCCamera)'
          PROVE  \E i \in DOMAIN messages' : messages'[i][1] = "start"
      <3>1. ~Live(mUVCCamera) /\ mUVCCamera # None
        BY <1>4, <2>1, <2>2, <2>4 DEF Live
      <3>2. PICK i \in DOMAIN messages : messages[i][1] = "start"
        BY <3>1 DEF Fate, StartAhead
      <3>3. /\ Len(messages) \in Nat /\ messages[1][1] = "stop"
            /\ DOMAIN messages = 1 .. Len(messages) /\ DOMAIN messages' = 1 .. Len(messages) - 1
            /\ \A j \in 1 .. Len(messages) - 1 : messages'[j] = messages[j + 1]
        BY <2>1, TakenFromMessages DEF Types
      <3>4. i # 1
        BY <3>2, <3>3
      <3>5. i - 1 \in 1 .. Len(messages) - 1 /\ i - 1 + 1 = i
        BY <3>2, <3>3, <3>4
      <3>6. messages'[i - 1][1] = "start"
        BY <3>2, <3>3, <3>5
      <3> QED
        BY <3>3, <3>5, <3>6
    <2>5. StartAhead'
      BY <2>4 DEF StartAhead
    <2> QED
      BY <2>3, <2>5
  <1>7. ASSUME GetFileDescriptor \/ NativeConnect \/ HandleClose \/ HandleStartPreview
        PROVE  PreviewStopped'
    <2>1. ui' = ui /\ (thread # "idle" \/ messages # <<>>)
      BY <1>7 DEF GetFileDescriptor, NativeConnect, HandleClose, HandleStartPreview, uiVars, Handles
    <2>2. ui' # "woken"
      BY <2>1 DEF Queued
    <2> QED
      BY <2>2 DEF PreviewStopped
  <1>8. ASSUME UNCHANGED <<mUVCCamera, camera, messages>> PROVE StartAhead'
    BY <1>8 DEF Fate, StartAhead, Live
  <1>9. ASSUME NEW s \in {"connected", "previewing"}, mUVCCamera' = mUVCCamera,
               camera' = [camera EXCEPT ![mUVCCamera] = s]
        PROVE  StartAhead'
    <2>1. mUVCCamera # None => camera'[mUVCCamera] = s
      BY <1>4, <1>9
    <2>2. mUVCCamera # None => Live(mUVCCamera)'
      BY <1>9, <2>1 DEF Live
    <2> QED
      BY <1>9, <2>2 DEF StartAhead
  <1>10. mUVCCamera' = None => StartAhead'
    BY DEF StartAhead
  <1>11. ASSUME mUVCCamera # None, Live(mUVCCamera), UNCHANGED <<mUVCCamera, camera>>
         PROVE  StartAhead'
    BY <1>11 DEF StartAhead, Live
  <1>12. ASSUME GetFileDescriptor PROVE StartAhead'
    BY <1>8, <1>12 DEF GetFileDescriptor
  <1>13. ASSUME NativeConnect PROVE StartAhead'
    BY <1>8, <1>9, <1>13 DEF NativeConnect
  <1>14. ASSUME HandleClose PROVE StartAhead'
    BY <1>10, <1>14 DEF HandleClose, DestroyCamera
  <1>15. ASSUME HandleStartPreview PROVE StartAhead'
    <2>1. \/ mUVCCamera = None /\ UNCHANGED <<mUVCCamera, camera>>
          \/ /\ mUVCCamera # None /\ Live(mUVCCamera)
             /\ \/ camera' = [camera EXCEPT ![mUVCCamera] = "previewing"]
                \/ UNCHANGED camera
             /\ UNCHANGED mUVCCamera
          \/ mUVCCamera' = None
      BY <1>15 DEF HandleStartPreview, GiveUp, DestroyCamera
    <2> QED
      BY <1>9, <1>10, <1>11, <2>1
  <1> QED
    BY <1>1, <1>5, <1>6, <1>7, <1>12, <1>13, <1>14, <1>15 DEF Fate

-------------------------------------------------------------------------------
(* The invariant, and what follows from it *)

\* The invariant holds at first,
LEMMA IInvInitially ==
    Init => IInv
  <1> SUFFICES ASSUME Init PROVE IInv
    OBVIOUS
  <1> USE DEF Init
  <1>1. IsFiniteSet({}) /\ Cardinality({}) = 0
    BY FS_EmptySet
  <1>2. Used = {}
    BY DEF Used
  <1>3. Requests = 0 /\ Opens = 0
    <2>1. Marked(<<>>, {"granted", "connect"}) = {} /\ Marked(<<>>, {"open"}) = {}
      BY DEF Marked
    <2> QED
      BY <1>1, <2>1 DEF Requests, Opens, Count
  <1>4. UsbTypes
    <2>1. patient \in BOOLEAN
      BY SessionAssumption
    <2>2. opens \in 0 .. MaxOpens
      BY SessionAssumption
    <2>3. /\ permitted \subseteq plugged /\ plugged \subseteq Devices /\ asking \subseteq Devices
          /\ posted \in Seq(PostKinds \X Devices)
      OBVIOUS
    <2> QED
      BY <1>1, <2>1, <2>2, <2>3 DEF UsbTypes
  <1>5. BlockTypes
    BY DEF BlockTypes, None
  <1>6. UiTypes
    BY DEF UiTypes, None
  <1>7. MessageTypes
    BY DEF MessageTypes
  <1>8. ThreadTypes
    BY <1>2 DEF ThreadTypes, CameraStates
  <1>9. Charged
    <2>1. 1 .. 0 = {}
      OBVIOUS
    <2>2. IsFiniteSet(Used) /\ Cardinality(Used) = 0 /\ Used = 1 .. Cardinality(Used)
      BY <1>1, <1>2, <2>1
    <2>3. Len(device) = 0 /\ Cardinality(asking) = 0 /\ opens = 0
      BY <1>1
    <2> QED
      BY <1>3, <2>2, <2>3 DEF Charged
  <1>10. OneAtATime
    BY <1>1, <1>3 DEF OneAtATime
  <1>11. Queued /\ StartAhead
    BY DEF Queued, StartAhead
  <1>12. EachConnectionFiled /\ NoneLeaked /\ PreviewStopped
    BY DEF EachConnectionFiled, NoneLeaked, PreviewStopped
  <1> QED
    BY <1>4, <1>5, <1>6, <1>7, <1>8, <1>9, <1>10, <1>11, <1>12 DEF IInv, Types

\* is kept by every step,
LEMMA IInvKept ==
    IInv /\ [Next]_vars => IInv'
  <1> SUFFICES ASSUME IInv, [Next]_vars PROVE IInv'
    OBVIOUS
  <1> USE DEF IInv, Types
  <1>1. UsbTypes'
    BY UsbTypesKept, SessionAssumption
  <1>2. BlockTypes' /\ EachConnectionFiled' /\ Grows
    BY BlocksKept DEF Grows
  <1>3. UiTypes' /\ MessageTypes' /\ Queued'
    BY TalkKept DEF Talk
  <1>4. ThreadTypes' /\ Charged' /\ OneAtATime'
    BY <1>1, <1>2, <1>3, AccountKeptByAll
  <1>5. Fate'
    <2>1. Fate
      BY DEF Fate
    <2>2. CASE Thread
      BY <2>1, <2>2, FateKeptByHandleOpen, FateKeptByThread
    <2>3. CASE UNCHANGED vars
      <3>1. UNCHANGED cameraVars /\ UNCHANGED <<patient, ui, messages>>
        BY <2>3 DEF vars, appVars, uiVars
      <3> QED
        BY <2>1, <3>1, FateKeptBySending
    <2>4. ASSUME \/ Ui \/ Close \/ Destroy
                 \/ \E d \in Devices : Unplug(d) \/ Answer(d) \/ Open(d)
          PROVE  Fate'
      BY <2>1, <2>4, UiOnlySends, FateKeptBySending
    <2> QED
      BY <2>2, <2>3, <2>4 DEF Next
  <1> QED
    BY <1>1, <1>2, <1>3, <1>4, <1>5 DEF Fate

\* and so always holds.
LEMMA InvariantHolds ==
    Spec => []IInv
  BY IInvInitially, IInvKept, PTL DEF Spec

\* The types are right, and there are no more control blocks and cameras than the calls of
\* open that asked for them.
THEOREM TypeCorrect ==
    Spec => []TypeOK
  <1>1. IInv => TypeOK
    <2> SUFFICES ASSUME IInv PROVE TypeOK
      OBVIOUS
    <2> USE DEF IInv, Types
    <2>1. /\ permitted \subseteq plugged /\ plugged \subseteq Devices /\ asking \subseteq Devices
          /\ opens \in 0 .. MaxOpens /\ {mPermissionIntent, mHandler, crashed} \subseteq BOOLEAN
          /\ posted \in Seq(PostKinds \X Devices)
      BY DEF UsbTypes
    <2>2. /\ DOMAIN device = 1 .. Len(device) /\ Len(device) \in Nat
          /\ mConnection \subseteq DOMAIN device
          /\ \A d \in Devices : mCtrlBlocks[d] # None => device[mCtrlBlocks[d]] = d
      BY DEF BlockTypes
    <2>3. Len(device) <= opens
      <3>1. Cardinality(asking) \in Nat /\ Requests \in Nat
        BY CountsAreNumbers
      <3>2. Len(device) + Cardinality(asking) + Requests <= opens /\ opens \in Nat
        BY <2>1 DEF Charged
      <3> QED
        BY <2>2, <3>1, <3>2
    <2>4. Elements(posted) \subseteq {"granted", "connect", "detached"} \X Devices
      BY <2>1 DEF Elements, PostKinds
    <2>5. /\ ui \in {"idle", "waiting", "woken", "destroying"} /\ uiNext \in {"idle", "destroying"}
          /\ closing \in {None} \cup DOMAIN device
      BY <2>2 DEF UiTypes, None
    <2>6. Elements(messages) \subseteq
              ({"open"} \X DOMAIN device) \cup ({"start", "stop", "close"} \X {None})
      <3>1. ASSUME NEW i \in DOMAIN messages
            PROVE  messages[i] \in ({"open"} \X DOMAIN device)
                                  \cup ({"start", "stop", "close"} \X {None})
        <4>1. messages[i] \in MessageKinds \X Nat
          BY DEF MessageTypes
        <4>2. IF messages[i][1] = "open" THEN messages[i][2] \in DOMAIN device
                                         ELSE messages[i][2] = None
          BY <2>2 DEF MessageTypes
        <4> QED
          BY <4>1, <4>2 DEF MessageKinds
      <3> QED
        BY <3>1 DEF Elements
    <2>7. /\ thread \in {"idle", "open", "connect"} /\ mUVCCamera \in {None} \cup Cameras
          /\ camera \in [Cameras -> {"none", "created", "connected", "previewing", "destroyed"}]
          /\ block \in [Cameras -> {None} \cup Blocks]
      BY DEF ThreadTypes, Used, CameraStates
    <2> QED
      BY <2>1, <2>2, <2>3, <2>4, <2>5, <2>6, <2>7 DEF TypeOK
  <1> QED
    BY <1>1, InvariantHolds, PTL

\* No open connection is lost to its control block, whatever is opened twice, unplugged or
\* cannot be opened.
THEOREM ConnectionsFiled ==
    Spec => []EachConnectionFiled
  <1>1. IInv => EachConnectionFiled
    BY DEF IInv
  <1> QED
    BY <1>1, InvariantHolds, PTL

\* A camera that is open when the CameraThread has nothing left to do is connected.
THEOREM OpenedWhenDone ==
    Spec => []OpenedIsConnected
  <1>1. IInv => OpenedIsConnected
    BY DEF IInv, StartAhead, OpenedIsConnected, isCameraOpened
  <1> QED
    BY <1>1, InvariantHolds, PTL

\* The only camera that is leaked is one that handleOpen replaces (249): every other one that
\* CameraThread no longer knows has been destroyed, and a patient application leaks none.
THEOREM NoCameraLeaked ==
    Spec => []NoneLeaked
  <1>1. IInv => NoneLeaked
    BY DEF IInv
  <1> QED
    BY <1>1, InvariantHolds, PTL

\* When stopPreview returns, no camera previews but one that handleOpen has replaced.
THEOREM StopStops ==
    Spec => []PreviewStopped
  <1>1. IInv => PreviewStopped
    BY DEF IInv
  <1> QED
    BY <1>1, InvariantHolds, PTL

-------------------------------------------------------------------------------
(* Connections and their cameras *)

CloseQueued == \E i \in DOMAIN messages : messages[i] = <<"close", None>>

\* A camera without its connection has its close before it.
CloseAhead ==
    \A c \in Cameras : Live(c) /\ block[c] \notin mConnection =>
        ui \in {"waiting", "woken"} \/ CloseQueued \/ Replaced(c)

\* After destroy() there are no connections.
NoneConnected == ~mHandler /\ ~crashed => mConnection = {}

\* Only CameraThread takes a close from the queue, and only to destroy the camera.
LEMMA CloseStaysQueued ==
    ASSUME MessageTypes, CloseQueued, NEW k \in {"open", "start", "stop"}, Handles(k)
    PROVE  CloseQueued'
  <1>1. /\ messages[1][1] = k /\ Len(messages) \in Nat
        /\ DOMAIN messages = 1 .. Len(messages) /\ DOMAIN messages' = 1 .. Len(messages) - 1
        /\ \A i \in 1 .. Len(messages) - 1 : messages'[i] = messages[i + 1]
    BY TakenFromMessages DEF MessageKinds
  <1>2. PICK i \in DOMAIN messages : messages[i] = <<"close", None>>
    BY DEF CloseQueued
  <1>3. messages[i][1] = "close"
    BY <1>2
  <1>4. i # 1
    BY <1>1, <1>3
  <1>5. i - 1 \in 1 .. Len(messages) - 1 /\ i - 1 + 1 = i
    BY <1>1, <1>2, <1>4
  <1>6. messages'[i - 1] = <<"close", None>>
    BY <1>1, <1>2, <1>5
  <1> QED
    BY <1>1, <1>5, <1>6 DEF CloseQueued

\* The UI thread closes a connection only with a stop, after which it sends the close.
LEMMA CloseAheadKeptByUi ==
    ASSUME IInv, CloseAhead,
           \/ Ui \/ Close \/ Destroy
           \/ \E d \in Devices : Unplug(d) \/ Answer(d) \/ Open(d)
    PROVE  CloseAhead'
  <1>1. /\ UNCHANGED <<camera, block>> /\ patient' = patient
        /\ CloseQueued => CloseQueued'
    BY UiOnlySends DEF IInv, cameraVars, CloseQueued
  <1>2. ASSUME ui' \in {"waiting", "woken"} PROVE CloseAhead'
    BY <1>2 DEF CloseAhead
  <1>3. ASSUME mConnection \subseteq mConnection',
               ui' \in {"waiting", "woken"} \/ ui \notin {"waiting", "woken"}
        PROVE  CloseAhead'
    BY <1>1, <1>3 DEF CloseAhead, Live, Replaced
  <1>4. ASSUME NEW b, NEW next, CloseBlock(b, next), ui \notin {"waiting", "woken"}
        PROVE  CloseAhead'
    BY <1>2, <1>3, <1>4, BlockClosed
  <1>5. ASSUME CameraClosed PROVE CloseAhead'
    <2>1. messages' = Append(messages, <<"close", None>>)
      BY <1>5 DEF CameraClosed
    <2>2. "close" \in MessageKinds /\ None \in Nat
      BY DEF MessageKinds, None
    <2>3. /\ messages'[Len(messages) + 1] = <<"close", None>> /\ Len(messages) \in Nat
          /\ DOMAIN messages' = 1 .. Len(messages) + 1
      BY <2>1, <2>2, Messaged DEF IInv, Types
    <2>4. CloseQueued'
      BY <2>3 DEF CloseQueued
    <2> QED
      BY <2>4 DEF CloseAhead
  <1>6. ASSUME Close \/ Destroy \/ Destroyed PROVE CloseAhead'
    BY <1>2, <1>3, <1>6
       DEF Close, CloseCamera, Destroy, Destroyed, UiIdle, monitorVars
  <1>7. ASSUME NEW d \in Devices, DestroyBlock(d) PROVE CloseAhead'
    BY <1>4, <1>7 DEF DestroyBlock
  <1>8. ASSUME NEW d \in Devices, Detached(d) PROVE CloseAhead'
    <2>1. ui = "idle"
      BY <1>8 DEF Detached, Takes, UiIdle
    <2>2. CASE mPermissionIntent /\ mCtrlBlocks[d] # None
      BY <1>4, <1>8, <2>1, <2>2 DEF Detached
    <2>3. CASE ~(mPermissionIntent /\ mCtrlBlocks[d] # None)
      BY <1>3, <1>8, <2>1, <2>3 DEF Detached, uiVars
    <2> QED
      BY <2>2, <2>3
  <1>9. ASSUME NEW d \in Devices, Connect(d) PROVE CloseAhead'
    <2>1. ui = "idle" /\ GetBlock(d)
      BY <1>9 DEF Connect, Takes, UiIdle
    <2>2. mConnection \subseteq mConnection'
      BY <2>1, BlockGot
    <2> QED
      BY <1>3, <2>1, <2>2
  <1>10. ASSUME NEW d \in Devices, Unplug(d) \/ Answer(d) \/ Open(d) \/ PermissionGranted(d)
         PROVE  CloseAhead'
    BY <1>3, <1>10 DEF Unplug, Answer, Open, PermissionGranted, monitorVars, uiVars
  <1> QED
    BY <1>5, <1>6, <1>7, <1>8, <1>9, <1>10 DEF Ui

\* CameraThread connects a camera only over an open connection, and a close leaves none.
LEMMA CloseAheadKeptByThread ==
    ASSUME IInv, CloseAhead, Thread
    PROVE  CloseAhead'
  <1>1. UNCHANGED <<mConnection, patient>>
    BY ThreadLeavesAlone DEF monitorVars, appVars
  <1>2. /\ camera \in [Cameras -> CameraStates] /\ block \in [Cameras -> {None} \cup Blocks]
        /\ MessageTypes
    BY DEF IInv, Types, ThreadTypes
  <1>3. \A c \in Cameras : Replaced(c) => Replaced(c)'
    <2>1. Used \subseteq Used'
      BY CameraMade, CamerasChanged DEF IInv, Types, Thread
    <2>2. \A x \in Cameras : camera[x] # "none" => camera'[x] # "none"
      BY <2>1 DEF Used
    <2> QED
      BY <1>1, <2>2, ReplacedStays DEF IInv, Types
  <1>4. ASSUME ui \in {"waiting", "woken"} => ui' \in {"waiting", "woken"},
               CloseQueued => CloseQueued',
               \A c \in Cameras : Live(c)' /\ block'[c] \notin mConnection =>
                  Live(c) /\ block[c] \notin mConnection
        PROVE  CloseAhead'
    BY <1>1, <1>3, <1>4 DEF CloseAhead
  <1>5. ASSUME HandleOpen PROVE CloseAhead'
    <2> DEFINE n == Cardinality({x \in Cameras : camera[x] # "none"}) + 1
    <2>1. /\ Handles("open") /\ ui' = ui
          /\ camera' = [camera EXCEPT ![n] = "created"]
          /\ block' = [block EXCEPT ![n] = Head(messages)[2]]
      BY <1>5 DEF HandleOpen, uiVars
    <2> HIDE DEF n
    <2>2. CloseQueued => CloseQueued'
      BY <1>2, <2>1, CloseStaysQueued
    <2>3. ASSUME NEW c \in Cameras, Live(c)'
          PROVE  Live(c) /\ block'[c] = block[c]
      BY <1>2, <2>1, <2>3 DEF Live
    <2> QED
      BY <1>4, <2>1, <2>2, <2>3
  <1>6. ASSUME GetFileDescriptor PROVE CloseAhead'
    BY <1>4, <1>6 DEF GetFileDescriptor, uiVars, CloseQueued, Live
  <1>7. ASSUME NativeConnect PROVE CloseAhead'
    <2>1. /\ UNCHANGED <<ui, messages, block>>
          /\ \/ /\ block[mUVCCamera] \in mConnection
                /\ camera' = [camera EXCEPT ![mUVCCamera] = "connected"]
             \/ UNCHANGED camera
      BY <1>7 DEF NativeConnect, uiVars
    <2>2. ASSUME NEW c \in Cameras, Live(c)', block'[c] \notin mConnection
          PROVE  Live(c) /\ block[c] \notin mConnection
      BY <1>2, <2>1, <2>2 DEF Live
    <2> QED
      BY <1>4, <2>1, <2>2 DEF CloseQueued
  <1>8. ASSUME HandleClose PROVE CloseAhead'
    <2>1. \A c \in Cameras :
             camera'[c] = IF c = mUVCCamera THEN "destroyed" ELSE camera[c]
      BY <1>8 DEF HandleClose, DestroyCamera
    <2>2. ASSUME NEW c \in Cameras, Live(c)' PROVE Replaced(c)'
      BY <1>3, <2>1, <2>2 DEF IInv, NoneLeaked, Live
    <2> QED
      BY <2>2 DEF CloseAhead
  <1>9. ASSUME HandleStartPreview PROVE CloseAhead'
    <2>1. Handles("start") /\ UNCHANGED <<ui, block>>
      BY <1>9 DEF HandleStartPreview, uiVars
    <2>2. CloseQueued => CloseQueued'
      BY <1>2, <2>1, CloseStaysQueued
    <2>3. ASSUME NEW c \in Cameras, Live(c)'
          PROVE  Live(c)
      <3>1. CASE UNCHANGED camera
        BY <2>3, <3>1 DEF Live
      <3>2. CASE Live(mUVCCamera) /\ camera' = [camera EXCEPT ![mUVCCamera] = "previewing"]
        BY <1>2, <2>3, <3>2 DEF Live
      <3>3. CASE GiveUp
        BY <2>3, <3>3 DEF GiveUp, DestroyCamera, Live
      <3> QED
        BY <1>9, <3>1, <3>2, <3>3 DEF HandleStartPreview
    <2> QED
      BY <1>4, <2>1, <2>2, <2>3
  <1>10. ASSUME HandleStopPreview PROVE CloseAhead'
    <2>1. /\ Handles("stop") /\ UNCHANGED block
          /\ ui' = IF ui = "waiting" THEN "woken" ELSE ui
          /\ camera' = [c \in Cameras |->
                IF c = mUVCCamera /\ camera[c] = "previewing" THEN "connected" ELSE camera[c]]
      BY <1>10 DEF HandleStopPreview, StopCamera, NotifyAll
    <2>2. CloseQueued => CloseQueued'
      BY <1>2, <2>1, CloseStaysQueued
    <2>3. \A c \in Cameras : Live(c)' => Live(c)
      BY <2>1 DEF Live
    <2> QED
      BY <1>4, <2>1, <2>2, <2>3
  <1> QED
    BY <1>5, <1>6, <1>7, <1>8, <1>9, <1>10 DEF Thread

\* What is still posted when destroy() has returned makes no connection that lasts.
LEMMA NoneConnectedKept ==
    ASSUME IInv, NoneConnected, [Next]_vars
    PROVE  NoneConnected'
  <1>1. ASSUME UNCHANGED <<mHandler, crashed>>, mConnection' \subseteq mConnection
        PROVE  NoneConnected'
    BY <1>1 DEF NoneConnected
  <1>2. ASSUME NEW b, NEW next, CloseBlock(b, next)
        PROVE  mConnection' \subseteq mConnection
    BY <1>2, BlockClosed
  <1>3. ASSUME Destroyed PROVE NoneConnected'
    <2>1. mConnection = {}
      <3>1. \A d \in Devices : mCtrlBlocks[d] = None
        BY <1>3 DEF Destroyed
      <3>2. \A b \in mConnection : device[b] \in Devices /\ b # None
        BY DEF IInv, Types, BlockTypes, None
      <3> QED
        BY <3>1, <3>2 DEF IInv, EachConnectionFiled
    <2> QED
      BY <1>3, <2>1 DEF Destroyed, monitorVars, NoneConnected
  <1>4. ASSUME NEW d \in Devices, Connect(d) PROVE NoneConnected'
    <2>1. mHandler \/ crashed' = TRUE
      BY <1>4 DEF Connect
    <2> QED
      BY <1>4, <2>1 DEF Connect, NoneConnected
  <1>5. ASSUME NEW d \in Devices, DestroyBlock(d) PROVE NoneConnected'
    BY <1>1, <1>2, <1>5 DEF DestroyBlock, appVars
  <1>6. ASSUME NEW d \in Devices, Detached(d) PROVE NoneConnected'
    BY <1>1, <1>2, <1>6 DEF Detached, appVars
  <1>7. ASSUME NEW d \in Devices, Unplug(d) \/ Answer(d) \/ Open(d) \/ PermissionGranted(d)
        PROVE  NoneConnected'
    BY <1>1, <1>7 DEF Unplug, Answer, Open, PermissionGranted, monitorVars, appVars
  <1>8. ASSUME Close \/ CameraClosed \/ Destroy PROVE NoneConnected'
    BY <1>1, <1>8 DEF Close, CameraClosed, Destroy, monitorVars, appVars
  <1>9. ASSUME Thread PROVE NoneConnected'
    BY <1>1, <1>9, ThreadLeavesAlone DEF monitorVars, appVars
  <1>10. ASSUME UNCHANGED vars PROVE NoneConnected'
    BY <1>1, <1>10 DEF vars, monitorVars, appVars
  <1> QED
    BY <1>3, <1>4, <1>5, <1>6, <1>7, <1>8, <1>9, <1>10 DEF Next, Ui

\* Whoever closes the connection of a camera, the camera is closed by a message that is queued
\* or about to be, unless handleOpen has replaced it; and after destroy() no connection is open.
THEOREM CameraEndsWithConnection ==
    Spec => []NoneOutlivesConnection
  <1>1. Init => CloseAhead /\ NoneConnected
    BY DEF Init, CloseAhead, Live, NoneConnected
  <1>2. IInv /\ CloseAhead /\ NoneConnected /\ [Next]_vars => CloseAhead' /\ NoneConnected'
    <2> SUFFICES ASSUME IInv, CloseAhead, NoneConnected, [Next]_vars
                 PROVE  CloseAhead' /\ NoneConnected'
      OBVIOUS
    <2>1. CASE UNCHANGED vars
      BY <2>1 DEF vars, monitorVars, appVars, uiVars, cameraVars, CloseAhead, CloseQueued, Live,
         NoneConnected, Replaced
    <2>2. CASE Next
      BY <2>2, CloseAheadKeptByUi, CloseAheadKeptByThread, NoneConnectedKept DEF Next
    <2> QED
      BY <2>1, <2>2
  <1>3. CloseAhead /\ NoneConnected => NoneOutlivesConnection
    <2>1. CloseQueued => <<"close", None>> \in Elements(messages)
      BY DEF CloseQueued, Elements
    <2> QED
      BY <2>1 DEF CloseAhead, NoneConnected, NoneOutlivesConnection
  <1> QED
    BY <1>1, <1>2, <1>3, InvariantHolds, PTL DEF Spec

-------------------------------------------------------------------------------
(* The stop that is waited for *)

\* While stopPreview waits, the message that will wake it is in the queue, as the last one.
StopQueued ==
    ui = "waiting" => messages # <<>> /\ messages[Len(messages)] = <<"stop", None>>

\* While stopPreview waits, the queue does not grow, and it does not return early.
QueueDrains ==
    ui = "waiting" =>
        \/ ui' = "waiting" /\ messages' \in {messages, Tail(messages)}
        \/ ui' = "woken" /\ messages' = <<>>

\* stopPreview sends its message when it begins to wait
LEMMA StopQueuedByUi ==
    ASSUME IInv, StopQueued,
           \/ Ui \/ Close \/ Destroy
           \/ \E d \in Devices : Unplug(d) \/ Answer(d) \/ Open(d)
    PROVE  StopQueued'
  <1>1. ASSUME messages' = Append(messages, <<"stop", None>>)
        PROVE  StopQueued'
    <2>1. "stop" \in MessageKinds /\ None \in Nat
      BY DEF MessageKinds, None
    <2>2. /\ messages'[Len(messages) + 1] = <<"stop", None>> /\ Len(messages) \in Nat
          /\ Len(messages') = Len(messages) + 1
      BY <1>1, <2>1, Messaged DEF IInv, Types
    <2> QED
      BY <2>2 DEF StopQueued
  <1>2. ASSUME ui' # "waiting" \/ UNCHANGED <<ui, messages>>
        PROVE  StopQueued'
    BY <1>2 DEF StopQueued
  <1>3. ASSUME NEW b, NEW next \in {"idle", "destroying"}, CloseBlock(b, next)
        PROVE  StopQueued'
    BY <1>1, <1>2, <1>3 DEF CloseBlock, CloseCamera
  <1>4. ASSUME Close PROVE StopQueued'
    BY <1>1, <1>4 DEF Close, CloseCamera
  <1>5. ASSUME CameraClosed PROVE StopQueued'
    BY <1>2, <1>5 DEF CameraClosed, IInv, Types, UiTypes
  <1>6. ASSUME Destroy \/ Destroyed PROVE StopQueued'
    BY <1>2, <1>6 DEF Destroy, Destroyed
  <1>7. ASSUME NEW d \in Devices, DestroyBlock(d) PROVE StopQueued'
    BY <1>3, <1>7 DEF DestroyBlock
  <1>8. ASSUME NEW d \in Devices, Detached(d) PROVE StopQueued'
    BY <1>2, <1>3, <1>8 DEF Detached, uiVars
  <1>9. ASSUME NEW d \in Devices, Connect(d) PROVE StopQueued'
    BY <1>2, <1>9 DEF Connect, Takes, UiIdle, uiVars
  <1>10. ASSUME NEW d \in Devices, Unplug(d) \/ Answer(d) \/ Open(d) \/ PermissionGranted(d)
         PROVE  StopQueued'
    BY <1>2, <1>10 DEF Unplug, Answer, Open, PermissionGranted, uiVars
  <1> QED
    BY <1>4, <1>5, <1>6, <1>7, <1>8, <1>9, <1>10 DEF Ui

\* CameraThread takes one message after the other, and that one with a notifyAll
LEMMA StopQueuedByThread ==
    ASSUME IInv, StopQueued, Thread
    PROVE  StopQueued' /\ QueueDrains
  <1>1. ASSUME NEW k \in MessageKinds, Handles(k)
        PROVE  /\ messages' = Tail(messages) /\ messages[1][1] = k
               /\ Len(messages) \in Nat \ {0} /\ Len(messages') = Len(messages) - 1
               /\ \A i \in 1 .. Len(messages) - 1 : messages'[i] = messages[i + 1]
               /\ messages' = <<>> <=> Len(messages) = 1
    <2>1. messages' = Tail(messages)
      BY <1>1 DEF Handles
    <2>2. /\ messages' \in Seq(MessageKinds \X Nat) /\ Len(messages) \in Nat
          /\ Len(messages) >= 1 /\ Len(messages') = Len(messages) - 1 /\ messages[1][1] = k
          /\ \A i \in 1 .. Len(messages) - 1 : messages'[i] = messages[i + 1]
      BY <1>1, TakenFromMessages DEF IInv, Types
    <2>3. messages' = <<>> <=> Len(messages') = 0
      BY <2>2, EmptySeq
    <2>4. Len(messages) \in Nat \ {0} /\ (Len(messages') = 0 <=> Len(messages) = 1)
      BY <2>2
    <2> QED
      BY <2>1, <2>2, <2>3, <2>4, Zenon
  <1>2. ASSUME NEW k \in MessageKinds \ {"stop"}, Handles(k), ui' = ui
        PROVE  StopQueued' /\ QueueDrains
    BY <1>1, <1>2 DEF StopQueued, QueueDrains
  <1>3. CASE HandleStopPreview
    <2>1. /\ Handles("stop") /\ "stop" \in MessageKinds
          /\ ui' = IF ui = "waiting" THEN "woken" ELSE ui
      BY <1>3 DEF HandleStopPreview, NotifyAll, MessageKinds
    <2>2. ui = "waiting" /\ Len(messages) = 1
      BY <1>1, <2>1 DEF IInv, Queued
    <2> QED
      BY <1>1, <2>1, <2>2 DEF StopQueued, QueueDrains
  <1>4. CASE GetFileDescriptor \/ NativeConnect
    BY <1>4 DEF GetFileDescriptor, NativeConnect, uiVars, StopQueued, QueueDrains
  <1> QED
    BY <1>2, <1>3, <1>4
    DEF Thread, HandleOpen, HandleClose, HandleStartPreview, uiVars, MessageKinds

\* A stopPreview that waits (CameraHandler.java 122-137) is not forgotten: its message is in
\* the queue, behind it there is none, nobody sends another while it waits, and it does not
\* return before that message has been handled.  What can keep it waiting is only that
\* CameraThread does not come to it.
THEOREM StopIsOnItsWay ==
    Spec => []StopQueued /\ [][QueueDrains]_vars
  <1>1. Init => StopQueued
    BY DEF Init, StopQueued
  <1>2. IInv /\ StopQueued /\ [Next]_vars => StopQueued' /\ [QueueDrains]_vars
    <2> SUFFICES ASSUME IInv, StopQueued, [Next]_vars
                 PROVE  StopQueued' /\ [QueueDrains]_vars
      OBVIOUS
    <2>1. CASE UNCHANGED vars
      BY <2>1 DEF vars, uiVars, StopQueued
    <2>2. CASE Thread
      BY <2>2, StopQueuedByThread
    <2>3. ASSUME \/ Ui \/ Close \/ Destroy
                 \/ \E d \in Devices : Unplug(d) \/ Answer(d) \/ Open(d)
          PROVE  StopQueued' /\ QueueDrains
      <3>1. StopQueued'
        BY <2>3, StopQueuedByUi
      <3>2. ui # "waiting" \/ UNCHANGED <<ui, messages>>
        BY <2>3
        DEF Ui, Close, Destroy, CameraClosed, Destroyed, DestroyBlock, PermissionGranted,
            Detached, Connect, Takes, UiIdle, Unplug, Answer, Open, uiVars
      <3> QED
        BY <3>1, <3>2 DEF QueueDrains
    <2> QED
      BY <2>1, <2>2, <2>3 DEF Next
  <1> QED
    BY <1>1, <1>2, InvariantHolds, PTL DEF Spec

===============================================================================
