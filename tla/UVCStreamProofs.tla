--------------------------- MODULE UVCStreamProofs ---------------------------
(***************************************************************************)
(* Proofs about UVCStream for any number of transfers, of packets in a frame, *)
(* of frames and of streams, and for sequence numbers of any width.          *)
(***************************************************************************)
EXTENDS UVCStream, SequenceTheorems, TLAPS

\* A stream whose transfers could not all be submitted is freed in use ("@todo
\* clean up"): what another stream after it would meet is not modelled.
Reliable == ~SubmitFails \/ MaxStarts <= 1

ThreadNames  == {"owner", "event", "caller"}
OwnerPlaces  == {"idle", "submit", "streaming", "close", "stop", "cancel", "wait",
                 "join", "free"}
EventPlaces  == {"idle", "append", "resubmit", "submit", "delete"}
CallerPlaces == {"none", "check", "test", "callback", "exited"}

-------------------------------------------------------------------------------
(* The inductive invariant *)

PcTypes ==
    /\ pc \in [ThreadNames -> OwnerPlaces \cup EventPlaces \cup CallerPlaces]
    /\ pc["owner"] \in OwnerPlaces
    /\ pc["event"] \in EventPlaces
    /\ pc["caller"] \in CallerPlaces

TransferStates == {"null", "new", "inflight", "cancelled", "callback", "dead"}
HoldTypes  == [packets : Seq(Packets), number : Nat, seq : 0 .. SeqSize - 1, err : BOOLEAN]
FrameTypes == [packets : Seq(Packets), number : Nat]

DataTypes ==
    /\ open \in BOOLEAN /\ running \in BOOLEAN /\ plugged \in BOOLEAN
    /\ bfh_err \in BOOLEAN
    /\ transfers \in [Transfers -> TransferStates]
    /\ current \in Transfers
    /\ packet \in Packets /\ camera \in Packets
    /\ outbuf \in Seq(Packets)
    /\ hold \in HoldTypes /\ frame \in FrameTypes
    /\ fid \in 0..1 /\ seq \in 0 .. SeqSize - 1 /\ last_seq \in 0 .. SeqSize - 1
    /\ published \in Nat /\ given \in Nat
    /\ cb_cond \subseteq {"owner", "caller"}
    /\ starts \in 0..MaxStarts

\* Nothing of a stream is about.
Still == /\ \A t \in Transfers : transfers[t] = "null"
         /\ pc["event"] = "idle" /\ pc["caller"] = "none"

\* The life of a stream: who is in the middle of what, and, as long as no cable is
\* pulled and no submission fails, what the owner can rely on at each point.
Life ==
    /\ open <=> pc["owner"] # "idle"
    /\ starts = 0 => Still
    /\ \A t \in Transfers :
          transfers[t] = "callback" <=> t = current /\ pc["event"] # "idle"
    /\ plugged \/ Unplugs
    /\ plugged /\ ~SubmitFails =>
          /\ pc["owner"] \in {"submit", "streaming", "close", "stop"} => running
          /\ pc["owner"] \in {"join", "free", "idle"} =>
                \A t \in Transfers : transfers[t] = "null"
          /\ pc["owner"] \in {"free", "idle"} => pc["caller"] = "none"

\* The order in which the camera sends packets.
Before(p, q) == p[1] < q[1] \/ (p[1] = q[1] /\ p[2] < q[2])

\* The packet that is gathered next, should none be lost.
NextIn == IF pc["event"] = "append" THEN packet ELSE camera

\* The frames are counted by the camera, so that no more are published than it
\* has begun; what is held is older than what is gathered, and that is older
\* than what comes.
Order ==
    /\ pc["event"] = "append" =>
          /\ packet[1] <= MaxFrames
          /\ camera = IF packet[2] < Parts THEN <<packet[1], packet[2] + 1>>
                      ELSE <<packet[1] + 1, 1>>
          /\ fid = packet[1] % 2
    /\ \A i \in DOMAIN outbuf : Before(outbuf[i], NextIn) /\ outbuf[i][1] <= MaxFrames
    /\ \A j \in DOMAIN hold.packets : Before(hold.packets[j], NextIn)
    /\ \A i \in DOMAIN outbuf : \A j \in DOMAIN hold.packets :
          Before(hold.packets[j], outbuf[i])
    /\ published <= MaxFrames /\ published < NextIn[1]
    /\ outbuf # <<>> => /\ published < outbuf[Len(outbuf)][1]
                        /\ fid = outbuf[Len(outbuf)][1] % 2

\* A frame is held, then taken, then given.  Two that bear the same number are
\* the same frame, and the caller can tell.
Numbers ==
    /\ hold.number = published
    /\ given <= frame.number /\ frame.number <= published
    /\ frame.number = published => last_seq = hold.seq

IInv == PcTypes /\ DataTypes /\ Life /\ Order /\ Numbers

\* The rest of a frame, up to its last packet.
Whole(packets) ==
    \E n \in 1..MaxFrames, first \in 1..Parts :
        packets = [p \in 1 .. Parts - first + 1 |-> <<n, first + p - 1>>]

\* Packets of one frame, without a gap, up to the one before q.
UpTo(packets, q) ==
    \E first \in 1 .. q[2] - 1 :
        packets = [p \in 1 .. q[2] - first |-> <<q[1], first + p - 1>>]

\* What is gathered without a mark of damage is the beginning of what comes next.
Damage ==
    /\ ~bfh_err /\ outbuf # <<>> => UpTo(outbuf, NextIn)
    /\ ~hold.err /\ hold.packets # <<>> => Whole(hold.packets)
    /\ frame.packets # <<>> => Whole(frame.packets)

\* No damage is ever noted, and a frame that has been taken is a new one.
Undamaged ==
    /\ ~bfh_err /\ ~hold.err
    /\ pc["caller"] = "test" => given < frame.number
-------------------------------------------------------------------------------
(* Facts about numbers, packets and sequences *)

\* what % returns, at any width
LEMMA ModBound ==
    ASSUME NEW a \in Int, NEW b \in Nat \ {0}
    PROVE  a % b \in 0 .. b - 1
  OBVIOUS

\* the packet after p is a packet, and later than whatever is not later than p
LEMMA NextIsLater ==
    ASSUME NEW p \in Packets, NEW q,
           q = IF p[2] < Parts THEN <<p[1], p[2] + 1>> ELSE <<p[1] + 1, 1>>
    PROVE  /\ q \in Packets
           /\ p[1] <= q[1] /\ Before(p, q)
           /\ \A r \in Packets : Before(r, p) => Before(r, q)
  BY StreamAssumption DEF Packets, Before

\* what Append adds
LEMMA Appended ==
    ASSUME NEW s \in Seq(Packets), NEW p \in Packets
    PROVE  /\ Append(s, p) \in Seq(Packets)
           /\ Append(s, p) # <<>>
           /\ Append(s, p)[Len(Append(s, p))] = p
           /\ \A i \in DOMAIN Append(s, p) :
                 Append(s, p)[i] = p \/ (i \in DOMAIN s /\ Append(s, p)[i] = s[i])
  <1>1. /\ Append(s, p) \in Seq(Packets)
        /\ Len(Append(s, p)) = Len(s) + 1
        /\ \A i \in 1 .. Len(s) : Append(s, p)[i] = s[i]
        /\ Append(s, p)[Len(s) + 1] = p
    BY AppendProperties
  <1>2. Len(s) \in Nat /\ DOMAIN s = 1 .. Len(s)
        /\ DOMAIN Append(s, p) = 1 .. Len(s) + 1
    BY <1>1, LenProperties
  <1>3. Append(s, p) # <<>>
    BY <1>1, <1>2, EmptySeq
  <1> QED
    BY <1>1, <1>2, <1>3

\* the elements of a sequence
LEMMA Elements ==
    ASSUME NEW S, NEW s \in Seq(S)
    PROVE  /\ \A i \in DOMAIN s : s[i] \in S
           /\ s # <<>> => s[Len(s)] \in S /\ Len(s) \in DOMAIN s
  BY LenProperties, EmptySeq

\* one packet more of the same frame
LEMMA RunGrows ==
    ASSUME NEW k \in Nat, NEW n, NEW first \in Nat, NEW p, p = <<n, first + k>>
    PROVE  Append([i \in 1 .. k |-> <<n, first + i - 1>>], p)
              = [i \in 1 .. k + 1 |-> <<n, first + i - 1>>]
  OBVIOUS

\* the packets gathered so far, and the one that comes next, are gathered next
LEMMA GathersOn ==
    ASSUME NEW s \in Seq(Packets), NEW p \in Packets, s # <<>> => UpTo(s, p)
    PROVE  \E first \in 1 .. p[2] :
              Append(s, p) = [k \in 1 .. p[2] - first + 1 |-> <<p[1], first + k - 1>>]
  <1>1. p[1] \in Nat /\ p[2] \in Nat /\ p[2] >= 1
    BY StreamAssumption DEF Packets
  <1>2. p = <<p[1], p[2]>>
    BY DEF Packets
  <1>3. CASE s = <<>>
    <2>1. Append(s, p) = [k \in 1 .. p[2] - p[2] + 1 |-> <<p[1], p[2] + k - 1>>]
      BY <1>1, <1>2, <1>3
    <2>2. p[2] \in 1 .. p[2]
      BY <1>1
    <2> QED
      BY <2>1, <2>2, Zenon
  <1>4. CASE s # <<>>
    <2>1. PICK first \in 1 .. p[2] - 1 :
             s = [k \in 1 .. p[2] - first |-> <<p[1], first + k - 1>>]
      BY <1>4 DEF UpTo
    <2>2. PICK n \in Nat, m \in Nat : n = p[1] /\ m = p[2] - first
      BY <1>1, <2>1
    <2>3. first \in Nat /\ first + m = p[2]
      BY <1>1, <2>1, <2>2
    <2>4. p = <<n, first + m>>
      BY <1>2, <2>2, <2>3
    <2>5. Append([i \in 1 .. m |-> <<n, first + i - 1>>], p)
             = [i \in 1 .. m + 1 |-> <<n, first + i - 1>>]
      BY <2>3, <2>4, RunGrows
    <2>6. Append(s, p) = [k \in 1 .. p[2] - first + 1 |-> <<p[1], first + k - 1>>]
      BY <2>1, <2>2, <2>5
    <2> QED
      BY <1>1, <2>1, <2>6
  <1> QED
    BY <1>3, <1>4

-------------------------------------------------------------------------------
(* The operations the steps are made of *)

\* a swap: what is held, what is gathered, and that the buffers keep their types
LEMMA SwapHolds ==
    ASSUME DataTypes, NEW ps \in Seq(Packets), Swap(ps)
    PROVE  /\ hold' \in HoldTypes /\ hold'.packets = ps
           /\ hold'.number = published' /\ hold'.seq = seq /\ hold'.err = bfh_err
           /\ published' = published + 1 /\ published' \in Nat
           /\ outbuf' = <<>> /\ outbuf' \in Seq(Packets)
           /\ bfh_err' = FALSE /\ seq' \in 0 .. SeqSize - 1
           /\ cb_cond' = {}
  <1>1. seq' \in 0 .. SeqSize - 1
    BY ModBound, StreamAssumption DEF Swap, DataTypes
  <1>2. hold' \in HoldTypes
    BY DEF Swap, DataTypes, HoldTypes
  <1> QED
    BY <1>1, <1>2 DEF Swap, Broadcast, DataTypes

-------------------------------------------------------------------------------
(* Types *)

\* zero is in the ranges that start there
LEMMA Zeros == 0 \in 0 .. SeqSize - 1 /\ 0 \in 0 .. MaxStarts /\ 0 \in 0..1
  BY StreamAssumption

\* what a new stream holds
LEMMA NewHold ==
    ASSUME NEW n \in Nat, NEW h, h = [NoHold EXCEPT !.number = n]
    PROVE  /\ h \in HoldTypes
           /\ h.packets = <<>> /\ h.number = n /\ h.seq = 0 /\ h.err = FALSE
  <1>1. <<>> \in Seq(Packets)
    OBVIOUS
  <1>2. /\ NoHold \in HoldTypes /\ NoHold.packets = <<>> /\ NoHold.seq = 0
        /\ NoHold.err = FALSE
    BY <1>1, Zeros DEF NoHold, HoldTypes
  <1> QED
    BY <1>2 DEF HoldTypes

\* what the caller of a new stream has taken
LEMMA NewFrame ==
    ASSUME NEW n \in Nat, NEW f, f = [NoFrame EXCEPT !.number = n]
    PROVE  f \in FrameTypes /\ f.packets = <<>> /\ f.number = n
  <1>1. <<>> \in Seq(Packets)
    OBVIOUS
  <1>2. NoFrame \in FrameTypes /\ NoFrame.packets = <<>>
    BY <1>1 DEF NoFrame, FrameTypes
  <1> QED
    BY <1>2 DEF FrameTypes

\* the camera's next packet
LEMMA CameraMoves ==
    ASSUME DataTypes, NextPacket
    PROVE  /\ camera' \in Packets /\ camera[1] <= camera'[1]
           /\ Before(camera, camera')
           /\ \A r \in Packets : Before(r, camera) => Before(r, camera')
  BY NextIsLater DEF NextPacket, DataTypes

\* the initial state has its types
LEMMA InitTypes == Init => PcTypes /\ DataTypes
  <1> SUFFICES ASSUME Init PROVE PcTypes /\ DataTypes
    OBVIOUS
  <1>1. PcTypes
    BY DEF Init, PcTypes, ThreadNames, OwnerPlaces, EventPlaces, CallerPlaces
  <1>2. hold \in HoldTypes /\ frame \in FrameTypes /\ outbuf \in Seq(Packets)
    BY StreamAssumption DEF Init, HoldTypes, FrameTypes, NoHold, NoFrame
  <1>3. packet \in Packets /\ camera \in Packets
    BY StreamAssumption DEF Init, Packets
  <1>4. current \in Transfers
    BY StreamAssumption DEF Init
  <1>5. transfers \in [Transfers -> TransferStates]
    BY DEF Init, TransferStates
  <1>6. open \in BOOLEAN /\ running \in BOOLEAN /\ plugged \in BOOLEAN
        /\ bfh_err \in BOOLEAN
    BY DEF Init
  <1>7. /\ fid \in 0..1 /\ seq \in 0 .. SeqSize - 1 /\ last_seq \in 0 .. SeqSize - 1
        /\ published \in Nat /\ given \in Nat
        /\ cb_cond \subseteq {"owner", "caller"} /\ starts \in 0..MaxStarts
    BY Zeros DEF Init
  <1> QED
    BY <1>1, <1>2, <1>3, <1>4, <1>5, <1>6, <1>7 DEF DataTypes

\* the event thread keeps the types
LEMMA EventTypes ==
    ASSUME PcTypes, DataTypes, Event
    PROVE  PcTypes' /\ DataTypes'
  <1>1. ASSUME NEW t \in Transfers, ReceivePacket(t) PROVE PcTypes' /\ DataTypes'
    <2>1. PcTypes'
      BY <1>1
      DEF ReceivePacket, Returned, PcTypes, ThreadNames, OwnerPlaces, EventPlaces,
          CallerPlaces
    <2>2. transfers' \in [Transfers -> TransferStates] /\ current' \in Transfers
      BY <1>1 DEF ReceivePacket, Returned, DataTypes, TransferStates
    <2>3. packet' \in Packets /\ camera' \in Packets /\ fid' \in 0..1
      <3>0. camera[1] \in Nat
        BY DEF DataTypes, Packets
      <3>1. camera[1] % 2 \in 0..1
        BY <3>0
      <3> QED
        BY <1>1, <3>1, CameraMoves DEF ReceivePacket, DataTypes
    <2>4. /\ hold' \in HoldTypes /\ published' \in Nat /\ outbuf' \in Seq(Packets)
          /\ bfh_err' \in BOOLEAN /\ seq' \in 0 .. SeqSize - 1
          /\ cb_cond' \subseteq {"owner", "caller"}
      <3>1. CASE Swap(outbuf)
        BY <3>1, SwapHolds DEF DataTypes
      <3>2. CASE UNCHANGED <<outbuf, bfh_err, seq, holdVars, cb_cond>>
        BY <3>2 DEF DataTypes, holdVars
      <3> QED
        BY <1>1, <3>1, <3>2 DEF ReceivePacket
    <2>5. DataTypes'
      BY <1>1, <2>2, <2>3, <2>4 DEF ReceivePacket, DataTypes, eventFrame, callerVars
    <2> QED
      BY <2>1, <2>5
  <1>2. ASSUME NEW t \in Transfers, SkipPacket(t) PROVE PcTypes' /\ DataTypes'
    <2>1. PcTypes'
      BY <1>2
      DEF SkipPacket, Returned, PcTypes, ThreadNames, OwnerPlaces, EventPlaces,
          CallerPlaces
    <2>2. transfers' \in [Transfers -> TransferStates] /\ current' \in Transfers
      BY <1>2 DEF SkipPacket, Returned, DataTypes, TransferStates
    <2>3. camera' \in Packets /\ bfh_err' \in BOOLEAN
      BY <1>2, CameraMoves DEF SkipPacket, MarkError, DataTypes
    <2>4. DataTypes'
      BY <1>2, <2>2, <2>3
      DEF SkipPacket, DataTypes, eventFrame, callerVars, holdVars
    <2> QED
      BY <2>1, <2>4
  <1>3. ASSUME NEW t \in Transfers, EmptyTransfer(t) PROVE PcTypes' /\ DataTypes'
    <2>1. PcTypes'
      BY <1>3
      DEF EmptyTransfer, Returned, PcTypes, ThreadNames, OwnerPlaces, EventPlaces,
          CallerPlaces
    <2>2. DataTypes'
      BY <1>3
      DEF EmptyTransfer, Returned, eventFrame, bufVars, holdVars, callerVars,
          DataTypes, TransferStates
    <2> QED
      BY <2>1, <2>2
  <1>4. ASSUME NEW t \in Transfers, EndTransfer(t) PROVE PcTypes' /\ DataTypes'
    <2>1. PcTypes'
      BY <1>4
      DEF EndTransfer, Returned, PcTypes, ThreadNames, OwnerPlaces, EventPlaces,
          CallerPlaces
    <2>2. DataTypes'
      BY <1>4
      DEF EndTransfer, Returned, eventFrame, bufVars, holdVars, callerVars,
          DataTypes, TransferStates
    <2> QED
      BY <2>1, <2>2
  <1>5. ASSUME NEW t \in Transfers, LoseDevice(t) PROVE PcTypes' /\ DataTypes'
    <2>1. PcTypes'
      BY <1>5
      DEF LoseDevice, Returned, PcTypes, ThreadNames, OwnerPlaces, EventPlaces,
          CallerPlaces
    <2>2. DataTypes'
      BY <1>5
      DEF LoseDevice, Returned, eventFrame, bufVars, holdVars, callerVars,
          DataTypes, TransferStates
    <2> QED
      BY <2>1, <2>2
  <1>6. ASSUME AppendPacket PROVE PcTypes' /\ DataTypes'
    <2>1. PcTypes'
      BY <1>6
      DEF AppendPacket, Goto, PcTypes, ThreadNames, OwnerPlaces, EventPlaces,
          CallerPlaces
    <2>2. /\ hold' \in HoldTypes /\ published' \in Nat /\ outbuf' \in Seq(Packets)
          /\ bfh_err' \in BOOLEAN /\ seq' \in 0 .. SeqSize - 1
          /\ cb_cond' \subseteq {"owner", "caller"}
      <3>1. Append(outbuf, packet) \in Seq(Packets)
        BY Appended DEF DataTypes
      <3>2. CASE Swap(Append(outbuf, packet))
        BY <3>1, <3>2, SwapHolds DEF DataTypes
      <3>3. CASE /\ outbuf' = Append(outbuf, packet)
                 /\ UNCHANGED <<bfh_err, seq, holdVars, cb_cond>>
        BY <3>1, <3>3 DEF DataTypes, holdVars
      <3> QED
        BY <1>6, <3>2, <3>3 DEF AppendPacket
    <2>3. DataTypes'
      BY <1>6, <2>2 DEF AppendPacket, DataTypes, eventFrame, callerVars
    <2> QED
      BY <2>1, <2>3
  <1>7. ASSUME Resubmit PROVE PcTypes' /\ DataTypes'
    <2>1. PcTypes'
      BY <1>7
      DEF Resubmit, Goto, PcTypes, ThreadNames, OwnerPlaces, EventPlaces,
          CallerPlaces
    <2>2. DataTypes'
      BY <1>7 DEF Resubmit, Goto, eventFrame, bufVars, holdVars, callerVars, DataTypes
    <2> QED
      BY <2>1, <2>2
  <1>8. ASSUME Submit PROVE PcTypes' /\ DataTypes'
    <2>1. PcTypes'
      BY <1>8
      DEF Submit, Goto, PcTypes, ThreadNames, OwnerPlaces, EventPlaces, CallerPlaces
    <2>2. DataTypes'
      BY <1>8
      DEF Submit, Goto, eventFrame, bufVars, holdVars, callerVars, DataTypes,
          TransferStates
    <2> QED
      BY <2>1, <2>2
  <1>9. ASSUME DeleteTransfer PROVE PcTypes' /\ DataTypes'
    <2>1. PcTypes'
      BY <1>9
      DEF DeleteTransfer, Goto, PcTypes, ThreadNames, OwnerPlaces, EventPlaces,
          CallerPlaces
    <2>2. DataTypes'
      BY <1>9
      DEF DeleteTransfer, Goto, Broadcast, eventFrame, bufVars, holdVars,
          callerVars, DataTypes, TransferStates
    <2> QED
      BY <2>1, <2>2
  <1> QED
    BY <1>1, <1>2, <1>3, <1>4, <1>5, <1>6, <1>7, <1>8, <1>9 DEF Event

\* the caller keeps the types
LEMMA CallerTypes ==
    ASSUME PcTypes, DataTypes, Caller
    PROVE  PcTypes' /\ DataTypes'
  <1>1. ASSUME CheckFrame PROVE PcTypes' /\ DataTypes'
    <2>1. PcTypes'
      BY <1>1
      DEF CheckFrame, PcTypes, ThreadNames, OwnerPlaces, EventPlaces, CallerPlaces
    <2>2. /\ hold.seq \in 0 .. SeqSize - 1
          /\ [packets |-> hold.packets, number |-> hold.number] \in FrameTypes
      BY DEF DataTypes, HoldTypes, FrameTypes
    <2>3. /\ frame' \in FrameTypes /\ last_seq' \in 0 .. SeqSize - 1
          /\ cb_cond' \subseteq {"owner", "caller"}
      BY <1>1, <2>2 DEF CheckFrame, DataTypes
    <2>4. DataTypes'
      BY <1>1, <2>3
      DEF CheckFrame, DataTypes, callerFrame, bufVars, holdVars, cameraVars
    <2> QED
      BY <2>1, <2>4
  <1>2. ASSUME CallUser PROVE PcTypes' /\ DataTypes'
    <2>1. PcTypes'
      BY <1>2
      DEF CallUser, Goto, PcTypes, ThreadNames, OwnerPlaces, EventPlaces,
          CallerPlaces
    <2>2. given' \in Nat
      BY <1>2 DEF CallUser, DataTypes, FrameTypes
    <2>3. DataTypes'
      BY <1>2, <2>2
      DEF CallUser, DataTypes, callerFrame, bufVars, holdVars, cameraVars
    <2> QED
      BY <2>1, <2>3
  <1>3. ASSUME ReturnUser PROVE PcTypes' /\ DataTypes'
    <2>1. PcTypes'
      BY <1>3
      DEF ReturnUser, Goto, PcTypes, ThreadNames, OwnerPlaces, EventPlaces,
          CallerPlaces
    <2>2. DataTypes'
      BY <1>3
      DEF ReturnUser, Goto, callerFrame, bufVars, holdVars, callerVars, cameraVars,
          DataTypes
    <2> QED
      BY <2>1, <2>2
  <1> QED
    BY <1>1, <1>2, <1>3 DEF Caller

\* the owner keeps the types
LEMMA OwnerTypes ==
    ASSUME PcTypes, DataTypes, Owner
    PROVE  PcTypes' /\ DataTypes'
  <1>1. ASSUME StartStreaming PROVE PcTypes' /\ DataTypes'
    <2>1. PcTypes'
      BY <1>1
      DEF StartStreaming, PcTypes, ThreadNames, OwnerPlaces, EventPlaces,
          CallerPlaces
    <2>2. hold' \in HoldTypes /\ frame' \in FrameTypes
      BY <1>1, NewHold, NewFrame DEF StartStreaming, DataTypes
    <2>3. /\ transfers' \in [Transfers -> TransferStates] /\ outbuf' \in Seq(Packets)
          /\ open' \in BOOLEAN /\ running' \in BOOLEAN /\ bfh_err' \in BOOLEAN
      <3>1. outbuf' = <<>> /\ open' = TRUE /\ running' = TRUE /\ bfh_err' = FALSE
        BY <1>1 DEF StartStreaming
      <3>2. transfers' \in [Transfers -> TransferStates]
        BY <1>1 DEF StartStreaming, TransferStates
      <3>3. outbuf' \in Seq(Packets)
        BY <3>1
      <3> QED
        BY <3>1, <3>2, <3>3, Zenon
    <2>4. /\ fid' \in 0..1 /\ seq' \in 0 .. SeqSize - 1 /\ last_seq' \in 0 .. SeqSize - 1
          /\ cb_cond' \subseteq {"owner", "caller"}
      BY <1>1, Zeros DEF StartStreaming
    <2>5. starts' \in 0..MaxStarts
      BY <1>1, StreamAssumption DEF StartStreaming, DataTypes
    <2>6. DataTypes'
      BY <1>1, <2>2, <2>3, <2>4, <2>5 DEF StartStreaming, DataTypes, cameraVars
    <2> QED
      BY <2>1, <2>6
  <1>2. ASSUME SubmitTransfer PROVE PcTypes' /\ DataTypes'
    <2>1. PcTypes'
      BY <1>2
      DEF SubmitTransfer, PcTypes, ThreadNames, OwnerPlaces, EventPlaces,
          CallerPlaces
    <2>2. DataTypes'
      BY <1>2
      DEF SubmitTransfer, ownerFrame, holdVars, callerVars, cameraVars, DataTypes,
          TransferStates
    <2> QED
      BY <2>1, <2>2
  <1>3. ASSUME StopStreaming PROVE PcTypes' /\ DataTypes'
    <2>1. PcTypes'
      BY <1>3
      DEF StopStreaming, Goto, PcTypes, ThreadNames, OwnerPlaces, EventPlaces,
          CallerPlaces
    <2>2. DataTypes'
      BY <1>3
      DEF StopStreaming, Goto, ownerRest, ownerFrame, holdVars, callerVars,
          cameraVars, DataTypes
    <2> QED
      BY <2>1, <2>2
  <1>4. ASSUME CloseStream PROVE PcTypes' /\ DataTypes'
    <2>1. PcTypes'
      BY <1>4
      DEF CloseStream, Goto, PcTypes, ThreadNames, OwnerPlaces, EventPlaces,
          CallerPlaces
    <2>2. DataTypes'
      BY <1>4
      DEF CloseStream, Goto, ownerRest, ownerFrame, holdVars, callerVars,
          cameraVars, DataTypes
    <2> QED
      BY <2>1, <2>2
  <1>5. ASSUME StopStream PROVE PcTypes' /\ DataTypes'
    <2>1. PcTypes'
      BY <1>5
      DEF StopStream, Goto, PcTypes, ThreadNames, OwnerPlaces, EventPlaces,
          CallerPlaces
    <2>2. DataTypes'
      BY <1>5
      DEF StopStream, Goto, ownerRest, ownerFrame, holdVars, callerVars, cameraVars,
          DataTypes
    <2> QED
      BY <2>1, <2>2
  <1>6. ASSUME CancelTransfers PROVE PcTypes' /\ DataTypes'
    <2>1. PcTypes'
      BY <1>6
      DEF CancelTransfers, Goto, AwaitTransfers, PcTypes, ThreadNames, OwnerPlaces,
          EventPlaces, CallerPlaces
    <2>2. DataTypes'
      BY <1>6
      DEF CancelTransfers, Goto, AwaitTransfers, Broadcast, ownerRest, ownerFrame,
          holdVars, callerVars, cameraVars, DataTypes, TransferStates
    <2> QED
      BY <2>1, <2>2
  <1>7. ASSUME WakeStop PROVE PcTypes' /\ DataTypes'
    <2>1. PcTypes'
      BY <1>7
      DEF WakeStop, Goto, AwaitTransfers, PcTypes, ThreadNames, OwnerPlaces,
          EventPlaces, CallerPlaces
    <2>2. DataTypes'
      BY <1>7
      DEF WakeStop, Goto, AwaitTransfers, Broadcast, ownerRest, ownerFrame,
          holdVars, callerVars, cameraVars, DataTypes
    <2> QED
      BY <2>1, <2>2
  <1>8. ASSUME JoinCaller PROVE PcTypes' /\ DataTypes'
    <2>1. PcTypes'
      BY <1>8
      DEF JoinCaller, PcTypes, ThreadNames, OwnerPlaces, EventPlaces, CallerPlaces
    <2>2. DataTypes'
      BY <1>8
      DEF JoinCaller, ownerRest, ownerFrame, holdVars, callerVars, cameraVars,
          DataTypes
    <2> QED
      BY <2>1, <2>2
  <1>9. ASSUME FreeStream PROVE PcTypes' /\ DataTypes'
    <2>1. PcTypes'
      BY <1>9
      DEF FreeStream, Goto, PcTypes, ThreadNames, OwnerPlaces, EventPlaces,
          CallerPlaces
    <2>2. DataTypes'
      BY <1>9
      DEF FreeStream, Goto, ownerFrame, holdVars, callerVars, cameraVars, DataTypes
    <2> QED
      BY <2>1, <2>2
  <1> QED
    BY <1>1, <1>2, <1>3, <1>4, <1>5, <1>6, <1>7, <1>8, <1>9 DEF Owner
\* every step
LEMMA TypesStep ==
    ASSUME PcTypes, DataTypes, [Next]_vars
    PROVE  PcTypes' /\ DataTypes'
  <1>1. CASE Unplug
    BY <1>1
    DEF Unplug, PcTypes, DataTypes, bufVars, holdVars, callerVars
  <1>2. CASE UNCHANGED vars
    BY <1>2
    DEF vars, PcTypes, DataTypes, bufVars, holdVars, callerVars, cameraVars
  <1> QED
    BY <1>1, <1>2, EventTypes, CallerTypes, OwnerTypes DEF Next

-------------------------------------------------------------------------------
(* The life of a stream *)

\* there is no stream at first
LEMMA InitLife ==
    ASSUME Init
    PROVE  Life
  <1>1. Still
    BY DEF Init, Still
  <1>2. /\ \A t \in Transfers : transfers[t] # "callback"
        /\ pc["event"] = "idle" /\ pc["owner"] = "idle" /\ plugged = TRUE /\ open = FALSE
    BY DEF Init
  <1> QED
    BY <1>1, <1>2 DEF Life, Still

\* A stream is opened when nothing of another one is about.
LEMMA FreshStart ==
    ASSUME Reliable, PcTypes, DataTypes, Life, StartStreaming
    PROVE  Still
  <1>1. CASE starts = 0
    BY <1>1 DEF Life
  <1>2. CASE starts # 0
    <2>1. ~SubmitFails
      BY <1>2, StreamAssumption DEF StartStreaming, Reliable, DataTypes
    <2> QED
      BY <2>1 DEF StartStreaming, Life, Still, DataTypes
  <1> QED
    BY <1>1, <1>2

\* the event thread keeps what is known of a stream's life
LEMMA EventLife ==
    ASSUME Reliable, PcTypes, DataTypes, Life, Event
    PROVE  Life'
  <1>1. ASSUME NEW t \in Transfers, ReceivePacket(t) PROVE Life'
    BY <1>1
    DEF ReceivePacket, Returned, eventFrame, holdVars, callerVars, Life, Still,
        PcTypes, DataTypes, ThreadNames, OwnerPlaces, EventPlaces, CallerPlaces,
        TransferStates
  <1>2. ASSUME NEW t \in Transfers, SkipPacket(t) PROVE Life'
    BY <1>2
    DEF SkipPacket, Returned, eventFrame, holdVars, callerVars, Life, Still,
        PcTypes, DataTypes, ThreadNames, OwnerPlaces, EventPlaces, CallerPlaces,
        TransferStates
  <1>3. ASSUME NEW t \in Transfers, EmptyTransfer(t) PROVE Life'
    BY <1>3
    DEF EmptyTransfer, Returned, eventFrame, bufVars, holdVars, callerVars, Life,
        Still, PcTypes, DataTypes, ThreadNames, OwnerPlaces, EventPlaces, CallerPlaces,
        TransferStates
  <1>4. ASSUME NEW t \in Transfers, EndTransfer(t) PROVE Life'
    BY <1>4
    DEF EndTransfer, Returned, eventFrame, bufVars, holdVars, callerVars, Life,
        Still, PcTypes, DataTypes, ThreadNames, OwnerPlaces, EventPlaces, CallerPlaces,
        TransferStates
  <1>5. ASSUME NEW t \in Transfers, LoseDevice(t) PROVE Life'
    BY <1>5
    DEF LoseDevice, Returned, eventFrame, bufVars, holdVars, callerVars, Life,
        Still, PcTypes, DataTypes, ThreadNames, OwnerPlaces, EventPlaces, CallerPlaces,
        TransferStates
  <1>6. ASSUME AppendPacket PROVE Life'
    BY <1>6
    DEF AppendPacket, Goto, eventFrame, holdVars, callerVars, Life, Still, PcTypes,
        DataTypes, ThreadNames, OwnerPlaces, EventPlaces, CallerPlaces, TransferStates
  <1>7. ASSUME Resubmit PROVE Life'
    BY <1>7
    DEF Resubmit, Goto, eventFrame, bufVars, holdVars, callerVars, Life, Still,
        PcTypes, DataTypes, ThreadNames, OwnerPlaces, EventPlaces, CallerPlaces,
        TransferStates
  <1>8. ASSUME Submit PROVE Life'
    BY <1>8
    DEF Submit, Goto, eventFrame, bufVars, holdVars, callerVars, Life, Still,
        PcTypes, DataTypes, ThreadNames, OwnerPlaces, EventPlaces, CallerPlaces,
        TransferStates
  <1>9. ASSUME DeleteTransfer PROVE Life'
    BY <1>9
    DEF DeleteTransfer, Goto, Broadcast, eventFrame, bufVars, holdVars, callerVars,
        Life, Still, PcTypes, DataTypes, ThreadNames, OwnerPlaces, EventPlaces,
        CallerPlaces, TransferStates
  <1> QED
    BY <1>1, <1>2, <1>3, <1>4, <1>5, <1>6, <1>7, <1>8, <1>9 DEF Event

\* the caller keeps it
LEMMA CallerLife ==
    ASSUME Reliable, PcTypes, DataTypes, Life, Caller
    PROVE  Life'
  <1>1. ASSUME CheckFrame PROVE Life'
    BY <1>1
    DEF CheckFrame, callerFrame, bufVars, holdVars, cameraVars, Life, Still,
        PcTypes, DataTypes, ThreadNames, OwnerPlaces, EventPlaces, CallerPlaces,
        TransferStates
  <1>2. ASSUME CallUser PROVE Life'
    BY <1>2
    DEF CallUser, Goto, callerFrame, bufVars, holdVars, cameraVars, Life, Still,
        PcTypes, DataTypes, ThreadNames, OwnerPlaces, EventPlaces, CallerPlaces,
        TransferStates
  <1>3. ASSUME ReturnUser PROVE Life'
    BY <1>3
    DEF ReturnUser, Goto, callerFrame, bufVars, holdVars, callerVars, cameraVars,
        Life, Still, PcTypes, DataTypes, ThreadNames, OwnerPlaces, EventPlaces,
        CallerPlaces, TransferStates
  <1> QED
    BY <1>1, <1>2, <1>3 DEF Caller

\* the owner keeps it
LEMMA OwnerLife ==
    ASSUME Reliable, PcTypes, DataTypes, Life, Owner
    PROVE  Life'
  <1>1. ASSUME StartStreaming PROVE Life'
    <2>1. Still
      BY <1>1, FreshStart
    <2>2. /\ open' = TRUE /\ running' = TRUE /\ plugged' = plugged /\ current' = current
          /\ pc'["owner"] = "submit" /\ pc'["event"] = pc["event"]
          /\ \A t \in Transfers : transfers'[t] = "new"
          /\ starts' # 0
      BY <1>1, StreamAssumption
      DEF StartStreaming, cameraVars, PcTypes, DataTypes, ThreadNames
    <2> QED
      BY <2>1, <2>2 DEF Life, Still
  <1>2. ASSUME SubmitTransfer PROVE Life'
    BY <1>2
    DEF SubmitTransfer, ownerFrame, holdVars, callerVars, cameraVars, Life, Still,
        PcTypes, DataTypes, ThreadNames, OwnerPlaces, EventPlaces, CallerPlaces,
        TransferStates
  <1>3. ASSUME StopStreaming PROVE Life'
    BY <1>3
    DEF StopStreaming, Goto, ownerRest, ownerFrame, holdVars, callerVars,
        cameraVars, Life, Still, PcTypes, DataTypes, ThreadNames, OwnerPlaces,
        EventPlaces, CallerPlaces, TransferStates
  <1>4. ASSUME CloseStream PROVE Life'
    BY <1>4
    DEF CloseStream, Goto, ownerRest, ownerFrame, holdVars, callerVars, cameraVars,
        Life, Still, PcTypes, DataTypes, ThreadNames, OwnerPlaces, EventPlaces,
        CallerPlaces, TransferStates
  <1>5. ASSUME StopStream PROVE Life'
    BY <1>5
    DEF StopStream, Goto, ownerRest, ownerFrame, holdVars, callerVars, cameraVars,
        Life, Still, PcTypes, DataTypes, ThreadNames, OwnerPlaces, EventPlaces,
        CallerPlaces, TransferStates
  <1>6. ASSUME CancelTransfers PROVE Life'
    BY <1>6
    DEF CancelTransfers, Goto, AwaitTransfers, Broadcast, ownerRest, ownerFrame,
        holdVars, callerVars, cameraVars, Life, Still, PcTypes, DataTypes, ThreadNames,
        OwnerPlaces, EventPlaces, CallerPlaces, TransferStates
  <1>7. ASSUME WakeStop PROVE Life'
    BY <1>7
    DEF WakeStop, Goto, AwaitTransfers, Broadcast, ownerRest, ownerFrame, holdVars,
        callerVars, cameraVars, Life, Still, PcTypes, DataTypes, ThreadNames,
        OwnerPlaces, EventPlaces, CallerPlaces, TransferStates
  <1>8. ASSUME JoinCaller PROVE Life'
    BY <1>8
    DEF JoinCaller, ownerRest, ownerFrame, holdVars, callerVars, cameraVars, Life,
        Still, PcTypes, DataTypes, ThreadNames, OwnerPlaces, EventPlaces, CallerPlaces,
        TransferStates
  <1>9. ASSUME FreeStream PROVE Life'
    BY <1>9
    DEF FreeStream, Goto, ownerFrame, holdVars, callerVars, cameraVars, Life, Still,
        PcTypes, DataTypes, ThreadNames, OwnerPlaces, EventPlaces, CallerPlaces,
        TransferStates
  <1> QED
    BY <1>1, <1>2, <1>3, <1>4, <1>5, <1>6, <1>7, <1>8, <1>9 DEF Owner
-------------------------------------------------------------------------------
(* The order of packets and frames *)

\* what Order is about
orderVars == <<packet, camera, outbuf, fid, hold, published>>

\* no packet has been sent at first
LEMMA InitOrder ==
    ASSUME Init
    PROVE  Order /\ Numbers
  <1>1. /\ outbuf = <<>> /\ hold.packets = <<>> /\ hold.number = 0 /\ hold.seq = 0
        /\ frame.number = 0 /\ given = 0 /\ published = 0 /\ last_seq = 0
        /\ camera = <<1, 1>> /\ pc["event"] = "idle"
    BY DEF Init, NoHold, NoFrame
  <1>2. DOMAIN outbuf = {} /\ DOMAIN hold.packets = {}
    BY <1>1
  <1>3. published <= MaxFrames /\ published < camera[1]
    BY <1>1, StreamAssumption
  <1> QED
    BY <1>1, <1>2, <1>3 DEF Order, Numbers, NextIn

\* A step that leaves the packets alone, and does not come from the memcpy or lead
\* to it, keeps the order.
LEMMA OrderKept ==
    ASSUME Order, UNCHANGED orderVars,
           \/ pc["event"] # "append" /\ pc'["event"] # "append"
           \/ pc'["event"] = pc["event"]
    PROVE  Order'
  <1>1. NextIn' = NextIn
    BY DEF NextIn, orderVars
  <1> QED
    BY <1>1 DEF Order, orderVars

\* The next packet of the camera is received: the frame that is gathered may end.
LEMMA ReceiveOrder ==
    ASSUME PcTypes, DataTypes, Order, NEW t \in Transfers, ReceivePacket(t)
    PROVE  Order'
  <1>1. /\ pc["event"] = "idle" /\ pc'["event"] = "append"
        /\ packet' = camera /\ NextPacket /\ camera[1] <= MaxFrames
        /\ fid' = camera[1] % 2
    BY DEF ReceivePacket, Sends, Returned, PcTypes, ThreadNames
  <1>2. NextIn = camera /\ NextIn' = packet'
    BY <1>1 DEF NextIn
  <1>3. camera' = IF packet'[2] < Parts THEN <<packet'[1], packet'[2] + 1>>
                  ELSE <<packet'[1] + 1, 1>>
    BY <1>1 DEF NextPacket
  <1>4. CASE fid # fid' /\ outbuf # <<>>
    <2>1. Swap(outbuf)
      BY <1>4 DEF ReceivePacket
    <2>2. /\ hold'.packets = outbuf /\ outbuf' = <<>> /\ published' = published + 1
      BY <2>1, SwapHolds DEF DataTypes
    <2>8. DOMAIN outbuf' = {}
      BY <2>2
    <2> DEFINE last == outbuf[Len(outbuf)]
    <2>3. /\ last \in Packets /\ Before(last, camera) /\ last[1] <= MaxFrames
          /\ published < last[1] /\ fid = last[1] % 2
      BY <1>2, <1>4, Elements DEF Order, DataTypes
    <2> HIDE DEF last
    <2>4. last[1] # camera[1]
      BY <1>1, <1>4, <2>3
    <2>5. /\ published + 1 <= last[1] /\ last[1] < camera[1]
          /\ last[1] \in Nat /\ camera[1] \in Nat /\ published \in Nat
      BY <2>3, <2>4 DEF Before, Packets, DataTypes
    <2>6. published' <= MaxFrames /\ published' < packet'[1]
      BY <1>1, <2>2, <2>3, <2>5, StreamAssumption
    <2>7. \A j \in DOMAIN hold'.packets : Before(hold'.packets[j], NextIn')
      BY <1>1, <1>2, <2>2 DEF Order
    <2> QED
      BY <1>1, <1>2, <1>3, <2>2, <2>6, <2>7, <2>8 DEF Order
  <1>5. CASE ~(fid # fid' /\ outbuf # <<>>)
    <2>1. UNCHANGED <<outbuf, hold, published>>
      BY <1>5 DEF ReceivePacket, holdVars
    <2>2. outbuf # <<>> => fid' = outbuf[Len(outbuf)][1] % 2
      BY <1>5 DEF Order
    <2> QED
      BY <1>1, <1>2, <1>3, <2>1, <2>2 DEF Order
  <1> QED
    BY <1>4, <1>5

\* a packet is lost
LEMMA SkipOrder ==
    ASSUME PcTypes, DataTypes, Order, NEW t \in Transfers, SkipPacket(t)
    PROVE  Order'
  <1>1. /\ pc["event"] = "idle" /\ pc'["event"] = "resubmit" /\ NextPacket
        /\ UNCHANGED <<outbuf, hold, published, fid>>
    BY DEF SkipPacket, Returned, PcTypes, ThreadNames, holdVars
  <1>2. NextIn = camera /\ NextIn' = camera'
    BY <1>1 DEF NextIn
  <1>3. /\ camera[1] <= camera'[1] /\ camera' \in Packets
        /\ \A r \in Packets : Before(r, camera) => Before(r, camera')
    BY <1>1, CameraMoves
  <1>4. /\ \A i \in DOMAIN outbuf : outbuf[i] \in Packets
        /\ \A j \in DOMAIN hold.packets : hold.packets[j] \in Packets
    BY Elements DEF DataTypes, HoldTypes
  <1>5. published < camera'[1]
    BY <1>2, <1>3 DEF Order, DataTypes, Packets
  <1> QED
    BY <1>1, <1>2, <1>3, <1>4, <1>5 DEF Order

\* The packet is copied, and may be the last of its frame.
LEMMA AppendOrder ==
    ASSUME PcTypes, DataTypes, Order, AppendPacket
    PROVE  Order'
  <1> DEFINE grown == Append(outbuf, packet)
  <1>1. /\ pc["event"] = "append" /\ pc'["event"] = "resubmit"
        /\ UNCHANGED <<packet, camera, fid>>
    BY DEF AppendPacket, Goto, PcTypes, ThreadNames
  <1>2. NextIn = packet /\ NextIn' = camera
    BY <1>1 DEF NextIn
  <1>3. /\ packet \in Packets /\ packet[1] <= MaxFrames /\ fid = packet[1] % 2
        /\ camera = IF packet[2] < Parts THEN <<packet[1], packet[2] + 1>>
                    ELSE <<packet[1] + 1, 1>>
    BY <1>1 DEF Order, DataTypes
  <1>4. /\ camera \in Packets /\ packet[1] <= camera[1] /\ Before(packet, camera)
        /\ \A r \in Packets : Before(r, packet) => Before(r, camera)
    BY <1>3, NextIsLater
  <1>5. /\ \A i \in DOMAIN outbuf : outbuf[i] \in Packets
        /\ \A j \in DOMAIN hold.packets : hold.packets[j] \in Packets
    BY Elements DEF DataTypes, HoldTypes
  <1>6. /\ grown \in Seq(Packets) /\ grown # <<>> /\ grown[Len(grown)] = packet
        /\ \A i \in DOMAIN grown :
              grown[i] = packet \/ (i \in DOMAIN outbuf /\ grown[i] = outbuf[i])
    BY Appended DEF DataTypes
  <1> HIDE DEF grown
  <1>7. \A i \in DOMAIN grown : Before(grown[i], camera) /\ grown[i][1] <= MaxFrames
    BY <1>2, <1>3, <1>4, <1>5, <1>6 DEF Order
  <1>8. published < packet[1]
    BY <1>2 DEF Order
  <1>9. CASE packet[2] = Parts
    <2>1. Swap(grown)
      BY <1>9 DEF AppendPacket, grown
    <2>2. /\ hold'.packets = grown /\ outbuf' = <<>> /\ published' = published + 1
      BY <1>6, <2>1, SwapHolds DEF DataTypes
    <2>5. DOMAIN outbuf' = {}
      BY <2>2
    <2>3. camera[1] = packet[1] + 1
      BY <1>3, <1>9, StreamAssumption DEF Packets
    <2>4. published' <= MaxFrames /\ published' < camera[1]
      BY <1>3, <1>8, <2>2, <2>3, StreamAssumption DEF Packets, DataTypes
    <2> QED
      BY <1>1, <1>2, <1>7, <2>2, <2>4, <2>5 DEF Order
  <1>10. CASE packet[2] # Parts
    <2>1. outbuf' = grown /\ UNCHANGED <<hold, published>>
      BY <1>10 DEF AppendPacket, grown, holdVars
    <2>2. \A j \in DOMAIN hold.packets : Before(hold.packets[j], camera)
      BY <1>2, <1>4, <1>5 DEF Order
    <2>3. \A i \in DOMAIN grown : \A j \in DOMAIN hold.packets :
             Before(hold.packets[j], grown[i])
      BY <1>2, <1>6 DEF Order
    <2>4. published <= MaxFrames /\ published < camera[1]
      BY <1>3, <1>4, <1>8, StreamAssumption DEF Order, Packets, DataTypes
    <2> QED
      BY <1>1, <1>2, <1>3, <1>6, <1>7, <1>8, <2>1, <2>2, <2>3, <2>4 DEF Order
  <1> QED
    BY <1>9, <1>10

\* A new stream has nothing in its buffers.
LEMMA StartOrder ==
    ASSUME PcTypes, DataTypes, Order, Numbers, Still, StartStreaming
    PROVE  Order' /\ Numbers'
  <1>1. /\ pc["event"] = "idle" /\ pc'["event"] = "idle" /\ outbuf' = <<>>
        /\ UNCHANGED <<camera, published, given>> /\ last_seq' = 0
    BY DEF Still, StartStreaming, PcTypes, ThreadNames, cameraVars
  <1>2. /\ hold'.packets = <<>> /\ hold'.number = published /\ hold'.seq = 0
        /\ frame'.number = given
    BY NewHold, NewFrame DEF StartStreaming, DataTypes
  <1>3. DOMAIN outbuf' = {} /\ DOMAIN hold'.packets = {}
    BY <1>1, <1>2
  <1>4. NextIn' = camera /\ NextIn = camera
    BY <1>1 DEF NextIn
  <1>5. Order'
    BY <1>1, <1>2, <1>3, <1>4 DEF Order
  <1>6. given <= published
    BY DEF Numbers, DataTypes, FrameTypes
  <1>7. Numbers'
    BY <1>1, <1>2, <1>6 DEF Numbers, DataTypes
  <1> QED
    BY <1>5, <1>7

\* A swap gives the next number.
LEMMA SwapNumbers ==
    ASSUME DataTypes, Numbers, NEW ps \in Seq(Packets), Swap(ps), UNCHANGED callerVars
    PROVE  Numbers'
  <1>1. hold'.number = published' /\ published' = published + 1
    BY SwapHolds
  <1> QED
    BY <1>1 DEF Numbers, callerVars, DataTypes, FrameTypes

\* The caller takes the frame that is held when it has not seen it yet.
LEMMA CheckNumbers ==
    ASSUME DataTypes, Numbers, CheckFrame
    PROVE  Numbers'
  <1>1. hold' = hold /\ published' = published /\ given' = given
    BY DEF CheckFrame, callerFrame, holdVars
  <1>2. CASE frame' = frame /\ last_seq' = last_seq
    BY <1>1, <1>2 DEF Numbers
  <1>3. CASE /\ last_seq' = hold.seq
             /\ frame' = IF hold.err THEN frame
                         ELSE [packets |-> hold.packets, number |-> hold.number]
    <2>1. frame'.number = frame.number \/ frame'.number = published
      BY <1>3 DEF Numbers
    <2> QED
      BY <1>1, <1>3, <2>1 DEF Numbers, DataTypes, FrameTypes
  <1> QED
    BY <1>2, <1>3 DEF CheckFrame

\* user_cb is called with what has been taken
LEMMA CallNumbers ==
    ASSUME DataTypes, Numbers, CallUser
    PROVE  Numbers'
  BY DEF CallUser, Numbers, callerFrame, holdVars, DataTypes, FrameTypes

\* The invariant is kept by every step.
LEMMA InvariantKept ==
    ASSUME Reliable, IInv, [Next]_vars
    PROVE  IInv'
  <1> USE DEF IInv
  <1>1. PcTypes' /\ DataTypes'
    BY TypesStep
  <1>2. CASE open /\ Event
    <2>1. Life'
      BY <1>2, EventLife
    <2>2. ASSUME NEW t \in Transfers, ReceivePacket(t) PROVE Order' /\ Numbers'
      <3>1. Order'
        BY <2>2, ReceiveOrder
      <3>2. CASE Swap(outbuf)
        BY <2>2, <3>1, <3>2, SwapNumbers DEF ReceivePacket, eventFrame, DataTypes
      <3>3. CASE UNCHANGED holdVars
        BY <2>2, <3>1, <3>3
        DEF ReceivePacket, eventFrame, holdVars, callerVars, Numbers
      <3> QED
        BY <2>2, <3>2, <3>3 DEF ReceivePacket
    <2>3. ASSUME NEW t \in Transfers, SkipPacket(t) PROVE Order' /\ Numbers'
      <3>1. Order'
        BY <2>3, SkipOrder
      <3> QED
        BY <2>3, <3>1 DEF SkipPacket, eventFrame, holdVars, callerVars, Numbers
    <2>4. CASE AppendPacket
      <3>1. Order'
        BY <2>4, AppendOrder
      <3>2. CASE Swap(Append(outbuf, packet))
        <4>1. Append(outbuf, packet) \in Seq(Packets)
          BY Appended DEF DataTypes
        <4> QED
          BY <1>1, <2>1, <2>4, <3>1, <3>2, <4>1, SwapNumbers
          DEF AppendPacket, eventFrame
      <3>3. CASE UNCHANGED holdVars
        BY <1>1, <2>1, <2>4, <3>1, <3>3
        DEF AppendPacket, eventFrame, holdVars, callerVars, Numbers
      <3> QED
        BY <2>4, <3>2, <3>3 DEF AppendPacket
    <2>5. ASSUME NEW t \in Transfers, EmptyTransfer(t) \/ EndTransfer(t) \/ LoseDevice(t)
          PROVE  Order' /\ Numbers'
      <3>1. /\ UNCHANGED orderVars /\ UNCHANGED callerVars
            /\ pc["event"] # "append" /\ pc'["event"] # "append"
        BY <2>5
        DEF EmptyTransfer, EndTransfer, LoseDevice, Returned, eventFrame, orderVars,
            bufVars, holdVars, PcTypes, ThreadNames
      <3> QED
        BY <3>1, OrderKept DEF orderVars, callerVars, Numbers
    <2>6. CASE Resubmit \/ Submit \/ DeleteTransfer
      <3>1. /\ UNCHANGED orderVars /\ UNCHANGED callerVars
            /\ pc["event"] # "append" /\ pc'["event"] # "append"
        BY <2>6
        DEF Resubmit, Submit, DeleteTransfer, Goto, eventFrame, orderVars,
            bufVars, holdVars, PcTypes, ThreadNames
      <3> QED
        BY <1>1, <2>1, <3>1, OrderKept DEF orderVars, callerVars, Numbers
    <2> QED
      BY <1>1, <1>2, <2>1, <2>2, <2>3, <2>4, <2>5, <2>6 DEF Event
  <1>3. CASE open /\ Caller
    <2>1. Life'
      BY <1>3, CallerLife
    <2>2. UNCHANGED orderVars /\ pc'["event"] = pc["event"]
      BY <1>3
      DEF Caller, CheckFrame, CallUser, ReturnUser, Goto, callerFrame, orderVars,
          bufVars, holdVars, cameraVars, PcTypes, ThreadNames
    <2>3. Order'
      BY <2>2, OrderKept
    <2>4. CASE ReturnUser
      BY <1>1, <2>1, <2>3, <2>4
      DEF ReturnUser, callerFrame, callerVars, holdVars, Numbers
    <2> QED
      BY <1>1, <1>3, <2>1, <2>3, <2>4, CheckNumbers, CallNumbers DEF Caller
  <1>4. CASE Owner
    <2>1. Life'
      BY <1>4, OwnerLife
    <2>2. CASE StartStreaming
      BY <1>1, <2>1, <2>2, FreshStart, StartOrder
    <2>3. CASE ~StartStreaming
      <3>1. /\ UNCHANGED orderVars /\ UNCHANGED callerVars
            /\ pc'["event"] = pc["event"]
        BY <1>4, <2>3
        DEF Owner, SubmitTransfer, StopStreaming, CloseStream, StopStream,
            CancelTransfers, WakeStop, JoinCaller, FreeStream, AwaitTransfers, Goto,
            ownerRest, ownerFrame, holdVars, cameraVars, orderVars, PcTypes, ThreadNames
      <3> QED
        BY <1>1, <2>1, <3>1, OrderKept DEF orderVars, callerVars, Numbers
    <2> QED
      BY <2>2, <2>3
  <1>5. CASE Unplug \/ UNCHANGED vars
    <2>1. /\ UNCHANGED orderVars /\ UNCHANGED callerVars /\ pc' = pc
          /\ UNCHANGED <<open, running, transfers, current, starts>>
          /\ (plugged' => plugged) /\ (plugged \/ Unplugs => plugged' \/ Unplugs)
      BY <1>5
      DEF Unplug, vars, orderVars, bufVars, holdVars, callerVars, cameraVars
    <2>2. Life'
      BY <2>1 DEF Life, Still
    <2> QED
      BY <1>1, <2>1, <2>2, OrderKept DEF orderVars, callerVars, Numbers
  <1> QED
    BY <1>2, <1>3, <1>4, <1>5 DEF Next

\* The invariant holds in every reachable state.
THEOREM InvariantHolds ==
    ASSUME Reliable
    PROVE  Spec => []IInv
  <1>1. Init => IInv
    BY InitTypes, InitLife, InitOrder DEF IInv
  <1>2. IInv /\ [Next]_vars => IInv'
    BY InvariantKept
  <1> QED
    BY <1>1, <1>2, PTL DEF Spec

\* Type correctness: every variable has its type, no packet is in both buffers,
\* and no more frames are published or given than the camera has sent.
THEOREM TypeCorrect ==
    ASSUME Reliable
    PROVE  Spec => []TypeOK
  <1>1. ASSUME IInv PROVE TypeOK
    <2> USE <1>1 DEF IInv
    <2>1. {open, running, bfh_err, plugged} \subseteq BOOLEAN
      BY DEF DataTypes
    <2>2. \A i \in DOMAIN outbuf : \A j \in DOMAIN hold.packets :
             outbuf[i] # hold.packets[j]
      <3>1. \A j \in DOMAIN hold.packets : hold.packets[j] \in Packets
        BY Elements DEF DataTypes, HoldTypes
      <3> QED
        BY <3>1 DEF Order, Before, Packets
    <2>3. published \in 0..MaxFrames /\ given \in 0..MaxFrames
      BY StreamAssumption DEF Order, Numbers, DataTypes, FrameTypes
    <2>4. /\ frame.packets \in Seq(Packets) /\ hold.packets \in Seq(Packets)
          /\ hold.seq \in 0 .. SeqSize - 1 /\ hold.err \in BOOLEAN
      BY DEF DataTypes, HoldTypes, FrameTypes
    <2>5. /\ transfers \in [Transfers -> {"null", "new", "inflight", "cancelled",
                                          "callback", "dead"}]
          /\ current \in Transfers /\ packet \in Packets /\ camera \in Packets
          /\ outbuf \in Seq(Packets) /\ fid \in 0..1 /\ seq \in 0 .. SeqSize - 1
          /\ last_seq \in 0 .. SeqSize - 1 /\ cb_cond \subseteq {"owner", "caller"}
          /\ starts \in 0..MaxStarts
      BY DEF DataTypes, TransferStates
    <2> QED
      BY <2>1, <2>2, <2>3, <2>4, <2>5
      DEF TypeOK, PcTypes, OwnerPlaces, EventPlaces, CallerPlaces
  <1> QED
    BY <1>1, InvariantHolds, PTL

-------------------------------------------------------------------------------
(* The end of a stream *)

\* As long as no cable is pulled and every submission works, uvc_stream_close frees
\* the handle when no transfer is in flight, no callback runs and the thread of the
\* stream has ended (1737-1832), for any number of transfers and of streams.  Both
\* conditions are needed: see the run stream_unplug.
THEOREM FreedWhenQuiet ==
    ASSUME Unplugs = FALSE, SubmitFails = FALSE
    PROVE  Spec => []ClosedIsQuiet
  <1>1. Reliable
    BY DEF Reliable
  <1>2. ASSUME IInv PROVE ClosedIsQuiet
    <2> SUFFICES ASSUME ~open
                 PROVE  /\ \A t \in Transfers :
                              transfers[t] \notin {"inflight", "cancelled", "callback"}
                        /\ pc["event"] = "idle" /\ pc["caller"] = "none"
      BY DEF ClosedIsQuiet
    <2>1. pc["owner"] = "idle" /\ plugged
      BY <1>2 DEF IInv, Life
    <2>2. /\ \A t \in Transfers : transfers[t] = "null"
          /\ pc["caller"] = "none"
      BY <1>2, <2>1 DEF IInv, Life
    <2>3. pc["event"] = "idle"
      BY <1>2, <2>2 DEF IInv, Life, DataTypes
    <2> QED
      BY <2>2, <2>3
  <1> QED
    BY <1>1, <1>2, InvariantHolds, PTL

-------------------------------------------------------------------------------
(* Damage *)

\* what is gathered without a gap belongs to the frame of what comes next
LEMMA UpToSameFrame ==
    ASSUME NEW s \in Seq(Packets), s # <<>>, NEW q \in Packets, UpTo(s, q)
    PROVE  s[Len(s)][1] = q[1]
  <1>1. q[1] \in Nat /\ q[2] \in Nat
    BY StreamAssumption DEF Packets
  <1>2. PICK first \in 1 .. q[2] - 1 :
           s = [p \in 1 .. q[2] - first |-> <<q[1], first + p - 1>>]
    BY DEF UpTo
  <1>3. Len(s) \in DOMAIN s
    BY Elements
  <1>4. DOMAIN s = 1 .. q[2] - first
    BY <1>2
  <1>5. s[Len(s)] = <<q[1], first + Len(s) - 1>>
    BY <1>2, <1>3, <1>4
  <1> QED
    BY <1>5

\* A frame that ends because the frame id bit changes has a mark: its EOF was lost.
LEMMA ReceiveDamage ==
    ASSUME IInv, Damage, NEW t \in Transfers, ReceivePacket(t)
    PROVE  Damage'
  <1> USE DEF IInv
  <1>1. /\ pc["event"] = "idle" /\ pc'["event"] = "append"
        /\ packet' = camera /\ fid' = camera[1] % 2 /\ frame' = frame
    BY DEF ReceivePacket, Returned, PcTypes, ThreadNames, eventFrame, callerVars
  <1>2. NextIn = camera /\ NextIn' = camera
    BY <1>1 DEF NextIn
  <1>3. CASE fid # fid' /\ outbuf # <<>>
    <2>1. /\ hold'.packets = outbuf /\ hold'.err = bfh_err /\ outbuf' = <<>>
      BY <1>3, SwapHolds DEF ReceivePacket, DataTypes
    <2>2. bfh_err
      <3>1. ASSUME ~bfh_err PROVE FALSE
        <4>1. UpTo(outbuf, camera)
          BY <1>2, <1>3, <3>1 DEF Damage
        <4>2. outbuf[Len(outbuf)][1] = camera[1]
          BY <1>3, <4>1, UpToSameFrame DEF DataTypes
        <4>3. fid = outbuf[Len(outbuf)][1] % 2
          BY <1>3 DEF Order
        <4> QED
          BY <1>1, <1>3, <4>2, <4>3
      <3> QED
        BY <3>1
    <2> QED
      BY <1>1, <2>1, <2>2 DEF Damage
  <1>4. CASE ~(fid # fid' /\ outbuf # <<>>)
    BY <1>1, <1>2, <1>4 DEF ReceivePacket, holdVars, Damage
  <1> QED
    BY <1>3, <1>4

\* A frame that ends with EOF is whole unless it has a mark.
LEMMA AppendDamage ==
    ASSUME IInv, Damage, AppendPacket
    PROVE  Damage'
  <1> USE DEF IInv
  <1> DEFINE grown == Append(outbuf, packet)
  <1>1. /\ pc["event"] = "append" /\ pc'["event"] = "resubmit"
        /\ UNCHANGED <<packet, camera, frame>>
    BY DEF AppendPacket, Goto, PcTypes, ThreadNames, eventFrame, callerVars
  <1>2. NextIn = packet /\ NextIn' = camera
    BY <1>1 DEF NextIn
  <1>3. /\ packet \in Packets /\ packet[1] \in 1..MaxFrames
        /\ packet[2] \in 1..Parts /\ Parts \in Nat
        /\ packet[2] < Parts => camera = <<packet[1], packet[2] + 1>>
    <2>1. packet \in Packets /\ packet[1] \in Nat /\ packet[2] \in 1..Parts
      BY DEF DataTypes, Packets
    <2>2. published < packet[1] /\ published \in Nat /\ packet[1] <= MaxFrames
      BY <1>1, <1>2 DEF Order, DataTypes
    <2> QED
      BY <1>1, <2>1, <2>2, StreamAssumption DEF Order
  <1>4. grown \in Seq(Packets)
    BY Appended DEF DataTypes
  <1>5. ~bfh_err => \E first \in 1 .. packet[2] :
           grown = [k \in 1 .. packet[2] - first + 1 |-> <<packet[1], first + k - 1>>]
    <2> SUFFICES ASSUME ~bfh_err
                 PROVE  \E first \in 1 .. packet[2] :
                           grown = [k \in 1 .. packet[2] - first + 1 |->
                                       <<packet[1], first + k - 1>>]
      OBVIOUS
    <2>1. outbuf # <<>> => UpTo(outbuf, packet)
      BY <1>2 DEF Damage
    <2> QED
      BY <1>3, <2>1, GathersOn DEF DataTypes
  <1> HIDE DEF grown
  <1>6. CASE packet[2] = Parts
    <2>1. Swap(grown)
      BY <1>6 DEF AppendPacket, grown
    <2>2. hold'.packets = grown /\ hold'.err = bfh_err /\ outbuf' = <<>>
      BY <1>4, <2>1, SwapHolds
    <2>3. ~bfh_err => Whole(grown)
      BY <1>3, <1>5, <1>6 DEF Whole
    <2> QED
      BY <1>1, <2>2, <2>3 DEF Damage
  <1>7. CASE packet[2] # Parts
    <2>1. outbuf' = grown /\ UNCHANGED <<hold, bfh_err>>
      BY <1>7 DEF AppendPacket, grown, holdVars
    <2>2. camera[1] = packet[1] /\ camera[2] = packet[2] + 1
      BY <1>3, <1>7
    <2>3. ASSUME ~bfh_err PROVE UpTo(grown, camera)
      <3>1. PICK first \in 1 .. packet[2] :
               grown = [k \in 1 .. packet[2] - first + 1 |->
                           <<packet[1], first + k - 1>>]
        BY <1>5, <2>3
      <3>2. /\ first \in 1 .. camera[2] - 1
            /\ packet[2] - first + 1 = camera[2] - first
        BY <1>3, <2>2
      <3> QED
        BY <2>2, <3>1, <3>2 DEF UpTo
    <2> QED
      BY <1>1, <1>2, <2>1, <2>3 DEF Damage
  <1> QED
    BY <1>6, <1>7

\* Every step keeps what is known of damage when each loss has a bad status.
LEMMA DamageKept ==
    ASSUME Reliable, "header" \notin Losses, IInv, Damage, [Next]_vars
    PROVE  Damage'
  <1> USE DEF IInv
  <1>1. ASSUME UNCHANGED orderVars, UNCHANGED <<bfh_err, frame>>,
               \/ pc["event"] # "append" /\ pc'["event"] # "append"
               \/ pc'["event"] = pc["event"]
        PROVE  Damage'
    <2>1. NextIn' = NextIn
      BY <1>1 DEF NextIn, orderVars
    <2> QED
      BY <1>1, <2>1 DEF Damage, orderVars
  <1>2. CASE open /\ Event
    <2>1. ASSUME NEW t \in Transfers, SkipPacket(t) PROVE Damage'
      BY <2>1
      DEF SkipPacket, MarkError, holdVars, eventFrame, callerVars, Damage
    <2>2. ASSUME NEW t \in Transfers, EmptyTransfer(t) \/ EndTransfer(t) \/ LoseDevice(t)
          PROVE  Damage'
      BY <1>1, <2>2
      DEF EmptyTransfer, EndTransfer, LoseDevice, Returned, eventFrame, orderVars,
          bufVars, holdVars, callerVars, PcTypes, ThreadNames
    <2>3. CASE Resubmit \/ Submit \/ DeleteTransfer
      BY <1>1, <2>3
      DEF Resubmit, Submit, DeleteTransfer, Goto, eventFrame, orderVars,
          bufVars, holdVars, callerVars, PcTypes, ThreadNames
    <2> QED
      BY <1>2, <2>1, <2>2, <2>3, ReceiveDamage, AppendDamage DEF Event
  <1>3. CASE open /\ Caller
    <2>1. UNCHANGED orderVars /\ bfh_err' = bfh_err /\ pc'["event"] = pc["event"]
      BY <1>3
      DEF Caller, CheckFrame, CallUser, ReturnUser, Goto, callerFrame, orderVars,
          bufVars, holdVars, cameraVars, PcTypes, ThreadNames
    <2>2. CASE frame' = frame
      BY <1>1, <2>1, <2>2
    <2>3. CASE ~hold.err /\ frame' = [packets |-> hold.packets, number |-> hold.number]
      <3>1. NextIn' = NextIn
        BY <2>1 DEF NextIn, orderVars
      <3>2. frame'.packets = hold.packets
        BY <2>3
      <3> QED
        BY <2>1, <2>3, <3>1, <3>2 DEF Damage, orderVars
    <2> QED
      BY <1>3, <2>2, <2>3
      DEF Caller, CheckFrame, CallUser, ReturnUser, callerVars
  <1>4. CASE Owner
    <2>1. CASE StartStreaming
      <3>1. hold'.packets = <<>> /\ frame'.packets = <<>> /\ outbuf' = <<>>
        BY <2>1, NewHold, NewFrame DEF StartStreaming, DataTypes
      <3> QED
        BY <3>1 DEF Damage
    <2>2. CASE ~StartStreaming
      BY <1>1, <1>4, <2>2
      DEF Owner, SubmitTransfer, StopStreaming, CloseStream, StopStream,
          CancelTransfers, WakeStop, JoinCaller, FreeStream, AwaitTransfers, Goto,
          ownerRest, ownerFrame, holdVars, cameraVars, callerVars, orderVars,
          PcTypes, ThreadNames
    <2> QED
      BY <2>1, <2>2
  <1>5. CASE Unplug \/ UNCHANGED vars
    BY <1>1, <1>5
    DEF Unplug, vars, orderVars, bufVars, holdVars, callerVars, cameraVars
  <1> QED
    BY <1>2, <1>3, <1>4, <1>5 DEF Next

\* A frame that user_cb is called with has no gap, no missing end and no packet of
\* another frame, when every loss comes with a bad status (585-609, 798-806,
\* 844-850): for any number of packets in a frame, also after an unplugging.
THEOREM FrameIsWhole ==
    ASSUME Reliable, "header" \notin Losses
    PROVE  Spec => []NoMixture
  <1>1. Init => Damage
    BY DEF Init, Damage, NoHold, NoFrame
  <1>2. IInv /\ Damage /\ [Next]_vars => Damage'
    BY DamageKept
  <1>3. Damage => NoMixture
    BY DEF Damage, Whole, NoMixture
  <1> QED
    BY <1>1, <1>2, <1>3, InvariantHolds, PTL DEF Spec

-------------------------------------------------------------------------------
(* The channel *)

\* Without a bad status nothing is marked, and what is taken is newer than what
\* was given.
LEMMA UndamagedKept ==
    ASSUME Reliable, "status" \notin Losses, IInv, Undamaged, [Next]_vars
    PROVE  Undamaged'
  <1> USE DEF IInv
  <1>1. CASE open /\ Event
    <2>1. UNCHANGED <<frame, given>> /\ pc'["caller"] = pc["caller"]
      BY <1>1
      DEF Event, ReceivePacket, SkipPacket, EmptyTransfer, EndTransfer, LoseDevice,
          AppendPacket, Resubmit, Submit, DeleteTransfer, Goto, eventFrame, callerVars,
          PcTypes, ThreadNames
    <2>2. CASE UNCHANGED <<bfh_err, hold>>
      BY <2>1, <2>2 DEF Undamaged
    <2>3. ASSUME NEW ps \in Seq(Packets), Swap(ps) PROVE Undamaged'
      <3>1. hold'.err = bfh_err /\ bfh_err' = FALSE
        BY <2>3, SwapHolds
      <3> QED
        BY <2>1, <3>1 DEF Undamaged
    <2>4. outbuf \in Seq(Packets) /\ Append(outbuf, packet) \in Seq(Packets)
      BY Appended DEF DataTypes
    <2> QED
      BY <1>1, <2>2, <2>3, <2>4
      DEF Event, ReceivePacket, SkipPacket, EmptyTransfer, EndTransfer, LoseDevice,
          AppendPacket, Resubmit, Submit, DeleteTransfer, bufVars, holdVars
  <1>2. CASE open /\ Caller
    <2>1. UNCHANGED <<bfh_err, hold>>
      BY <1>2
      DEF Caller, CheckFrame, CallUser, ReturnUser, callerFrame, bufVars, holdVars
    <2>2. CASE CheckFrame
      <3>1. given' = given
        BY <2>2 DEF CheckFrame
      <3>2. CASE pc'["caller"] = "test"
        <4>1. last_seq # hold.seq
              /\ frame' = [packets |-> hold.packets, number |-> hold.number]
          BY <2>2, <3>2 DEF CheckFrame, NoNews, Undamaged, PcTypes, ThreadNames
        <4>2. frame'.number = published /\ frame.number < published
          BY <4>1 DEF Numbers, DataTypes, FrameTypes
        <4>3. given < published
          BY <4>2 DEF Numbers, DataTypes, FrameTypes
        <4> QED
          BY <2>1, <3>1, <4>2, <4>3 DEF Undamaged
      <3> QED
        BY <2>1, <3>2 DEF Undamaged
    <2>3. CASE CallUser \/ ReturnUser
      <3>1. pc'["caller"] # "test"
        BY <2>3 DEF CallUser, ReturnUser, Goto, PcTypes, ThreadNames
      <3> QED
        BY <2>1, <3>1 DEF Undamaged
    <2> QED
      BY <1>2, <2>2, <2>3 DEF Caller
  <1>3. CASE Owner
    <2>1. CASE StartStreaming
      <3>1. hold'.err = FALSE /\ bfh_err' = FALSE /\ pc'["caller"] = "check"
        BY <2>1, NewHold, NewFrame DEF StartStreaming, DataTypes, PcTypes, ThreadNames
      <3> QED
        BY <3>1 DEF Undamaged
    <2>2. CASE ~StartStreaming
      <3>1. /\ UNCHANGED <<bfh_err, hold, frame, given>>
            /\ pc'["caller"] = pc["caller"] \/ pc'["caller"] = "none"
        BY <1>3, <2>2
        DEF Owner, SubmitTransfer, StopStreaming, CloseStream, StopStream,
            CancelTransfers, WakeStop, JoinCaller, FreeStream, AwaitTransfers, Goto,
            ownerRest, ownerFrame, holdVars, callerVars, PcTypes, ThreadNames
      <3> QED
        BY <3>1 DEF Undamaged
    <2> QED
      BY <2>1, <2>2
  <1>4. CASE Unplug \/ UNCHANGED vars
    BY <1>4 DEF Unplug, vars, bufVars, holdVars, callerVars, Undamaged
  <1> QED
    BY <1>1, <1>2, <1>3, <1>4 DEF Next

\* a step of the stream is one of the channel, or nothing to it
LEMMA ChannelStep ==
    ASSUME Reliable, IInv, Undamaged, [Next]_vars
    PROVE  [Channel!Next]_(Channel!vars)
  <1> USE DEF IInv
  <1>1. ASSUME UNCHANGED <<published, given>>,
               pc'["caller"] = "callback" <=> pc["caller"] = "callback"
        PROVE  UNCHANGED Channel!vars
    BY <1>1 DEF Channel!vars
  <1>2. CASE open /\ Event
    <2>1. given' = given /\ pc'["caller"] = pc["caller"]
      BY <1>2
      DEF Event, ReceivePacket, SkipPacket, EmptyTransfer, EndTransfer, LoseDevice,
          AppendPacket, Resubmit, Submit, DeleteTransfer, Goto, eventFrame, callerVars,
          PcTypes, ThreadNames
    <2>2. published' = published + 1 \/ published' = published
      BY <1>2
      DEF Event, ReceivePacket, SkipPacket, EmptyTransfer, EndTransfer, LoseDevice,
          AppendPacket, Resubmit, Submit, DeleteTransfer, Swap, holdVars
    <2> QED
      BY <1>1, <2>1, <2>2 DEF Channel!Next, Channel!Send
  <1>3. CASE open /\ Caller
    <2>1. published' = published
      BY <1>3 DEF Caller, CheckFrame, CallUser, ReturnUser, callerFrame, holdVars
    <2>2. CASE CheckFrame
      BY <1>1, <2>1, <2>2 DEF CheckFrame, PcTypes, ThreadNames
    <2>3. CASE CallUser
      <3>1. /\ pc["caller"] = "test" /\ pc'["caller"] = "callback"
            /\ given' = frame.number
        BY <2>3 DEF CallUser, Goto, Undamaged, PcTypes, ThreadNames
      <3>2. given' \in given + 1 .. published
        BY <3>1 DEF Undamaged, Numbers, DataTypes, FrameTypes
      <3> QED
        BY <2>1, <3>1, <3>2 DEF Channel!Next, Channel!Deliver
    <2>4. CASE ReturnUser
      <3>1. /\ pc["caller"] = "callback" /\ pc'["caller"] = "check"
            /\ given' = given
        BY <2>4 DEF ReturnUser, Goto, callerVars, PcTypes, ThreadNames
      <3> QED
        BY <2>1, <3>1 DEF Channel!Next, Channel!Return
    <2> QED
      BY <1>3, <2>2, <2>3, <2>4 DEF Caller
  <1>4. CASE Owner
    <2>1. CASE StartStreaming
      <3>1. pc["caller"] = "none"
        BY <2>1, FreshStart DEF Still
      <3> QED
        BY <1>1, <2>1, <3>1 DEF StartStreaming, PcTypes, ThreadNames
    <2>2. CASE ~StartStreaming
      <3>1. /\ UNCHANGED <<published, given>>
            /\ pc'["caller"] = "callback" <=> pc["caller"] = "callback"
        BY <1>4, <2>2
        DEF Owner, SubmitTransfer, StopStreaming, CloseStream, StopStream,
            CancelTransfers, WakeStop, JoinCaller, FreeStream, AwaitTransfers, Goto,
            ownerRest, ownerFrame, holdVars, callerVars, PcTypes, ThreadNames
      <3> QED
        BY <1>1, <3>1
    <2> QED
      BY <2>1, <2>2
  <1>5. CASE Unplug \/ UNCHANGED vars
    BY <1>1, <1>5 DEF Unplug, vars, holdVars, callerVars
  <1> QED
    BY <1>2, <1>3, <1>4, <1>5 DEF Next

\* Without a bad status the stream is a lossy channel: user_cb is called with newer
\* and newer frames, one at a time and none that was not published (585-609,
\* 1571-1599), although seq is compared for equality only and may wrap.
THEOREM StreamIsChannel ==
    ASSUME Reliable, "status" \notin Losses
    PROVE  Spec => ImplementsChannel
  <1>1. Init => Undamaged
    BY DEF Init, Undamaged, NoHold
  <1>2. IInv /\ Undamaged /\ [Next]_vars => Undamaged'
    BY UndamagedKept
  <1>3. Init => Channel!Init
    BY DEF Init, Channel!Init
  <1>4. IInv /\ Undamaged /\ [Next]_vars => [Channel!Next]_(Channel!vars)
    BY ChannelStep
  <1> QED
    BY <1>1, <1>2, <1>3, <1>4, InvariantHolds, PTL
    DEF Spec, ImplementsChannel, Channel!Spec

-------------------------------------------------------------------------------
(* Threads that sleep *)

\* A start that failed: the transfers that it did not come to are left as they are.
FailedStart == pc["owner"] # "submit" /\ \E t \in Transfers : transfers[t] = "new"

\* The transfers of a stream that is stopped have all been submitted, and only a
\* pulled cable makes libusb refuse one that is submitted again.
Submitted ==
    /\ \/ pc["owner"] \in {"streaming", "stop", "cancel", "wait"}
       \/ pc["owner"] = "close" /\ running
       => \A t \in Transfers : transfers[t] # "new"
    /\ plugged => \A t \in Transfers : transfers[t] # "dead"

\* _uvc_user_caller has seen the frame that is held, and who has told it to end, or
\* is about to, has yet to broadcast.
CallerSleeps ==
    "caller" \in cb_cond =>
        /\ pc["caller"] = "check" /\ last_seq = hold.seq
        /\ running \/ pc["event"] = "delete" \/ pc["owner"] \in {"cancel", "wait"} \/ FailedStart

\* uvc_stream_stop waits for a transfer that is still to come back, unless the cable
\* has been pulled.
OwnerSleeps ==
    "owner" \in cb_cond =>
        /\ pc["owner"] = "wait"
        /\ \E t \in Transfers :
              IF plugged THEN transfers[t] \in {"inflight", "cancelled", "callback"}
                         ELSE transfers[t] # "null"

NoneSleepsInVain == CallerSleeps /\ OwnerSleeps

\* the event thread broadcasts when it deletes a transfer and when it swaps the buffers
LEMMA EventWakes ==
    ASSUME IInv, Submitted, NoneSleepsInVain, Event
    PROVE  (Submitted /\ NoneSleepsInVain)'
  <1> USE DEF IInv, PcTypes, DataTypes, Life, ThreadNames, TransferStates
  <1>1. ASSUME NEW t \in Transfers, ReceivePacket(t)
        PROVE  (Submitted /\ NoneSleepsInVain)'
    BY <1>1
    DEF ReceivePacket, Returned, Swap, Broadcast, eventFrame, callerVars, holdVars,
        Submitted, NoneSleepsInVain, CallerSleeps, OwnerSleeps, FailedStart
  <1>2. ASSUME NEW t \in Transfers, SkipPacket(t)
        PROVE  (Submitted /\ NoneSleepsInVain)'
    BY <1>2
    DEF SkipPacket, Returned, MarkError, eventFrame, callerVars, holdVars, Submitted,
        NoneSleepsInVain, CallerSleeps, OwnerSleeps, FailedStart
  <1>3. ASSUME NEW t \in Transfers, EmptyTransfer(t)
        PROVE  (Submitted /\ NoneSleepsInVain)'
    BY <1>3
    DEF EmptyTransfer, Returned, eventFrame, callerVars, bufVars, holdVars, Submitted,
        NoneSleepsInVain, CallerSleeps, OwnerSleeps, FailedStart
  <1>4. ASSUME NEW t \in Transfers, EndTransfer(t)
        PROVE  (Submitted /\ NoneSleepsInVain)'
    BY <1>4
    DEF EndTransfer, Returned, eventFrame, callerVars, bufVars, holdVars, Submitted,
        NoneSleepsInVain, CallerSleeps, OwnerSleeps, FailedStart
  <1>5. ASSUME NEW t \in Transfers, LoseDevice(t)
        PROVE  (Submitted /\ NoneSleepsInVain)'
    BY <1>5
    DEF LoseDevice, Returned, eventFrame, callerVars, bufVars, holdVars, Submitted,
        NoneSleepsInVain, CallerSleeps, OwnerSleeps, FailedStart
  <1>6. ASSUME AppendPacket
        PROVE  (Submitted /\ NoneSleepsInVain)'
    BY <1>6
    DEF AppendPacket, Goto, Swap, Broadcast, eventFrame, callerVars, holdVars, Submitted,
        NoneSleepsInVain, CallerSleeps, OwnerSleeps, FailedStart
  <1>7. ASSUME Resubmit
        PROVE  (Submitted /\ NoneSleepsInVain)'
    BY <1>7
    DEF Resubmit, Goto, eventFrame, callerVars, bufVars, holdVars, Submitted,
        NoneSleepsInVain, CallerSleeps, OwnerSleeps, FailedStart
  <1>8. ASSUME Submit
        PROVE  (Submitted /\ NoneSleepsInVain)'
    BY <1>8
    DEF Submit, Goto, eventFrame, callerVars, bufVars, holdVars, Submitted, NoneSleepsInVain,
        CallerSleeps, OwnerSleeps, FailedStart
  <1>9. ASSUME DeleteTransfer
        PROVE  (Submitted /\ NoneSleepsInVain)'
    BY <1>9
    DEF DeleteTransfer, Goto, Broadcast, eventFrame, callerVars, bufVars, holdVars,
        Submitted, NoneSleepsInVain, CallerSleeps, OwnerSleeps, FailedStart
  <1> QED
    BY <1>1, <1>2, <1>3, <1>4, <1>5, <1>6, <1>7, <1>8, <1>9 DEF Event

\* the caller goes to sleep in a running stream, when it has seen what is held
LEMMA CallerWakes ==
    ASSUME IInv, Submitted, NoneSleepsInVain, Caller
    PROVE  (Submitted /\ NoneSleepsInVain)'
  <1> USE DEF IInv, PcTypes, DataTypes, Life, ThreadNames, TransferStates
  <1>1. ASSUME CheckFrame
        PROVE  (Submitted /\ NoneSleepsInVain)'
    BY <1>1
    DEF CheckFrame, NoNews, callerFrame, bufVars, holdVars, cameraVars, Submitted,
        NoneSleepsInVain, CallerSleeps, OwnerSleeps, FailedStart
  <1>2. ASSUME CallUser
        PROVE  (Submitted /\ NoneSleepsInVain)'
    BY <1>2
    DEF CallUser, Goto, callerFrame, bufVars, holdVars, cameraVars, Submitted,
        NoneSleepsInVain, CallerSleeps, OwnerSleeps, FailedStart
  <1>3. ASSUME ReturnUser
        PROVE  (Submitted /\ NoneSleepsInVain)'
    BY <1>3
    DEF ReturnUser, Goto, callerFrame, bufVars, holdVars, cameraVars, callerVars, Submitted,
        NoneSleepsInVain, CallerSleeps, OwnerSleeps, FailedStart
  <1> QED
    BY <1>1, <1>2, <1>3 DEF Caller

\* the owner goes to sleep while a transfer is left, and broadcasts before it joins
LEMMA OwnerWakes ==
    ASSUME IInv, Submitted, NoneSleepsInVain, Owner
    PROVE  (Submitted /\ NoneSleepsInVain)'
  <1> USE DEF IInv, PcTypes, DataTypes, Life, ThreadNames, TransferStates
  <1>1. ASSUME StartStreaming
        PROVE  (Submitted /\ NoneSleepsInVain)'
    BY <1>1
    DEF StartStreaming, cameraVars, Submitted, NoneSleepsInVain, CallerSleeps, OwnerSleeps,
        FailedStart
  <1>2. ASSUME SubmitTransfer
        PROVE  (Submitted /\ NoneSleepsInVain)'
    BY <1>2
    DEF SubmitTransfer, ownerFrame, holdVars, callerVars, cameraVars, Submitted,
        NoneSleepsInVain, CallerSleeps, OwnerSleeps, FailedStart
  <1>3. ASSUME StopStreaming
        PROVE  (Submitted /\ NoneSleepsInVain)'
    BY <1>3
    DEF StopStreaming, Goto, ownerRest, ownerFrame, holdVars, callerVars, cameraVars,
        Submitted, NoneSleepsInVain, CallerSleeps, OwnerSleeps, FailedStart
  <1>4. ASSUME CloseStream
        PROVE  (Submitted /\ NoneSleepsInVain)'
    BY <1>4
    DEF CloseStream, Goto, ownerRest, ownerFrame, holdVars, callerVars, cameraVars,
        Submitted, NoneSleepsInVain, CallerSleeps, OwnerSleeps, FailedStart
  <1>5. ASSUME StopStream
        PROVE  (Submitted /\ NoneSleepsInVain)'
    BY <1>5
    DEF StopStream, Goto, ownerRest, ownerFrame, holdVars, callerVars, cameraVars, Submitted,
        NoneSleepsInVain, CallerSleeps, OwnerSleeps, FailedStart
  <1>6. ASSUME CancelTransfers
        PROVE  (Submitted /\ NoneSleepsInVain)'
    BY <1>6
    DEF CancelTransfers, AwaitTransfers, Goto, Broadcast, ownerRest, ownerFrame, holdVars,
        callerVars, cameraVars, Submitted, NoneSleepsInVain, CallerSleeps, OwnerSleeps,
        FailedStart
  <1>7. ASSUME WakeStop
        PROVE  (Submitted /\ NoneSleepsInVain)'
    BY <1>7
    DEF WakeStop, AwaitTransfers, Goto, Broadcast, ownerRest, ownerFrame, holdVars,
        callerVars, cameraVars, Submitted, NoneSleepsInVain, CallerSleeps, OwnerSleeps,
        FailedStart
  <1>8. ASSUME JoinCaller
        PROVE  (Submitted /\ NoneSleepsInVain)'
    BY <1>8
    DEF JoinCaller, ownerRest, ownerFrame, holdVars, callerVars, cameraVars, Submitted,
        NoneSleepsInVain, CallerSleeps, OwnerSleeps, FailedStart
  <1>9. ASSUME FreeStream
        PROVE  (Submitted /\ NoneSleepsInVain)'
    BY <1>9
    DEF FreeStream, Goto, ownerFrame, holdVars, callerVars, cameraVars, Submitted,
        NoneSleepsInVain, CallerSleeps, OwnerSleeps, FailedStart
  <1> QED
    BY <1>1, <1>2, <1>3, <1>4, <1>5, <1>6, <1>7, <1>8, <1>9 DEF Owner

\* No thread sleeps on cb_cond in vain: _uvc_user_caller sleeps (1577-1592) only when it
\* has seen the frame that is held, in a stream that runs or whose end is still to be
\* broadcast; uvc_stream_stop sleeps (1769-1780) only while a transfer is left, one that
\* comes back if the cable is in.  However the swaps, the transfers that come back and the
\* stop interleave, what is left to go wrong is a start that failed ("@todo clean up") and
\* a transfer that could not be submitted again after the cable was pulled.
THEOREM WakeupsComeInTime ==
    ASSUME Reliable
    PROVE  Spec => []NoneSleepsInVain
  <1>1. Init => Submitted /\ NoneSleepsInVain
    BY DEF Init, Submitted, NoneSleepsInVain, CallerSleeps, OwnerSleeps
  <1>2. IInv /\ Submitted /\ NoneSleepsInVain /\ [Next]_vars => (Submitted /\ NoneSleepsInVain)'
    <2> SUFFICES ASSUME IInv, Submitted, NoneSleepsInVain, [Next]_vars
                 PROVE  (Submitted /\ NoneSleepsInVain)'
      OBVIOUS
    <2>1. CASE Unplug \/ UNCHANGED vars
      BY <2>1
      DEF Unplug, vars, bufVars, holdVars, callerVars, cameraVars, Submitted,
          NoneSleepsInVain, CallerSleeps, OwnerSleeps, FailedStart
    <2> QED
      BY <2>1, EventWakes, CallerWakes, OwnerWakes DEF Next
  <1> QED
    BY <1>1, <1>2, InvariantHolds, PTL DEF Spec

===============================================================================
