------------------------------- MODULE UVCStream -------------------------------
(***************************************************************************)
(* One video stream of libuvc (stream.c): the transfers that are in flight,  *)
(* the double buffer frames are put together in, the thread that hands them  *)
(* to the user's callback, and the start and stop of all this.               *)
(*                                                                         *)
(*   "owner"   the thread that starts and stops streaming (do_preview)       *)
(*   "event"   libusb's event thread, runs _uvc_stream_callback              *)
(*   "caller"  _uvc_user_caller                                             *)
(*                                                                         *)
(* A critical section of cb_mutex is one step, as is every access to running *)
(* and hold_bfh_err outside it.  A transfer carries one packet.              *)
(***************************************************************************)
EXTENDS Integers, Sequences

CONSTANTS
    Transfers,   \* strmh->transfers, LIBUVC_NUM_TRANSFER_BUFS of them
    Parts,       \* packets the camera sends for one frame
    SeqSize,     \* 2^32: seq and hold_seq are uint32_t
    Losses,      \* "status": a packet arrives with a bad status,
                 \* "header": with the error bit set in its header
    Statuses,    \* other ends of a transfer: "TIMED_OUT", "ERROR"
    Unplugs,     \* the cable may be pulled
    SubmitFails, \* libusb_submit_transfer may fail while starting
    MaxFrames,   \* bound: frames the camera sends
    MaxStarts    \* bound: streams opened one after the other

ASSUME StreamAssumption ==
    /\ Transfers # {}
    /\ Parts \in Nat \ {0} /\ SeqSize \in Nat \ {0, 1}
    /\ MaxFrames \in Nat \ {0} /\ MaxStarts \in Nat
    /\ Losses \subseteq {"status", "header"} /\ Statuses \subseteq {"TIMED_OUT", "ERROR"}
    /\ {Unplugs, SubmitFails} \subseteq BOOLEAN

VARIABLES
    open,        \* strmh is allocated
    running,
    transfers,   \* "null", "new", "inflight", "cancelled", "callback" or "dead"
    current,     \* transfer the event thread is in the callback of
    packet,      \* its payload: <<frame, part>>
    outbuf,      \* packets gathered; their number stands for got_bytes
    bfh_err, fid, seq,
    hold,        \* holdbuf, hold_seq, hold_bfh_err; number: which swap it was
    frame,       \* strmh->frame, what the user's callback is given
    last_seq,
    cb_cond,     \* threads asleep on it
    pc,
    camera,      \* packet the camera sends next
    plugged,
    published,   \* swaps so far
    given,       \* number of the frame last handed to the user
    starts

bufVars    == <<packet, outbuf, bfh_err, fid, seq>>
holdVars   == <<hold, published>>
callerVars == <<frame, last_seq, given>>
cameraVars == <<camera, plugged>>
vars == <<open, running, transfers, current, bufVars, holdVars, callerVars, cb_cond, pc,
          cameraVars, starts>>

NoFrame == [packets |-> <<>>, number |-> 0]
NoHold == [packets |-> <<>>, number |-> 0, seq |-> 0, err |-> FALSE]

Init ==
    /\ open = FALSE /\ running = FALSE
    /\ transfers = [t \in Transfers |-> "null"]
    /\ current = CHOOSE t \in Transfers : TRUE
    /\ packet = <<1, 1>> /\ outbuf = <<>> /\ bfh_err = FALSE /\ fid = 0 /\ seq = 0
    /\ hold = NoHold /\ published = 0
    /\ frame = NoFrame /\ last_seq = 0 /\ given = 0
    /\ cb_cond = {}
    /\ pc = [owner |-> "idle", event |-> "idle", caller |-> "none"]
    /\ camera = <<1, 1>> /\ plugged = TRUE
    /\ starts = 0

Goto(t, from, to) == pc[t] = from /\ pc' = [pc EXCEPT ![t] = to]

\* slip: the sleepers are not woken
NoBroadcast == UNCHANGED cb_cond

Broadcast == cb_cond' = {}

-------------------------------------------------------------------------------
(* The event thread *)

eventFrame == <<open, callerVars, plugged, starts>>

\* slip: got_bytes is not reset
SwapKeepsBytes(packets) ==
    /\ published' = published + 1
    /\ hold' = [packets |-> packets, number |-> published + 1, seq |-> seq, err |-> bfh_err]
    /\ outbuf' = packets /\ bfh_err' = FALSE /\ seq' = (seq + 1) % SeqSize
    /\ Broadcast

\* _uvc_swap_buffers: what has been gathered becomes the frame that is held
Swap(packets) ==
    /\ published' = published + 1
    /\ hold' = [packets |-> packets, number |-> published + 1, seq |-> seq, err |-> bfh_err]
    /\ outbuf' = <<>> /\ bfh_err' = FALSE /\ seq' = (seq + 1) % SeqSize
    /\ Broadcast

\* the camera goes on to its next packet; the frame id bit is the frame's parity
NextPacket ==
    camera' = IF camera[2] < Parts THEN <<camera[1], camera[2] + 1>>
              ELSE <<camera[1] + 1, 1>>
\* the caller looks at hold_seq before SeqSize frames have passed it by
Timely == seq # last_seq \/ "caller" \in cb_cond
Sends == plugged /\ camera[1] <= MaxFrames /\ Timely

\* a transfer comes back and _uvc_stream_callback begins
Returned(t, states) ==
    /\ transfers[t] \in states
    /\ pc["event"] = "idle"
    /\ current' = t
    /\ transfers' = [transfers EXCEPT ![t] = "callback"]

(* _uvc_process_payload_iso up to the memcpy.  A changed frame id bit ends the *)
(* frame before, should its EOF have been lost.                               *)
ReceivePacket(t) ==
    /\ Sends
    /\ Returned(t, {"inflight", "cancelled"})
    /\ pc' = [pc EXCEPT !["event"] = "append"]
    /\ packet' = camera /\ NextPacket
    /\ fid' = camera[1] % 2
    /\ IF fid # fid' /\ outbuf # <<>>
         THEN Swap(outbuf)
         ELSE UNCHANGED <<outbuf, bfh_err, seq, holdVars, cb_cond>>
    /\ UNCHANGED <<eventFrame, running>>

\* slip: the damage is not noted
IgnoreBadStatus == UNCHANGED bfh_err

\* pkt->status # 0
MarkError == bfh_err' = TRUE

\* a packet that is skipped: bad status, or error bit in the header
SkipPacket(t) ==
    /\ Sends
    /\ Returned(t, {"inflight", "cancelled"})
    /\ pc' = [pc EXCEPT !["event"] = "resubmit"]
    /\ NextPacket
    /\ \/ "status" \in Losses /\ MarkError
       \/ "header" \in Losses /\ UNCHANGED bfh_err
    /\ UNCHANGED <<eventFrame, running, packet, outbuf, fid, seq, holdVars, cb_cond>>

\* a transfer whose packet is empty, or that timed out: nothing to process
EmptyTransfer(t) ==
    /\ plugged \/ "TIMED_OUT" \in Statuses
    /\ Returned(t, {"inflight"})
    /\ pc' = [pc EXCEPT !["event"] = "resubmit"]
    /\ UNCHANGED <<eventFrame, running, bufVars, holdVars, cb_cond, camera>>

\* LIBUSB_TRANSFER_CANCELLED, and LIBUSB_TRANSFER_ERROR
EndTransfer(t) ==
    /\ Returned(t, IF "ERROR" \in Statuses THEN {"inflight", "cancelled"} ELSE {"cancelled"})
    /\ pc' = [pc EXCEPT !["event"] = "delete"]
    /\ UNCHANGED <<eventFrame, running, bufVars, holdVars, cb_cond, camera>>

\* LIBUSB_TRANSFER_NO_DEVICE
LoseDevice(t) ==
    /\ ~plugged
    /\ Returned(t, {"inflight", "cancelled"})
    /\ running' = FALSE
    /\ pc' = [pc EXCEPT !["event"] = "delete"]
    /\ UNCHANGED <<eventFrame, bufVars, holdVars, cb_cond, camera>>

\* the memcpy; a packet with EOF publishes the frame
AppendPacket ==
    /\ Goto("event", "append", "resubmit")
    /\ IF packet[2] = Parts
         THEN Swap(Append(outbuf, packet))
         ELSE /\ outbuf' = Append(outbuf, packet)
              /\ UNCHANGED <<bfh_err, seq, holdVars, cb_cond>>
    /\ UNCHANGED <<eventFrame, running, transfers, current, packet, fid, camera>>

\* running is read here, and the transfer submitted later
Resubmit ==
    /\ Goto("event", "resubmit", IF running THEN "submit" ELSE "delete")
    /\ UNCHANGED <<eventFrame, running, transfers, current, bufVars, holdVars, cb_cond, camera>>

\* the result of libusb_submit_transfer is not looked at
Submit ==
    /\ Goto("event", "submit", "idle")
    /\ transfers' = [transfers EXCEPT ![current] = IF plugged THEN "inflight" ELSE "dead"]
    /\ UNCHANGED <<eventFrame, running, current, bufVars, holdVars, cb_cond, camera>>

\* _uvc_delete_transfer
DeleteTransfer ==
    /\ Goto("event", "delete", "idle")
    /\ transfers' = [transfers EXCEPT ![current] = "null"]
    /\ Broadcast
    /\ UNCHANGED <<eventFrame, running, current, bufVars, holdVars, camera>>

Event ==
    \/ \E t \in Transfers :
         ReceivePacket(t) \/ SkipPacket(t) \/ EmptyTransfer(t) \/ EndTransfer(t) \/ LoseDevice(t)
    \/ AppendPacket \/ Resubmit \/ Submit \/ DeleteTransfer

-------------------------------------------------------------------------------
(* _uvc_user_caller *)

callerFrame == <<open, running, transfers, current, bufVars, holdVars, cameraVars, starts>>

\* slip: off by one
NotNewer == running /\ last_seq > hold.seq

\* slip: numbers compared by size, which goes wrong only when they wrap
NotGreater == running /\ last_seq >= hold.seq

NoNews == running /\ last_seq = hold.seq

\* the critical section: sleep, leave, or take the frame that is held
CheckFrame ==
    /\ pc["caller"] = "check" /\ "caller" \notin cb_cond
    /\ \/ /\ NoNews
          /\ cb_cond' = cb_cond \cup {"caller"}
          /\ UNCHANGED <<pc, frame, last_seq>>
       \/ /\ ~running
          /\ pc' = [pc EXCEPT !["caller"] = "exited"]
          /\ UNCHANGED <<cb_cond, frame, last_seq>>
       \/ /\ running /\ ~NoNews
          /\ pc' = [pc EXCEPT !["caller"] = "test"]
          /\ last_seq' = hold.seq
          /\ frame' = IF hold.err THEN frame
                      ELSE [packets |-> hold.packets, number |-> hold.number]
          /\ UNCHANGED cb_cond
    /\ UNCHANGED <<callerFrame, given>>

\* hold_bfh_err is read again, without cb_mutex, and user_cb called
CallUser ==
    /\ Goto("caller", "test", IF hold.err THEN "check" ELSE "callback")
    /\ given' = IF hold.err THEN given ELSE frame.number
    /\ UNCHANGED <<callerFrame, cb_cond, frame, last_seq>>

ReturnUser ==
    /\ Goto("caller", "callback", "check")
    /\ UNCHANGED <<callerFrame, cb_cond, callerVars>>

Caller == CheckFrame \/ CallUser \/ ReturnUser

-------------------------------------------------------------------------------
(* Starting and stopping *)

ownerFrame == <<current, packet, holdVars, callerVars, cameraVars>>

\* uvc_start_streaming_bandwidth: open the stream, allocate the transfers, create
\* the caller
StartStreaming ==
    /\ starts < MaxStarts /\ plugged
    /\ pc["owner"] = "idle"
    /\ pc' = [pc EXCEPT !["owner"] = "submit", !["caller"] = "check"]
    /\ open' = TRUE /\ running' = TRUE
    /\ transfers' = [t \in Transfers |-> "new"]
    /\ outbuf' = <<>> /\ bfh_err' = FALSE /\ fid' = 0 /\ seq' = 0
    /\ hold' = [NoHold EXCEPT !.number = published]
    /\ frame' = [NoFrame EXCEPT !.number = given] /\ last_seq' = 0
    /\ cb_cond' = {}
    /\ starts' = starts + 1
    /\ UNCHANGED <<current, packet, published, given, cameraVars>>

\* one round of the loop that submits the transfers; on failure the thread and the
\* transfers that are in flight stay as they are ("@todo clean up")
SubmitTransfer ==
    /\ pc["owner"] = "submit"
    /\ \/ \E t \in Transfers :
            /\ transfers[t] = "new" /\ plugged
            /\ transfers' = [transfers EXCEPT ![t] = "inflight"]
            /\ UNCHANGED <<running, pc>>
       \/ /\ \E t \in Transfers : transfers[t] = "new"
          /\ SubmitFails \/ ~plugged
          /\ running' = FALSE
          /\ pc' = [pc EXCEPT !["owner"] = "close"]
          /\ UNCHANGED transfers
       \/ /\ \A t \in Transfers : transfers[t] # "new"
          /\ pc' = [pc EXCEPT !["owner"] = "streaming"]
          /\ UNCHANGED <<running, transfers>>
    /\ UNCHANGED <<open, ownerFrame, outbuf, bfh_err, fid, seq, cb_cond, starts>>

ownerRest == <<open, ownerFrame, outbuf, bfh_err, fid, seq, starts>>

\* uvc_stop_streaming, called by do_preview at any time
StopStreaming ==
    /\ Goto("owner", "streaming", "close")
    /\ UNCHANGED <<ownerRest, running, transfers, cb_cond>>

\* uvc_stream_close calls uvc_stream_stop only for a running stream
CloseStream ==
    /\ Goto("owner", "close", IF running THEN "stop" ELSE "free")
    /\ UNCHANGED <<ownerRest, running, transfers, cb_cond>>

\* uvc_stream_stop looks at running again
StopStream ==
    /\ Goto("owner", "stop", IF running THEN "cancel" ELSE "free")
    /\ running' = FALSE
    /\ UNCHANGED <<ownerRest, transfers, cb_cond>>

\* the wait for the transfers: leave the loop and wake the caller, or sleep
AwaitTransfers(from, states) ==
    LET done == \A t \in Transfers : states[t] = "null"
    IN /\ Goto("owner", from, IF done THEN "join" ELSE "wait")
       /\ IF done THEN Broadcast ELSE cb_cond' = cb_cond \cup {"owner"}

\* libusb_cancel_transfer finds the transfers that are in flight only
CancelTransfers ==
    /\ transfers' = [t \in Transfers |-> IF transfers[t] = "inflight" THEN "cancelled"
                                                                      ELSE transfers[t]]
    /\ AwaitTransfers("cancel", transfers')
    /\ UNCHANGED <<ownerRest, running>>

WakeStop ==
    /\ "owner" \notin cb_cond
    /\ AwaitTransfers("wait", transfers)
    /\ UNCHANGED <<ownerRest, running, transfers>>

\* slip: uvc_stream_stop does not wait for the thread
LeaveCaller ==
    /\ Goto("owner", "join", "free")
    /\ UNCHANGED <<ownerRest, running, transfers, cb_cond>>

JoinCaller ==
    /\ pc["owner"] = "join" /\ pc["caller"] = "exited"
    /\ pc' = [pc EXCEPT !["owner"] = "free", !["caller"] = "none"]
    /\ UNCHANGED <<ownerRest, running, transfers, cb_cond>>

\* the rest of uvc_stream_close
FreeStream ==
    /\ Goto("owner", "free", "idle")
    /\ open' = FALSE
    /\ UNCHANGED <<ownerFrame, running, transfers, outbuf, bfh_err, fid, seq, cb_cond, starts>>

Owner ==
    \/ StartStreaming \/ SubmitTransfer \/ StopStreaming \/ CloseStream
    \/ StopStream \/ CancelTransfers \/ WakeStop \/ JoinCaller \/ FreeStream

Unplug ==
    /\ Unplugs /\ plugged
    /\ plugged' = FALSE
    /\ UNCHANGED <<open, running, transfers, current, bufVars, holdVars, callerVars, cb_cond,
                   pc, camera, starts>>

\* A thread left behind would go on in memory that was freed: ClosedIsQuiet does
\* not hold then, and what comes after is not modelled.
Next ==
    \/ open /\ Event
    \/ open /\ Caller
    \/ Owner \/ Unplug

Spec == Init /\ [][Next]_vars

(* The threads are scheduled, user_cb returns and a transfer in flight comes      *)
(* back.  When streaming starts and stops is left open.                         *)
Fairness ==
    /\ WF_vars(open /\ Event) /\ WF_vars(open /\ Caller)
    /\ WF_vars(pc["owner"] \notin {"idle", "streaming"} /\ Owner)

LiveSpec == Spec /\ Fairness

-------------------------------------------------------------------------------
(* Properties *)

Packets == Nat \X (1..Parts)

\* Types of struct uvc_stream_handle (libuvc_internal.h 251-281); no packet is in
\* both buffers: got_bytes starts anew when they are swapped (585-609).
TypeOK ==
    /\ {open, running, bfh_err, plugged} \subseteq BOOLEAN
    /\ transfers \in [Transfers -> {"null", "new", "inflight", "cancelled", "callback", "dead"}]
    /\ current \in Transfers /\ packet \in Packets /\ camera \in Packets
    /\ outbuf \in Seq(Packets)
    /\ \A i \in DOMAIN outbuf : \A j \in DOMAIN hold.packets : outbuf[i] # hold.packets[j]
    /\ frame.packets \in Seq(Packets)
    /\ fid \in 0..1 /\ seq \in 0 .. SeqSize - 1 /\ last_seq \in 0 .. SeqSize - 1
    /\ hold.packets \in Seq(Packets) /\ hold.seq \in 0 .. SeqSize - 1 /\ hold.err \in BOOLEAN
    /\ published \in 0..MaxFrames /\ given \in 0..MaxFrames
    /\ cb_cond \subseteq {"owner", "caller"}
    /\ pc["owner"] \in {"idle", "submit", "streaming", "close", "stop", "cancel", "wait",
                        "join", "free"}
    /\ pc["event"] \in {"idle", "append", "resubmit", "submit", "delete"}
    /\ pc["caller"] \in {"none", "check", "test", "callback", "exited"}
    /\ starts \in 0..MaxStarts

\* "Closes all streams, ends threads" (1715): when the stream has been freed no
\* transfer of it is in flight, no callback runs and its thread has ended.  Stated
\* of every way uvc_stream_close is reached (1719-1832).
ClosedIsQuiet ==
    ~open => /\ \A t \in Transfers : transfers[t] \notin {"inflight", "cancelled", "callback"}
             /\ pc["event"] = "idle" /\ pc["caller"] = "none"

\* uvc_stream_stop ends: every transfer is deleted by the event thread, also one
\* that was submitted again after it had been cancelled, and every thread that
\* sleeps on cb_cond is woken (1737-1792, 950-957).
StopReturns == pc["owner"] = "stop" ~> pc["owner"] = "idle"

\* As long as every loss comes with a bad status, a frame given to the user is the
\* end of one frame of the camera, packet after packet to the last: no gap, no
\* missing end and never parts of two frames, although the flag for damage and the
\* frame id bit have a single value each (585-609, 798-806, 844-850, 1585-1595).
NoMixture ==
    pc["caller"] = "callback" /\ frame.packets # <<>> =>
        \E n \in 1..MaxFrames, first \in 1..Parts :
            frame.packets = [p \in 1 .. Parts - first + 1 |-> <<n, first + p - 1>>]

\* Without damage the stream is a lossy channel: user_cb is called with frames in
\* the order they were published, each at most once (585-609, 1571-1599).
Channel == INSTANCE FrameChannel
    WITH sent <- published, delivered <- given, busy <- pc["caller"] = "callback"
ImplementsChannel == Channel!Spec

\* The latest frame of a running stream reaches user_cb unless a newer one takes
\* its place: the caller never sleeps through a swap, also not through the one at
\* which seq wraps to 0.  Not so for the first frame of a stream, whose number is 0 as
\* long as last_seq is: that one is never given (585-609, 1571-1599).
GivesLatest ==
    \A n \in 1..MaxFrames :
        hold.number = n /\ (hold.seq # 0 \/ last_seq # 0) /\ ~hold.err ~>
            given = n \/ hold.number # n \/ ~running

===============================================================================
