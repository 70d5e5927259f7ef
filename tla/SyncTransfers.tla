---------------------------- MODULE SyncTransfers ----------------------------
(***************************************************************************)
(* What libusb promises to threads that make synchronous transfers on one  *)
(* handle (libusb_control_transfer, libusb_open, libusb_close), without    *)
(* saying who handles the events: a call is pending until its transfer has *)
(* been completed, once, and returns only then; the handle is neither      *)
(* opened nor closed under a call.                                         *)
(***************************************************************************)
CONSTANT Callers

VARIABLES
    open,       \* is there a handle?
    call        \* [Callers -> {"idle", "pending", "done"}]

vars == <<open, call>>

Idle == \A c \in Callers : call[c] = "idle"

Init == open = FALSE /\ call = [c \in Callers |-> "idle"]

Goes(c, from, to) == /\ call[c] = from
                     /\ call' = [call EXCEPT ![c] = to]
                     /\ UNCHANGED open

Begin(c)    == open /\ Goes(c, "idle", "pending")
Complete(c) == open /\ Goes(c, "pending", "done")
Return(c)   == open /\ Goes(c, "done", "idle")

OpenHandle  == ~open /\ Idle /\ open' = TRUE /\ UNCHANGED call
CloseHandle == open /\ Idle /\ open' = FALSE /\ UNCHANGED call

Next == \/ \E c \in Callers : Begin(c) \/ Complete(c) \/ Return(c)
        \/ OpenHandle
        \/ CloseHandle

Spec == Init /\ [][Next]_vars
=============================================================================
