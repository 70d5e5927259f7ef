----------------------------- MODULE FrameChannel -----------------------------
(***************************************************************************)
(* What a part of the frame path promises to the callback at its end: a     *)
(* lossy channel.  Frames may be skipped, but none is invented, handed over *)
(* twice or overtaken by an older one, and one call ends before the next.   *)
(***************************************************************************)
EXTENDS Naturals

VARIABLES
    sent,       \* number of the last frame that entered
    delivered,  \* number of the last frame the callback was called with
    busy        \* the callback has not returned yet

vars == <<sent, delivered, busy>>

Init == sent = 0 /\ delivered = 0 /\ busy = FALSE

Send == sent' = sent + 1 /\ UNCHANGED <<delivered, busy>>

Deliver ==
    /\ ~busy /\ busy' = TRUE
    /\ delivered' \in delivered + 1 .. sent
    /\ UNCHANGED sent

Return == busy /\ busy' = FALSE /\ UNCHANGED <<sent, delivered>>

Next == Send \/ Deliver \/ Return

Spec == Init /\ [][Next]_vars

===============================================================================
