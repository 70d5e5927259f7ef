------------------------------ MODULE MCUVCStream ------------------------------
(* Small instances of UVCStream for TLC. *)
EXTENDS UVCStream

CONSTANTS t1, t2

Two == {t1, t2}

===============================================================================
