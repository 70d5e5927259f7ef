------------------------------ MODULE MCRecording ------------------------------
(* Small instances of Recording for TLC. *)
EXTENDS Recording

===============================================================================
