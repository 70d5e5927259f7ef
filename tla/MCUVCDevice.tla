---------------------------- MODULE MCUVCDevice -----------------------------
(* UVCDevice for TLC. *)
EXTENDS UVCDevice, TLC
=============================================================================
