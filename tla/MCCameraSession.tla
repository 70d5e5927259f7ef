---------------------------- MODULE MCCameraSession ----------------------------
(* Small instances of CameraSession for TLC. *)
EXTENDS CameraSession

===============================================================================
