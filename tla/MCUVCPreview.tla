---------------------------- MODULE MCUVCPreview ----------------------------
(* Small instances of UVCPreview for TLC. *)
EXTENDS UVCPreview, TLC

Frames2 == 1..2
Frames3 == 1..3
Frames5 == 1..5
Nv21 == {"PIXEL_FORMAT_NV21"}
Raw == {"PIXEL_FORMAT_RAW"}

=============================================================================
