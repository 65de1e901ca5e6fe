-------------------------- MODULE MCUploadIndexing --------------------------
(* Constant values for the TLC runs of UploadIndexing.                     *)
EXTENDS UploadIndexing

CONSTANTS u1, u2, x1, x2

=============================================================================
