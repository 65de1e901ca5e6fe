--------------------------- MODULE MCWritePipeline ---------------------------
(* Constant values for the TLC runs of WritePipeline.                      *)
EXTENDS WritePipeline

CONSTANTS m1, m2, r1, r2

=============================================================================
