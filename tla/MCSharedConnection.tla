------------------------- MODULE MCSharedConnection -------------------------
(* Constant values for the TLC runs of SharedConnection.                   *)
EXTENDS SharedConnection

CONSTANTS w1, f1, f2, x1, x2, s1

=============================================================================
