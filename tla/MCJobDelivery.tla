---------------------------- MODULE MCJobDelivery ----------------------------
(* Constant values for the TLC runs of JobDelivery.                        *)
EXTENDS JobDelivery

CONSTANTS j1, j2, s1, s2

=============================================================================
