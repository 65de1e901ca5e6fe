------------------------- MODULE MCCommandExecution -------------------------
(* Two requests for one action, of which one can be approved, and one for  *)
(* an action that the bus cannot build again.                              *)
EXTENDS CommandExecution

CONSTANTS a1, a2, r3

MCActionOf == [r \in Requests |-> IF r = r3 THEN a2 ELSE a1]

=============================================================================
