---------------------------- MODULE MCEventOutbox ----------------------------
(* The events and workers that TLC uses to check EventOutbox. *)
EXTENDS EventOutbox, TLC

CONSTANTS e1, e2, w1, w2

TwoEvents  == {e1, e2}
TwoWorkers == {w1, w2}

\* Workers are interchangeable.
Symmetry == Permutations(Workers)
=============================================================================
