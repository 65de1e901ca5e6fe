----------------------------- MODULE MCCrdbSync -----------------------------
(* The keys, instances and bounds that TLC uses to check CrdbSync. *)
EXTENDS CrdbSync

CONSTANTS k1, k2, k3, s1, s2

ThreeKeys     == {k1, k2, k3}
OneUnsendable == {k3}
TwoSyncers    == {s1, s2}
=============================================================================
