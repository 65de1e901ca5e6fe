---------------------------- MODULE MCDecodeQuota ----------------------------
(* The decode commands that TLC uses to check DecodeQuota. *)
EXTENDS DecodeQuota, TLC

CONSTANTS r1, r2

TwoRequests == {r1, r2}

\* Requests are interchangeable.
Symmetry == Permutations(Requests)
=============================================================================
