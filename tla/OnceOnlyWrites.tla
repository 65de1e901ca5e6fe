--------------------------- MODULE OnceOnlyWrites ---------------------------
(***************************************************************************)
(* What three parts of the system promise, with no queue, no retry and no  *)
(* crash in sight: something is submitted once, and its effect takes place *)
(* at most once, never without a submission.  For the write pipeline it is *)
(* a queued write and its business change; for indexing, a recorded upload *)
(* and its file code; for approvals, an approved command and its run.      *)
(***************************************************************************)
EXTENDS Naturals

CONSTANT Msgs

VARIABLES
    submitted,   \* what has been handed over
    effects      \* [Msgs -> Nat]: how often each has taken effect

absVars == <<submitted, effects>>

Init == submitted = {} /\ effects = [m \in Msgs |-> 0]

Submit(m) ==
    /\ m \notin submitted
    /\ submitted' = submitted \cup {m}
    /\ UNCHANGED effects

TakeEffect(m) ==
    /\ m \in submitted
    /\ effects[m] = 0
    /\ effects' = [effects EXCEPT ![m] = 1]
    /\ UNCHANGED submitted

Next == \E m \in Msgs : Submit(m) \/ TakeEffect(m)

Spec == Init /\ [][Next]_absVars

=============================================================================
