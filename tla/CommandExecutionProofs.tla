----------------------- MODULE CommandExecutionProofs -----------------------
(***************************************************************************)
(* Theorems about CommandExecution, for any requests and actions, any      *)
(* retry limit and any number of failures and restarts: the type           *)
(* invariant, that approving and queueing are one step, that a command     *)
(* takes effect once, what a hollow execution takes, that the tables       *)
(* agree, and that queueing and executing implement OnceOnlyWrites.        *)
(***************************************************************************)
EXTENDS CommandExecution, TLAPS

-----------------------------------------------------------------------------
(* The inductive invariant.                                                *)

Busy    == Steps \ {"idle", "leave"}
Before  == {"claim", "revert", "receipt", "start", "handle"}
Failing == {"bad", "recordFailed", "release", "retry"}

\* The entry being worked on is 'executing'; an executed execution has an executed entry.
HoldInv ==
    /\ pc \in Busy => outbox[entry] = "executing"
    /\ \A a \in Actions : execution[a] = "executed" => outbox[a] = "executed"

\* An entry's row is there once somebody's request was approved for it.
QueueInv ==
    /\ \A a \in Actions, r \in Requests : <<a, r>> \in asked => a = ActionOf[r]
    /\ \A a \in Actions, r \in Requests : <<a, r>> \in asked => outbox[a] # "none"
    /\ GrantedIsQueued

\* An attempt ends with a success, with one more failure on the row, or for ever.
CountOf(a) ==
    /\ outbox[a] # "failed" => retries[a] < MaxRetries
    /\ \/ outbox[a] \in {"none", "pending", "failed"}
       \/ entry = a /\ pc \in Before
       => did[a] = 0 /\ runs[a] <= retries[a]
    /\ entry = a /\ pc \in Failing => did[a] = 0
    /\ did[a] <= 1 /\ runs[a] <= retries[a] + 1
CountInv == \A a \in Actions : CountOf(a)

\* What may be marked or recorded as completed.
Ground(a) == did[a] = 1 \/ a \in spoiled
GroundInv ==
    /\ \A a \in Actions : outbox[a] = "executed" \/ receipt[a] = "completed" => Ground(a)
    /\ pc = "ok" => did[entry] = 1
    /\ pc \in {"mark", "leave"} => Ground(entry)
    /\ pc \in {"release", "retry"} /\ records => Ground(entry)
    /\ pc \in {"claim", "receipt", "recordFailed"} => ~records

\* Where the request of an entry can be, as long as nothing has failed.
Places(a) ==
    IF outbox[a] = "executed" THEN {"executed"}
    ELSE IF outbox[a] = "failed" THEN {"failed"}
    ELSE IF outbox[a] = "pending" THEN {"approved", "executing", "failed"}
    ELSE IF pc = "idle" \/ entry # a THEN Granted
    ELSE IF pc \in {"claim", "revert", "receipt", "start"} THEN {"approved", "executing", "failed"}
    ELSE IF pc \in {"handle", "bad"} THEN {"executing", "failed"}
    ELSE IF pc \in {"recordFailed", "release", "retry"} THEN {"failed"}
    ELSE Granted
VerdictInv ==
    \A a \in Actions, r \in Requests :
        <<a, r>> \in asked =>
            /\ outbox[a] = "executed" => approval[r] = "executed"
            /\ approval[r] \in Places(a) \/ a \in Unresolved \/ faults > 0

IInv == TypeOK /\ HoldInv /\ QueueInv /\ CountInv /\ GroundInv /\ VerdictInv

-----------------------------------------------------------------------------
(* The initial states, and the proof obligations step by step.             *)

LEMMA InitInv ==
    ASSUME Init
    PROVE  IInv
<1> USE CommandAssumption DEF Init
<1>1. TypeOK
  <2>1. records \in BOOLEAN
    BY Zenon
  <2> QED
    BY <2>1 DEF TypeOK, Steps
<1>2. HoldInv
  BY DEF HoldInv, Busy
<1>3. QueueInv
  BY DEF QueueInv, GrantedIsQueued, Granted
<1>4. CountInv
  BY DEF CountInv, CountOf, Before, Failing
<1>5. GroundInv
  BY DEF GroundInv
<1>6. VerdictInv
  BY DEF VerdictInv
<1> QED
  BY <1>1, <1>2, <1>3, <1>4, <1>5, <1>6 DEF IInv

WorkerOK ==
    /\ pc \in Steps /\ records \in BOOLEAN
    /\ entry \in IF pc = "idle" THEN {NoEntry} ELSE Actions

\* Where the executor can go.
LEMMA WorkerTypes ==
    ASSUME TypeOK
    PROVE  /\ \A s \in Steps \ {"idle"} : pc # "idle" /\ Goto(s) => WorkerOK'
           /\ Finish => WorkerOK'
           /\ pc # "idle" /\ Leave => WorkerOK'
<1>1. \A s \in Steps \ {"idle"} : pc # "idle" /\ Goto(s) => WorkerOK'
  BY DEF TypeOK, Goto, WorkerOK
<1>2. Finish => WorkerOK'
  <2> SUFFICES ASSUME Finish PROVE WorkerOK'
    OBVIOUS
  <2>1. pc' \in Steps
    BY DEF Finish, Steps
  <2>2. records' \in BOOLEAN
    BY Zenon DEF Finish
  <2>3. entry' \in IF pc' = "idle" THEN {NoEntry} ELSE Actions
    BY DEF Finish
  <2> QED
    BY <2>1, <2>2, <2>3 DEF WorkerOK
<1>3. pc # "idle" /\ Leave => WorkerOK'
  BY <1>1, <1>2 DEF Leave, Steps
<1> QED
  BY <1>1, <1>2, <1>3

\* The types of all but the executor.
DataOK ==
    /\ approval \in [Requests -> {"pending", "approved", "rejected", "executing", "executed",
                                  "failed"}]
    /\ reading \subseteq Requests \X Verdicts
    /\ outbox \in [Actions -> {"none", "pending", "executing", "executed", "failed"}]
    /\ asked \subseteq Actions \X Requests
    /\ retries \in [Actions -> 0..MaxRetries]
    /\ execution \in [Actions -> {"none", "pending", "live", "expired", "executed"}]
    /\ receipt \in [Actions -> {"none", "pending", "completed", "failed"}]
    /\ runs \in [Actions -> Nat] /\ did \in [Actions -> Nat]
    /\ spoiled \subseteq Actions
    /\ faults \in 0..MaxFaults /\ crashes \in 0..MaxCrashes

\* An update of approvals for the entry's requests.
LEMMA MoveTypes ==
    ASSUME TypeOK, NEW from,
           NEW to \in {"executing", "executed", "failed"}, Move(from, to)
    PROVE  /\ approval' \in [Requests -> {"pending", "approved", "rejected", "executing",
                                          "executed", "failed"}]
           /\ \A r \in Requests :
                approval'[r] = IF <<entry, r>> \in asked /\ approval[r] \in from
                                 THEN to ELSE approval[r]
BY DEF TypeOK, Move

\* Every action keeps the types.
LEMMA TypeStep ==
    ASSUME IInv, Next
    PROVE  TypeOK'
<1> SUFFICES DataOK' /\ WorkerOK'
  BY DEF TypeOK, DataOK, WorkerOK
<1> USE CommandAssumption DEF IInv, Set
<1>0. DataOK /\ WorkerOK /\ TypeOK
  BY DEF TypeOK, DataOK, WorkerOK
<1>00. Works \/ Fails => faults' \in 0..MaxFaults
  BY DEF TypeOK, Works, Fails
<1>1. CASE \E r \in Requests, v \in Verdicts : Look(r, v)
  BY <1>1, <1>0 DEF Look, DataOK, WorkerOK, queue, worker, ghosts
<1>2. CASE \E r \in Requests : Approve(r)
  <2>1. PICK r \in Requests : Approve(r)
    BY <1>2
  <2>2. ActionOf[r] \in Actions
    OBVIOUS
  <2> QED
    BY <2>1, <2>2, <1>0, <1>00 DEF Approve, DataOK, WorkerOK, worker, ghosts
<1>3. CASE \E r \in Requests : Reject(r)
  BY <1>3, <1>0, <1>00 DEF Reject, DataOK, WorkerOK, queue, worker, ghosts
<1>4. CASE \E a \in Actions : Pick(a)
  <2>1. PICK a \in Actions : Pick(a)
    BY <1>4
  <2>2. DataOK'
    BY <2>1, <1>0 DEF Pick, DataOK, admins, ghosts
  <2>3. pc' \in Steps /\ entry' \in IF pc' = "idle" THEN {NoEntry} ELSE Actions
    BY <2>1 DEF Pick, Steps
  <2>4. records' \in BOOLEAN
    BY Zenon, <2>1 DEF Pick
  <2> QED
    BY <2>2, <2>3, <2>4 DEF WorkerOK
<1>5. CASE Claim
  <2>1. DataOK'
    BY <1>5, <1>0, <1>00 DEF Claim, DataOK, TypeOK, Steps, admins, queue, ghosts
  <2>2. WorkerOK'
    BY <1>5, WorkerTypes DEF Claim, Steps
  <2> QED
    BY <2>1, <2>2
<1>6. CASE Revert
  <2>1. DataOK'
    BY <1>6, <1>0, <1>00 DEF Revert, DataOK, TypeOK, Steps, admins, ghosts
  <2>2. WorkerOK'
    BY <1>6, WorkerTypes DEF Revert, Steps
  <2> QED
    BY <2>1, <2>2
<1>7. CASE Receipt
  <2>1. DataOK'
    BY <1>7, <1>0, <1>00 DEF Receipt, DataOK, TypeOK, Steps, admins, queue
  <2>2. CASE pc' = "start" /\ records' = TRUE /\ UNCHANGED entry
    <3>1. pc' \in Steps /\ entry' \in IF pc' = "idle" THEN {NoEntry} ELSE Actions
      BY <1>7, <2>2, <1>0 DEF Receipt, WorkerOK, Steps
    <3>2. records' \in BOOLEAN
      BY Zenon, <2>2
    <3> QED
      BY <2>1, <3>1, <3>2 DEF WorkerOK
  <2>3. CASE Goto("mark") \/ Goto("release")
    BY <1>7, <2>1, <2>3, WorkerTypes DEF Receipt, Steps
  <2> QED
    BY <1>7, <2>2, <2>3 DEF Receipt
<1>8. CASE Start
  <2>1. approval' \in [Requests -> {"pending", "approved", "rejected", "executing",
                                    "executed", "failed"}]
    BY <1>8, <1>0, MoveTypes DEF Start, TypeOK
  <2>2. DataOK'
    BY <1>8, <2>1, <1>0, <1>00 DEF Start, DataOK, TypeOK, Steps, queue
  <2>3. WorkerOK'
    BY <1>8, WorkerTypes DEF Start, Steps
  <2> QED
    BY <2>2, <2>3
<1>9. CASE Handle
  <2>1. DataOK'
    BY <1>9, <1>0, <1>00 DEF Handle, DataOK, TypeOK, Steps, admins, queue
  <2>2. WorkerOK'
    BY <1>9, WorkerTypes DEF Handle, Steps
  <2> QED
    BY <2>1, <2>2
<1>10. CASE HandledOk
  <2>1. approval' \in [Requests -> {"pending", "approved", "rejected", "executing",
                                    "executed", "failed"}]
    BY <1>10, <1>0, MoveTypes DEF HandledOk, TypeOK
  <2>2. DataOK'
    BY <1>10, <2>1, <1>0, <1>00 DEF HandledOk, DataOK, TypeOK, Steps, queue, ghosts
  <2>3. WorkerOK'
    BY <1>10, WorkerTypes DEF HandledOk, Steps
  <2> QED
    BY <2>2, <2>3
<1>11. CASE HandledBad
  <2>1. approval' \in [Requests -> {"pending", "approved", "rejected", "executing",
                                    "executed", "failed"}]
    BY <1>11, <1>0, MoveTypes DEF HandledBad, TypeOK
  <2>2. DataOK'
    BY <1>11, <2>1, <1>0, <1>00 DEF HandledBad, DataOK, TypeOK, Steps, queue, ghosts
  <2>3. pc' \in Steps /\ entry' \in IF pc' = "idle" THEN {NoEntry} ELSE Actions
    BY <1>11, <1>0 DEF HandledBad, WorkerOK, Steps
  <2>4. records' \in BOOLEAN
    BY Zenon, <1>11 DEF HandledBad
  <2> QED
    BY <2>2, <2>3, <2>4 DEF WorkerOK
<1>12. CASE Mark
  <2>1. DataOK'
    BY <1>12, <1>0, <1>00 DEF Mark, DataOK, TypeOK, Steps, ghosts
  <2>2. WorkerOK'
    BY <1>12, WorkerTypes DEF Mark, Steps
  <2> QED
    BY <2>1, <2>2
<1>13. CASE RecordFailed
  <2>1. DataOK'
    BY <1>13, <1>0, <1>00 DEF RecordFailed, DataOK, TypeOK, Steps, admins, queue, ghosts
  <2>2. WorkerOK'
    BY <1>13, WorkerTypes DEF RecordFailed, Steps
  <2> QED
    BY <2>1, <2>2
<1>14. CASE Release
  <2>1. DataOK'
    BY <1>14, <1>0, <1>00 DEF Release, DataOK, TypeOK, Steps, admins, queue, ghosts
  <2>2. WorkerOK'
    BY <1>14, WorkerTypes DEF Release, Steps
  <2> QED
    BY <2>1, <2>2
<1>15. CASE Retry
  <2>1. retries[entry] < MaxRetries
    BY <1>15 DEF Retry, HoldInv, Busy, CountInv, CountOf, TypeOK, Steps
  <2>2. retries' \in [Actions -> 0..MaxRetries]
    BY <1>15, <2>1 DEF Retry, TypeOK
  <2>3. DataOK'
    BY <1>15, <2>2, <1>0, <1>00 DEF Retry, DataOK, TypeOK, Steps, admins, ghosts
  <2>4. WorkerOK'
    BY <1>15, WorkerTypes DEF Retry, Steps
  <2> QED
    BY <2>3, <2>4
<1>16. CASE RecordCompleted
  <2>1. DataOK'
    BY <1>16, <1>0, <1>00 DEF RecordCompleted, DataOK, TypeOK, Steps, admins, queue, ghosts
  <2>2. WorkerOK'
    BY <1>16, WorkerTypes DEF RecordCompleted, Steps
  <2> QED
    BY <2>1, <2>2
<1>17. CASE \E a \in Actions : Expire(a)
  BY <1>17, <1>0 DEF Expire, DataOK, WorkerOK, admins, queue, worker, ghosts
<1>18. CASE Cleanup
  BY <1>18, <1>0 DEF Cleanup, DataOK, WorkerOK, admins, queue, worker, ghosts
<1>19. CASE Crash
  <2>1. DataOK'
    BY <1>19, <1>0 DEF Crash, DataOK, admins, queue, ghosts
  <2> QED
    BY <1>19, <2>1, WorkerTypes DEF Crash
<1>20. CASE NotResolved
  <2>1. DataOK'
    BY <1>20, <1>0 DEF NotResolved, DataOK, admins, queue, ghosts
  <2> QED
    BY <1>20, <2>1 DEF NotResolved, WorkerOK, TypeOK, Steps
<1> QED
  BY <1>1, <1>2, <1>3, <1>4, <1>5, <1>6, <1>7, <1>8, <1>9, <1>10, <1>11, <1>12, <1>13, <1>14,
     <1>15, <1>16, <1>17, <1>18, <1>19, <1>20 DEF Next, Work

\* The entry being worked on stays the executor's.
LEMMA HoldStep ==
    ASSUME IInv, Next
    PROVE  HoldInv'
<1> USE CommandAssumption DEF IInv, Set, Goto, Finish, Leave
<1>1. CASE \E r \in Requests, v \in Verdicts : Look(r, v)
  BY <1>1 DEF Look, HoldInv, Busy, TypeOK, Steps, queue, worker, ghosts
<1>2. CASE \E r \in Requests : Approve(r)
  BY <1>2 DEF Approve, HoldInv, Busy, TypeOK, Steps, worker, ghosts
<1>3. CASE \E r \in Requests : Reject(r)
  BY <1>3 DEF Reject, HoldInv, Busy, TypeOK, Steps, queue, worker, ghosts
<1>4. CASE \E a \in Actions : Pick(a)
  BY <1>4 DEF Pick, HoldInv, Busy, TypeOK, Steps, admins, ghosts
<1>5. CASE Claim
  BY <1>5 DEF Claim, HoldInv, Busy, TypeOK, Steps, admins, queue, ghosts
<1>6. CASE Revert
  BY <1>6 DEF Revert, HoldInv, Busy, TypeOK, Steps, admins, ghosts
<1>7. CASE Receipt
  BY <1>7 DEF Receipt, HoldInv, Busy, TypeOK, Steps, admins, queue
<1>8. CASE Start
  BY <1>8 DEF Start, HoldInv, Busy, TypeOK, Steps, queue
<1>9. CASE Handle
  BY <1>9 DEF Handle, HoldInv, Busy, TypeOK, Steps, admins, queue
<1>10. CASE HandledOk
  BY <1>10 DEF HandledOk, HoldInv, Busy, TypeOK, Steps, queue, ghosts
<1>11. CASE HandledBad
  BY <1>11 DEF HandledBad, HoldInv, Busy, TypeOK, Steps, queue, ghosts
<1>12. CASE Mark
  BY <1>12 DEF Mark, HoldInv, Busy, TypeOK, Steps, ghosts
<1>13. CASE RecordFailed
  BY <1>13 DEF RecordFailed, HoldInv, Busy, TypeOK, Steps, admins, queue, ghosts
<1>14. CASE Release
  BY <1>14 DEF Release, HoldInv, Busy, TypeOK, Steps, admins, queue, ghosts
<1>15. CASE Retry
  BY <1>15 DEF Retry, HoldInv, Busy, TypeOK, Steps, admins, ghosts
<1>16. CASE RecordCompleted
  BY <1>16 DEF RecordCompleted, HoldInv, Busy, TypeOK, Steps, admins, queue, ghosts
<1>17. CASE \E a \in Actions : Expire(a)
  BY <1>17 DEF Expire, HoldInv, Busy, TypeOK, Steps, admins, queue, worker, ghosts
<1>18. CASE Cleanup
  BY <1>18 DEF Cleanup, HoldInv, Busy, TypeOK, Steps, admins, queue, worker, ghosts
<1>19. CASE Crash
  BY <1>19 DEF Crash, HoldInv, Busy, TypeOK, Steps, admins, queue, ghosts
<1>20. CASE NotResolved
  BY <1>20 DEF NotResolved, HoldInv, Busy, TypeOK, Steps, admins, queue, ghosts
<1> QED
  BY <1>1, <1>2, <1>3, <1>4, <1>5, <1>6, <1>7, <1>8, <1>9, <1>10, <1>11, <1>12, <1>13, <1>14,
     <1>15, <1>16, <1>17, <1>18, <1>19, <1>20 DEF Next, Work

\* Approving and queueing are one step, and nothing is queued twice.
LEMMA QueueStep ==
    ASSUME IInv, Next
    PROVE  QueueInv'
<1> USE CommandAssumption DEF IInv, Set, Goto, Finish, Leave
<1>1. CASE \E r \in Requests, v \in Verdicts : Look(r, v)
  BY <1>1 DEF Look, QueueInv, GrantedIsQueued, Granted, HoldInv, Busy, TypeOK, Steps, queue,
     worker, ghosts
<1>2. CASE \E r \in Requests : Approve(r)
  BY <1>2 DEF Approve, QueueInv, GrantedIsQueued, Granted, HoldInv, Busy, TypeOK, Steps,
     worker, ghosts
<1>3. CASE \E r \in Requests : Reject(r)
  BY <1>3 DEF Reject, QueueInv, GrantedIsQueued, Granted, HoldInv, Busy, TypeOK, Steps,
     queue, worker, ghosts
<1>4. CASE \E a \in Actions : Pick(a)
  BY <1>4 DEF Pick, QueueInv, GrantedIsQueued, Granted, HoldInv, Busy, TypeOK, Steps, admins,
     ghosts
<1>5. CASE Claim
  BY <1>5 DEF Claim, QueueInv, GrantedIsQueued, Granted, HoldInv, Busy, TypeOK, Steps,
     admins, queue, ghosts
<1>6. CASE Revert
  BY <1>6 DEF Revert, QueueInv, GrantedIsQueued, Granted, HoldInv, Busy, TypeOK, Steps,
     admins, ghosts
<1>7. CASE Receipt
  BY <1>7 DEF Receipt, QueueInv, GrantedIsQueued, Granted, HoldInv, Busy, TypeOK, Steps,
     admins, queue
<1>8. CASE Start
  <2>1. \A r \in Requests :
          \/ approval'[r] = approval[r]
          \/ <<entry, r>> \in asked /\ approval[r] = "approved" /\ approval'[r] = "executing"
    BY <1>8, MoveTypes DEF Start, TypeOK
  <2>2. asked' = asked /\ \A a \in Actions : outbox'[a] = "none" => outbox[a] = "none"
    BY <1>8 DEF Start, TypeOK, Steps, queue
  <2>3. GrantedIsQueued'
    <3> SUFFICES ASSUME NEW r \in Requests
                 PROVE  approval'[r] \in Granted <=> <<ActionOf[r], r>> \in asked
      BY <2>2 DEF GrantedIsQueued
    <3>1. CASE approval'[r] = approval[r]
      BY <3>1 DEF QueueInv, GrantedIsQueued
    <3>2. CASE <<entry, r>> \in asked /\ approval'[r] \in Granted
      BY <3>2 DEF QueueInv, TypeOK
    <3> QED
      BY <2>1, <3>1, <3>2 DEF Granted
  <2> QED
    BY <2>2, <2>3 DEF QueueInv
<1>9. CASE Handle
  BY <1>9 DEF Handle, QueueInv, GrantedIsQueued, Granted, HoldInv, Busy, TypeOK, Steps,
     admins, queue
<1>10. CASE HandledOk
  <2>1. \A r \in Requests :
          \/ approval'[r] = approval[r]
          \/ <<entry, r>> \in asked /\ approval[r] = "executing" /\ approval'[r] = "executed"
    BY <1>10, MoveTypes DEF HandledOk, TypeOK
  <2>2. asked' = asked /\ \A a \in Actions : outbox'[a] = "none" => outbox[a] = "none"
    BY <1>10 DEF HandledOk, TypeOK, Steps, queue, ghosts
  <2>3. GrantedIsQueued'
    <3> SUFFICES ASSUME NEW r \in Requests
                 PROVE  approval'[r] \in Granted <=> <<ActionOf[r], r>> \in asked
      BY <2>2 DEF GrantedIsQueued
    <3>1. CASE approval'[r] = approval[r]
      BY <3>1 DEF QueueInv, GrantedIsQueued
    <3>2. CASE <<entry, r>> \in asked /\ approval'[r] \in Granted
      BY <3>2 DEF QueueInv, TypeOK
    <3> QED
      BY <2>1, <3>1, <3>2 DEF Granted
  <2> QED
    BY <2>2, <2>3 DEF QueueInv
<1>11. CASE HandledBad
  <2>1. \A r \in Requests :
          \/ approval'[r] = approval[r]
          \/ <<entry, r>> \in asked /\ approval[r] = "executing" /\ approval'[r] = "failed"
    BY <1>11, MoveTypes DEF HandledBad, TypeOK
  <2>2. asked' = asked /\ \A a \in Actions : outbox'[a] = "none" => outbox[a] = "none"
    BY <1>11 DEF HandledBad, TypeOK, Steps, queue, ghosts
  <2>3. GrantedIsQueued'
    <3> SUFFICES ASSUME NEW r \in Requests
                 PROVE  approval'[r] \in Granted <=> <<ActionOf[r], r>> \in asked
      BY <2>2 DEF GrantedIsQueued
    <3>1. CASE approval'[r] = approval[r]
      BY <3>1 DEF QueueInv, GrantedIsQueued
    <3>2. CASE <<entry, r>> \in asked /\ approval'[r] \in Granted
      BY <3>2 DEF QueueInv, TypeOK
    <3> QED
      BY <2>1, <3>1, <3>2 DEF Granted
  <2> QED
    BY <2>2, <2>3 DEF QueueInv
<1>12. CASE Mark
  <2>1. \A r \in Requests :
          approval'[r] = approval[r] \/ (<<entry, r>> \in asked /\ approval'[r] = "executed")
    BY <1>12 DEF Mark, TypeOK
  <2>2. asked' = asked /\ \A a \in Actions : outbox'[a] = "none" => outbox[a] = "none"
    BY <1>12 DEF Mark, TypeOK, Steps, ghosts
  <2>3. GrantedIsQueued'
    <3> SUFFICES ASSUME NEW r \in Requests
                 PROVE  approval'[r] \in Granted <=> <<ActionOf[r], r>> \in asked
      BY <2>2 DEF GrantedIsQueued
    <3>1. CASE approval'[r] = approval[r]
      BY <3>1 DEF QueueInv, GrantedIsQueued
    <3>2. CASE <<entry, r>> \in asked /\ approval'[r] \in Granted
      BY <3>2 DEF QueueInv, TypeOK
    <3> QED
      BY <2>1, <3>1, <3>2 DEF Granted
  <2> QED
    BY <2>2, <2>3 DEF QueueInv
<1>13. CASE RecordFailed
  BY <1>13 DEF RecordFailed, QueueInv, GrantedIsQueued, Granted, HoldInv, Busy, TypeOK,
     Steps, admins, queue, ghosts
<1>14. CASE Release
  BY <1>14 DEF Release, QueueInv, GrantedIsQueued, Granted, HoldInv, Busy, TypeOK, Steps,
     admins, queue, ghosts
<1>15. CASE Retry
  BY <1>15 DEF Retry, QueueInv, GrantedIsQueued, Granted, HoldInv, Busy, TypeOK, Steps,
     admins, ghosts
<1>16. CASE RecordCompleted
  BY <1>16 DEF RecordCompleted, QueueInv, GrantedIsQueued, Granted, HoldInv, Busy, TypeOK,
     Steps, admins, queue, ghosts
<1>17. CASE \E a \in Actions : Expire(a)
  BY <1>17 DEF Expire, QueueInv, GrantedIsQueued, Granted, HoldInv, Busy, TypeOK, Steps,
     admins, queue, worker, ghosts
<1>18. CASE Cleanup
  BY <1>18 DEF Cleanup, QueueInv, GrantedIsQueued, Granted, HoldInv, Busy, TypeOK, Steps,
     admins, queue, worker, ghosts
<1>19. CASE Crash
  BY <1>19 DEF Crash, QueueInv, GrantedIsQueued, Granted, HoldInv, Busy, TypeOK, Steps,
     admins, queue, ghosts
<1>20. CASE NotResolved
  BY <1>20 DEF NotResolved, QueueInv, GrantedIsQueued, Granted, HoldInv, Busy, TypeOK, Steps,
     admins, queue, ghosts
<1> QED
  BY <1>1, <1>2, <1>3, <1>4, <1>5, <1>6, <1>7, <1>8, <1>9, <1>10, <1>11, <1>12, <1>13, <1>14,
     <1>15, <1>16, <1>17, <1>18, <1>19, <1>20 DEF Next, Work

\* Attempts are counted, and a success is the last of them.
LEMMA CountStep ==
    ASSUME IInv, Next
    PROVE  CountInv'
<1> USE CommandAssumption DEF IInv, Set, Goto, Finish, Leave
<1>1. CASE \E r \in Requests, v \in Verdicts : Look(r, v)
  BY <1>1 DEF Look, CountInv, CountOf, Before, Failing, HoldInv, Busy, QueueInv, TypeOK,
     Steps, queue, worker, ghosts
<1>2. CASE \E r \in Requests : Approve(r)
  BY <1>2 DEF Approve, CountInv, CountOf, Before, Failing, HoldInv, Busy, QueueInv, TypeOK,
     Steps, worker, ghosts
<1>3. CASE \E r \in Requests : Reject(r)
  BY <1>3 DEF Reject, CountInv, CountOf, Before, Failing, HoldInv, Busy, QueueInv, TypeOK,
     Steps, queue, worker, ghosts
<1>4. CASE \E a \in Actions : Pick(a)
  BY <1>4 DEF Pick, CountInv, CountOf, Before, Failing, HoldInv, Busy, QueueInv, TypeOK,
     Steps, admins, ghosts
<1>5. CASE Claim
  BY <1>5 DEF Claim, CountInv, CountOf, Before, Failing, HoldInv, Busy, QueueInv, TypeOK,
     Steps, admins, queue, ghosts
<1>6. CASE Revert
  BY <1>6 DEF Revert, CountInv, CountOf, Before, Failing, HoldInv, Busy, QueueInv, TypeOK,
     Steps, admins, ghosts
<1>7. CASE Receipt
  BY <1>7 DEF Receipt, CountInv, CountOf, Before, Failing, HoldInv, Busy, QueueInv, TypeOK,
     Steps, admins, queue
<1>8. CASE Start
  BY <1>8 DEF Start, CountInv, CountOf, Before, Failing, HoldInv, Busy, QueueInv, TypeOK,
     Steps, queue
<1>9. CASE Handle
  BY <1>9 DEF Handle, CountInv, CountOf, Before, Failing, HoldInv, Busy, QueueInv, TypeOK,
     Steps, admins, queue
<1>10. CASE HandledOk
  BY <1>10 DEF HandledOk, CountInv, CountOf, Before, Failing, HoldInv, Busy, QueueInv,
     TypeOK, Steps, queue, ghosts
<1>11. CASE HandledBad
  BY <1>11 DEF HandledBad, CountInv, CountOf, Before, Failing, HoldInv, Busy, QueueInv,
     TypeOK, Steps, queue, ghosts
<1>12. CASE Mark
  BY <1>12 DEF Mark, CountInv, CountOf, Before, Failing, HoldInv, Busy, QueueInv, TypeOK,
     Steps, ghosts
<1>13. CASE RecordFailed
  BY <1>13 DEF RecordFailed, CountInv, CountOf, Before, Failing, HoldInv, Busy, QueueInv,
     TypeOK, Steps, admins, queue, ghosts
<1>14. CASE Release
  BY <1>14 DEF Release, CountInv, CountOf, Before, Failing, HoldInv, Busy, QueueInv, TypeOK,
     Steps, admins, queue, ghosts
<1>15. CASE Retry
  BY <1>15 DEF Retry, CountInv, CountOf, Before, Failing, HoldInv, Busy, QueueInv, TypeOK,
     Steps, admins, ghosts
<1>16. CASE RecordCompleted
  BY <1>16 DEF RecordCompleted, CountInv, CountOf, Before, Failing, HoldInv, Busy, QueueInv,
     TypeOK, Steps, admins, queue, ghosts
<1>17. CASE \E a \in Actions : Expire(a)
  BY <1>17 DEF Expire, CountInv, CountOf, Before, Failing, HoldInv, Busy, QueueInv, TypeOK,
     Steps, admins, queue, worker, ghosts
<1>18. CASE Cleanup
  BY <1>18 DEF Cleanup, CountInv, CountOf, Before, Failing, HoldInv, Busy, QueueInv, TypeOK,
     Steps, admins, queue, worker, ghosts
<1>19. CASE Crash
  BY <1>19 DEF Crash, CountInv, CountOf, Before, Failing, HoldInv, Busy, QueueInv, TypeOK,
     Steps, admins, queue, ghosts
<1>20. CASE NotResolved
  BY <1>20 DEF NotResolved, CountInv, CountOf, Before, Failing, HoldInv, Busy, QueueInv,
     TypeOK, Steps, admins, queue, ghosts
<1> QED
  BY <1>1, <1>2, <1>3, <1>4, <1>5, <1>6, <1>7, <1>8, <1>9, <1>10, <1>11, <1>12, <1>13, <1>14,
     <1>15, <1>16, <1>17, <1>18, <1>19, <1>20 DEF Next, Work

\* What is completed has been done or was spoiled.
LEMMA GroundStep ==
    ASSUME IInv, Next
    PROVE  GroundInv'
<1> USE CommandAssumption DEF IInv, Set, Goto, Finish, Leave
<1>1. CASE \E r \in Requests, v \in Verdicts : Look(r, v)
  BY <1>1 DEF Look, GroundInv, Ground, HoldInv, CountInv, CountOf, Before, Busy, TypeOK,
     Steps, queue, worker, ghosts
<1>2. CASE \E r \in Requests : Approve(r)
  BY <1>2 DEF Approve, GroundInv, Ground, HoldInv, CountInv, CountOf, Before, Busy, TypeOK,
     Steps, worker, ghosts
<1>3. CASE \E r \in Requests : Reject(r)
  BY <1>3 DEF Reject, GroundInv, Ground, HoldInv, CountInv, CountOf, Before, Busy, TypeOK,
     Steps, queue, worker, ghosts
<1>4. CASE \E a \in Actions : Pick(a)
  BY <1>4 DEF Pick, GroundInv, Ground, HoldInv, CountInv, CountOf, Before, Busy, TypeOK,
     Steps, admins, ghosts
<1>5. CASE Claim
  BY <1>5 DEF Claim, GroundInv, Ground, HoldInv, CountInv, CountOf, Before, Busy, TypeOK,
     Steps, admins, queue, ghosts
<1>6. CASE Revert
  BY <1>6 DEF Revert, GroundInv, Ground, HoldInv, CountInv, CountOf, Before, Busy, TypeOK,
     Steps, admins, ghosts
<1>7. CASE Receipt
  BY <1>7 DEF Receipt, GroundInv, Ground, HoldInv, CountInv, CountOf, Before, Busy, TypeOK,
     Steps, admins, queue
<1>8. CASE Start
  BY <1>8 DEF Start, GroundInv, Ground, HoldInv, CountInv, CountOf, Before, Busy, TypeOK,
     Steps, queue
<1>9. CASE Handle
  BY <1>9 DEF Handle, GroundInv, Ground, HoldInv, CountInv, CountOf, Before, Busy, TypeOK,
     Steps, admins, queue
<1>10. CASE HandledOk
  BY <1>10 DEF HandledOk, GroundInv, Ground, HoldInv, CountInv, CountOf, Before, Busy,
     TypeOK, Steps, queue, ghosts
<1>11. CASE HandledBad
  BY <1>11 DEF HandledBad, GroundInv, Ground, HoldInv, CountInv, CountOf, Before, Busy,
     TypeOK, Steps, queue, ghosts
<1>12. CASE Mark
  BY <1>12 DEF Mark, GroundInv, Ground, HoldInv, CountInv, CountOf, Before, Busy, TypeOK,
     Steps, ghosts
<1>13. CASE RecordFailed
  BY <1>13 DEF RecordFailed, GroundInv, Ground, HoldInv, CountInv, CountOf, Before, Busy,
     TypeOK, Steps, admins, queue, ghosts
<1>14. CASE Release
  BY <1>14 DEF Release, GroundInv, Ground, HoldInv, CountInv, CountOf, Before, Busy, TypeOK,
     Steps, admins, queue, ghosts
<1>15. CASE Retry
  BY <1>15 DEF Retry, GroundInv, Ground, HoldInv, CountInv, CountOf, Before, Busy, TypeOK,
     Steps, admins, ghosts
<1>16. CASE RecordCompleted
  BY <1>16 DEF RecordCompleted, GroundInv, Ground, HoldInv, CountInv, CountOf, Before, Busy,
     TypeOK, Steps, admins, queue, ghosts
<1>17. CASE \E a \in Actions : Expire(a)
  BY <1>17 DEF Expire, GroundInv, Ground, HoldInv, CountInv, CountOf, Before, Busy, TypeOK,
     Steps, admins, queue, worker, ghosts
<1>18. CASE Cleanup
  BY <1>18 DEF Cleanup, GroundInv, Ground, HoldInv, CountInv, CountOf, Before, Busy, TypeOK,
     Steps, admins, queue, worker, ghosts
<1>19. CASE Crash
  BY <1>19 DEF Crash, GroundInv, Ground, HoldInv, CountInv, CountOf, Before, Busy, TypeOK,
     Steps, admins, queue, ghosts
<1>20. CASE NotResolved
  BY <1>20 DEF NotResolved, GroundInv, Ground, HoldInv, CountInv, CountOf, Before, Busy,
     TypeOK, Steps, admins, queue, ghosts
<1> QED
  BY <1>1, <1>2, <1>3, <1>4, <1>5, <1>6, <1>7, <1>8, <1>9, <1>10, <1>11, <1>12, <1>13, <1>14,
     <1>15, <1>16, <1>17, <1>18, <1>19, <1>20 DEF Next, Work

\* Where the request of an entry can be.
LEMMA VerdictStep ==
    ASSUME IInv, Next
    PROVE  VerdictInv'
<1> USE CommandAssumption DEF IInv, Set, Goto, Finish, Leave, Works, Fails
<1>1. CASE \E r \in Requests, v \in Verdicts : Look(r, v)
  BY <1>1 DEF Look, VerdictInv, Places, Granted, HoldInv, QueueInv, GrantedIsQueued, Busy,
     TypeOK, Steps, queue, worker, ghosts
<1>2. CASE \E r \in Requests : Approve(r)
  BY <1>2 DEF Approve, VerdictInv, Places, Granted, HoldInv, QueueInv, GrantedIsQueued, Busy,
     TypeOK, Steps, worker, ghosts
<1>3. CASE \E r \in Requests : Reject(r)
  BY <1>3 DEF Reject, VerdictInv, Places, Granted, HoldInv, QueueInv, GrantedIsQueued, Busy,
     TypeOK, Steps, queue, worker, ghosts
<1>4. CASE \E a \in Actions : Pick(a)
  BY <1>4 DEF Pick, VerdictInv, Places, Granted, HoldInv, QueueInv, GrantedIsQueued, Busy,
     TypeOK, Steps, admins, ghosts
<1>5. CASE Claim
  BY <1>5 DEF Claim, VerdictInv, Places, Granted, HoldInv, QueueInv, GrantedIsQueued, Busy,
     TypeOK, Steps, admins, queue, ghosts
<1>6. CASE Revert
  BY <1>6 DEF Revert, VerdictInv, Places, Granted, HoldInv, QueueInv, GrantedIsQueued, Busy,
     TypeOK, Steps, admins, ghosts
<1>7. CASE Receipt
  BY <1>7 DEF Receipt, VerdictInv, Places, Granted, HoldInv, QueueInv, GrantedIsQueued, Busy,
     TypeOK, Steps, admins, queue
<1>8. CASE Start
  <2>1. \A r \in Requests :
          \/ approval'[r] = approval[r]
          \/ <<entry, r>> \in asked /\ approval[r] = "approved" /\ approval'[r] = "executing"
    BY <1>8, MoveTypes DEF Start, TypeOK
  <2>2. /\ pc = "start" /\ pc' \in {"handle", "release"}
        /\ entry' = entry /\ asked' = asked /\ outbox' = outbox
        /\ \/ faults' > 0
           \/ /\ faults' = faults /\ pc' # "release"
              /\ \A r \in Requests : <<entry, r>> \in asked => approval'[r] # "approved"
    BY <1>8, MoveTypes DEF Start, TypeOK, Steps, queue
  <2>3. outbox[entry] = "executing" /\ entry \in Actions
    BY <2>2 DEF HoldInv, Busy, Steps, TypeOK
  <2>4. faults \in Nat /\ (faults > 0 => faults' > 0)
    BY <1>8, CommandAssumption DEF Start, TypeOK
  <2> SUFFICES ASSUME NEW a \in Actions, NEW r \in Requests, <<a, r>> \in asked
               PROVE  /\ outbox'[a] = "executed" => approval'[r] = "executed"
                      /\ approval'[r] \in Places(a)' \/ a \in Unresolved \/ faults' > 0
    BY <2>2 DEF VerdictInv
  <2>5. CASE a # entry
    <3>1. approval'[r] = approval[r] /\ outbox'[a] = outbox[a]
      BY <2>1, <2>2, <2>3, <2>5 DEF QueueInv
    <3>2. Places(a)' = Places(a)
      BY <2>2, <2>5, <3>1 DEF Places
    <3> QED
      BY <2>4, <3>1, <3>2 DEF VerdictInv
  <2>6. CASE a = entry
    <3>1. approval[r] \in Places(a) \/ a \in Unresolved \/ faults > 0
      BY DEF VerdictInv
    <3> QED
      BY <2>1, <2>2, <2>3, <2>4, <2>6, <3>1 DEF Places, Granted, VerdictInv
  <2> QED
    BY <2>5, <2>6
<1>9. CASE Handle
  BY <1>9 DEF Handle, VerdictInv, Places, Granted, HoldInv, QueueInv, GrantedIsQueued, Busy,
     TypeOK, Steps, admins, queue
<1>10. CASE HandledOk
  <2>1. \A r \in Requests :
          \/ approval'[r] = approval[r]
          \/ <<entry, r>> \in asked /\ approval[r] = "executing" /\ approval'[r] = "executed"
    BY <1>10, MoveTypes DEF HandledOk, TypeOK
  <2>2. /\ pc = "ok" /\ pc' = "mark"
        /\ entry' = entry /\ asked' = asked /\ outbox' = outbox
        /\ \/ faults' > 0
           \/ /\ faults' = faults /\ pc' # "release"
              /\ \A r \in Requests : <<entry, r>> \in asked => approval'[r] # "executing"
    BY <1>10, MoveTypes DEF HandledOk, TypeOK, Steps, queue, ghosts
  <2>3. outbox[entry] = "executing" /\ entry \in Actions
    BY <2>2 DEF HoldInv, Busy, Steps, TypeOK
  <2>4. faults \in Nat /\ (faults > 0 => faults' > 0)
    BY <1>10, CommandAssumption DEF HandledOk, TypeOK
  <2> SUFFICES ASSUME NEW a \in Actions, NEW r \in Requests, <<a, r>> \in asked
               PROVE  /\ outbox'[a] = "executed" => approval'[r] = "executed"
                      /\ approval'[r] \in Places(a)' \/ a \in Unresolved \/ faults' > 0
    BY <2>2 DEF VerdictInv
  <2>5. CASE a # entry
    <3>1. approval'[r] = approval[r] /\ outbox'[a] = outbox[a]
      BY <2>1, <2>2, <2>3, <2>5 DEF QueueInv
    <3>2. Places(a)' = Places(a)
      BY <2>2, <2>5, <3>1 DEF Places
    <3> QED
      BY <2>4, <3>1, <3>2 DEF VerdictInv
  <2>6. CASE a = entry
    <3>1. approval[r] \in Places(a) \/ a \in Unresolved \/ faults > 0
      BY DEF VerdictInv
    <3> QED
      BY <2>1, <2>2, <2>3, <2>4, <2>6, <3>1 DEF Places, Granted, VerdictInv
  <2> QED
    BY <2>5, <2>6
<1>11. CASE HandledBad
  <2>1. \A r \in Requests :
          \/ approval'[r] = approval[r]
          \/ <<entry, r>> \in asked /\ approval[r] = "executing" /\ approval'[r] = "failed"
    BY <1>11, MoveTypes DEF HandledBad, TypeOK
  <2>2. /\ pc = "bad" /\ pc' = "recordFailed"
        /\ entry' = entry /\ asked' = asked /\ outbox' = outbox
        /\ \/ faults' > 0
           \/ /\ faults' = faults /\ pc' # "release"
              /\ \A r \in Requests : <<entry, r>> \in asked => approval'[r] # "executing"
    BY <1>11, MoveTypes DEF HandledBad, TypeOK, Steps, queue, ghosts
  <2>3. outbox[entry] = "executing" /\ entry \in Actions
    BY <2>2 DEF HoldInv, Busy, Steps, TypeOK
  <2>4. faults \in Nat /\ (faults > 0 => faults' > 0)
    BY <1>11, CommandAssumption DEF HandledBad, TypeOK
  <2> SUFFICES ASSUME NEW a \in Actions, NEW r \in Requests, <<a, r>> \in asked
               PROVE  /\ outbox'[a] = "executed" => approval'[r] = "executed"
                      /\ approval'[r] \in Places(a)' \/ a \in Unresolved \/ faults' > 0
    BY <2>2 DEF VerdictInv
  <2>5. CASE a # entry
    <3>1. approval'[r] = approval[r] /\ outbox'[a] = outbox[a]
      BY <2>1, <2>2, <2>3, <2>5 DEF QueueInv
    <3>2. Places(a)' = Places(a)
      BY <2>2, <2>5, <3>1 DEF Places
    <3> QED
      BY <2>4, <3>1, <3>2 DEF VerdictInv
  <2>6. CASE a = entry
    <3>1. approval[r] \in Places(a) \/ a \in Unresolved \/ faults > 0
      BY DEF VerdictInv
    <3> QED
      BY <2>1, <2>2, <2>3, <2>4, <2>6, <3>1 DEF Places, Granted, VerdictInv
  <2> QED
    BY <2>5, <2>6
<1>12. CASE Mark
  <2>1. \A r \in Requests :
          approval'[r] = approval[r] \/ (<<entry, r>> \in asked /\ approval'[r] = "executed")
    BY <1>12 DEF Mark, TypeOK
  <2>2. /\ pc = "mark" /\ asked' = asked
        /\ pc' = "idle" \/ (pc' = "leave" /\ entry' = entry)
        /\ \A a \in Actions \ {entry} : outbox'[a] = outbox[a]
        /\ \/ faults' > 0 /\ outbox' = outbox /\ approval' = approval
           \/ /\ outbox'[entry] = "executed"
              /\ \A r \in Requests : <<entry, r>> \in asked => approval'[r] = "executed"
    BY <1>12 DEF Mark, TypeOK, Steps, ghosts
  <2>3. outbox[entry] = "executing" /\ entry \in Actions
    BY <2>2 DEF HoldInv, Busy, Steps, TypeOK
  <2>4. faults \in Nat /\ (faults > 0 => faults' > 0)
    BY <1>12, CommandAssumption DEF Mark, TypeOK
  <2> SUFFICES ASSUME NEW a \in Actions, NEW r \in Requests, <<a, r>> \in asked
               PROVE  /\ outbox'[a] = "executed" => approval'[r] = "executed"
                      /\ approval'[r] \in Places(a)' \/ a \in Unresolved \/ faults' > 0
    BY <2>2 DEF VerdictInv
  <2>5. CASE a # entry
    <3>1. approval'[r] = approval[r] /\ outbox'[a] = outbox[a]
      BY <2>1, <2>2, <2>3, <2>5 DEF QueueInv
    <3>2. Places(a)' = Places(a)
      BY <2>2, <2>5, <3>1 DEF Places
    <3> QED
      BY <2>4, <3>1, <3>2 DEF VerdictInv
  <2>6. CASE a = entry
    <3>1. approval[r] \in Places(a) \/ a \in Unresolved \/ faults > 0
      BY DEF VerdictInv
    <3> QED
      BY <2>1, <2>2, <2>3, <2>4, <2>6, <3>1 DEF Places, Granted, VerdictInv
  <2> QED
    BY <2>5, <2>6
<1>13. CASE RecordFailed
  BY <1>13 DEF RecordFailed, VerdictInv, Places, Granted, HoldInv, QueueInv, GrantedIsQueued,
     Busy, TypeOK, Steps, admins, queue, ghosts
<1>14. CASE Release
  BY <1>14 DEF Release, VerdictInv, Places, Granted, HoldInv, QueueInv, GrantedIsQueued,
     Busy, TypeOK, Steps, admins, queue, ghosts
<1>15. CASE Retry
  BY <1>15 DEF Retry, VerdictInv, Places, Granted, HoldInv, QueueInv, GrantedIsQueued, Busy,
     TypeOK, Steps, admins, ghosts
<1>16. CASE RecordCompleted
  BY <1>16 DEF RecordCompleted, VerdictInv, Places, Granted, HoldInv, QueueInv,
     GrantedIsQueued, Busy, TypeOK, Steps, admins, queue, ghosts
<1>17. CASE \E a \in Actions : Expire(a)
  BY <1>17 DEF Expire, VerdictInv, Places, Granted, HoldInv, QueueInv, GrantedIsQueued, Busy,
     TypeOK, Steps, admins, queue, worker, ghosts
<1>18. CASE Cleanup
  BY <1>18 DEF Cleanup, VerdictInv, Places, Granted, HoldInv, QueueInv, GrantedIsQueued,
     Busy, TypeOK, Steps, admins, queue, worker, ghosts
<1>19. CASE Crash
  BY <1>19 DEF Crash, VerdictInv, Places, Granted, HoldInv, QueueInv, GrantedIsQueued, Busy,
     TypeOK, Steps, admins, queue, ghosts
<1>20. CASE NotResolved
  BY <1>20 DEF NotResolved, VerdictInv, Places, Granted, HoldInv, QueueInv, GrantedIsQueued,
     Busy, TypeOK, Steps, admins, queue, ghosts
<1> QED
  BY <1>1, <1>2, <1>3, <1>4, <1>5, <1>6, <1>7, <1>8, <1>9, <1>10, <1>11, <1>12, <1>13, <1>14,
     <1>15, <1>16, <1>17, <1>18, <1>19, <1>20 DEF Next, Work

-----------------------------------------------------------------------------
(* The theorems.                                                           *)

\* What the executor's tables look like in every reachable state: an entry being worked
\* on is its own, attempts are counted, what is completed was done or spoiled.
THEOREM Invariance == Spec => []IInv
<1>1. Init => IInv
  BY InitInv
<1>2. IInv /\ [Next]_vars => IInv'
  <2> SUFFICES ASSUME IInv, [Next]_vars PROVE IInv'
    OBVIOUS
  <2>1. CASE Next
    BY <2>1, TypeStep, HoldStep, QueueStep, CountStep, GroundStep, VerdictStep DEF IInv
  <2>2. CASE UNCHANGED vars
    BY <2>2 DEF vars, admins, queue, worker, ghosts, IInv, TypeOK, HoldInv, QueueInv,
       GrantedIsQueued, CountInv, CountOf, GroundInv, Ground, VerdictInv, Places
  <2> QED
    BY <2>1, <2>2
<1> QED
  BY <1>1, <1>2, PTL DEF Spec

\* Every variable has its type; the retry count stays within max_retries.
THEOREM TypeCorrect == Spec => []TypeOK
<1>1. IInv => TypeOK
  BY DEF IInv
<1> QED
  BY <1>1, Invariance, PTL

\* approve is all or nothing: a request is past its approval iff its command was queued.
THEOREM ApprovalIsQueueing == Spec => []GrantedIsQueued
<1>1. IInv => GrantedIsQueued
  BY DEF IInv, QueueInv
<1> QED
  BY <1>1, Invariance, PTL

\* A command succeeds once at most and is attempted MaxRetries times at most.
THEOREM EffectsOnce == Spec => []EffectOnce
<1>1. IInv => EffectOnce
  <2> SUFFICES ASSUME IInv, NEW a \in Actions PROVE did[a] <= 1 /\ runs[a] <= MaxRetries
    BY DEF EffectOnce
  <2>1. TypeOK /\ CountOf(a)
    BY DEF IInv, CountInv
  <2>2. retries[a] \in 0..MaxRetries /\ runs[a] \in Nat
    BY <2>1 DEF TypeOK
  <2> QED
    BY <2>1, <2>2, CommandAssumption DEF CountOf
<1> QED
  BY <1>1, Invariance, PTL

\* A command reported executed was executed, or its receipt or its call had broken.
THEOREM HollowExplained == Spec => []HollowHaveCauses
<1>1. IInv => HollowHaveCauses
  BY DEF IInv, GroundInv, Ground, HollowHaveCauses
<1> QED
  BY <1>1, Invariance, PTL

\* The request of a settled entry has the entry's verdict.
THEOREM VerdictsMatch == Spec => []VerdictsAgree
<1>1. IInv => VerdictsAgree
  BY CommandAssumption DEF IInv, VerdictInv, Places, VerdictsAgree
<1> QED
  BY <1>1, Invariance, PTL


-----------------------------------------------------------------------------
(* Refinement of OnceOnlyWrites.                                           *)

Queued == {a \in Actions : outbox[a] # "none"}

\* Only approve queues a command, and one; only the handler has an effect.
LEMMA QueuedAndDone ==
    ASSUME IInv, Next
    PROVE  \/ UNCHANGED <<Queued, did>>
           \/ \E r \in Requests :
                ActionOf[r] \notin Queued /\ Queued' = Queued \cup {ActionOf[r]} /\ did' = did
           \/ /\ pc = "handle" /\ Queued' = Queued
              /\ did' = did \/ did' = [did EXCEPT ![entry] = @ + 1]
<1> USE CommandAssumption
<1>1. outbox \in [Actions -> {"none", "pending", "executing", "executed", "failed"}]
  BY DEF IInv, TypeOK
<1>2. ASSUME NEW r \in Requests, Approve(r)
      PROVE  \/ UNCHANGED <<Queued, did>>
             \/ ActionOf[r] \notin Queued /\ Queued' = Queued \cup {ActionOf[r]} /\ did' = did
  <2>1. ActionOf[r] \in Actions /\ did' = did
    BY <1>2 DEF Approve, ghosts
  <2>2. \/ outbox' = outbox
        \/ /\ outbox[ActionOf[r]] = "none"
           /\ outbox' = [outbox EXCEPT ![ActionOf[r]] = "pending"]
    BY <1>2 DEF Approve, Set
  <2> QED  BY <1>1, <2>1, <2>2 DEF Queued
<1>3. CASE Handle
  <2>1. outbox' = outbox /\ pc = "handle"
    BY <1>3 DEF Handle, queue
  <2> QED  BY <1>3, <2>1 DEF Handle, Queued
<1>4. ASSUME did' = did, outbox' = outbox
      PROVE  UNCHANGED <<Queued, did>>
  BY <1>4 DEF Queued
<1>5. ASSUME NEW a \in Actions, outbox[a] # "none",
             NEW v \in {"pending", "executing", "executed", "failed"},
             outbox' = [outbox EXCEPT ![a] = v], did' = did
      PROVE  UNCHANGED <<Queued, did>>
  BY <1>1, <1>5 DEF Queued
<1>6. ASSUME NEW a \in Actions, Pick(a) PROVE UNCHANGED <<Queued, did>>
  BY <1>5, <1>6 DEF Pick, Set, ghosts
<1>7. CASE Revert \/ Mark \/ Retry
  <2>1. pc \in {"revert", "mark", "retry"} /\ did' = did
    BY <1>7 DEF Revert, Mark, Retry, ghosts
  <2>2. entry \in Actions /\ outbox[entry] # "none"
    BY <2>1 DEF IInv, TypeOK, HoldInv, Busy, Steps
  <2>3. \/ outbox' = outbox
        \/ \E v \in {"pending", "executing", "executed", "failed"} :
             outbox' = [outbox EXCEPT ![entry] = v]
    BY <1>7 DEF Revert, Mark, Retry, Set
  <2> QED  BY <1>4, <1>5, <2>1, <2>2, <2>3
<1>8. CASE \/ \E r \in Requests : Reject(r) \/ (\E v \in Verdicts : Look(r, v))
           \/ Claim \/ Receipt \/ NotResolved \/ Start \/ HandledOk \/ HandledBad
           \/ RecordFailed \/ Release \/ RecordCompleted
           \/ \E a \in Actions : Expire(a)
           \/ Cleanup \/ Crash
  <2>1. did' = did /\ outbox' = outbox
    BY <1>8 DEF Reject, Look, Claim, Receipt, NotResolved, Start, HandledOk, HandledBad,
       RecordFailed, Release, RecordCompleted, Expire, Cleanup, Crash, queue, ghosts
  <2> QED  BY <1>4, <2>1
<1> QED
  BY <1>2, <1>3, <1>6, <1>7, <1>8 DEF Next, Work

\* Approved commands behave as OnceOnlyWrites says: one is queued once and takes effect
\* at most once, after that.
THEOREM Refinement == Spec => ApprovedOnce
<1>1. Init => Abstract!Init
  BY DEF Init, Abstract!Init
<1>2. IInv /\ [Next]_vars => [Abstract!Next]_(Abstract!absVars)
  <2> SUFFICES ASSUME IInv, [Next]_vars PROVE [Abstract!Next]_(Abstract!absVars)
    OBVIOUS
  <2>1. CASE UNCHANGED <<Queued, did>>
    BY <2>1 DEF Queued, Abstract!absVars
  <2>2. ASSUME NEW r \in Requests, ActionOf[r] \notin Queued, did' = did,
               Queued' = Queued \cup {ActionOf[r]}
        PROVE  Abstract!Next
    <3>1. ActionOf[r] \in Actions
      BY CommandAssumption
    <3>2. Abstract!Submit(ActionOf[r])
      BY <2>2 DEF Queued, Abstract!Submit
    <3> QED  BY <3>1, <3>2 DEF Abstract!Next
  <2>3. CASE /\ pc = "handle" /\ Queued' = Queued
             /\ did' = [did EXCEPT ![entry] = @ + 1]
    <3>1. entry \in Actions /\ outbox[entry] = "executing" /\ did \in [Actions -> Nat]
      BY <2>3 DEF IInv, TypeOK, HoldInv, Busy, Steps
    <3>2. did[entry] = 0
      BY <2>3, <3>1 DEF IInv, CountInv, CountOf, Before
    <3>3. entry \in Queued /\ did' = [did EXCEPT ![entry] = 1]
      BY <2>3, <3>1, <3>2 DEF Queued
    <3>4. Abstract!TakeEffect(entry)
      BY <2>3, <3>2, <3>3 DEF Queued, Abstract!TakeEffect
    <3> QED  BY <3>1, <3>4 DEF Abstract!Next
  <2>4. CASE UNCHANGED vars
    <3>1. UNCHANGED <<Queued, did>>
      BY <2>4 DEF vars, queue, ghosts, Queued
    <3> QED  BY <2>1, <3>1
  <2> QED  BY <2>1, <2>2, <2>3, <2>4, QueuedAndDone
<1> QED
  BY <1>1, <1>2, Invariance, PTL DEF Spec, ApprovedOnce, Abstract!Spec
=============================================================================
