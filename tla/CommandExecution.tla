-------------------------- MODULE CommandExecution --------------------------
(***************************************************************************)
(* Approved commands: approval_workflow (approve, reject, the marks), the  *)
(* command_outbox that approve fills in its own transaction, and the one   *)
(* ApprovalExecutor (process r40_scheduler) that claims an entry, claims   *)
(* its command_executions row, asks the effect receipts, runs the handler  *)
(* through CommandBus.execute_command_outbox_entry and settles the three   *)
(* tables.  cleanup_stale_leases takes expired executions back.            *)
(*                                                                         *)
(* An action_id is the hash of command, parameters and requester: requests *)
(* may share one.  Backoff is left out: a pending entry may be due.  The   *)
(* request hash of an entry never changes, so hash_mismatch does not occur.*)
(***************************************************************************)
EXTENDS Naturals, FiniteSets

CONSTANTS
    Requests,    \* approvals rows
    Actions,     \* action ids
    ActionOf,    \* [Requests -> Actions]
    Unresolved,  \* actions whose command the bus cannot build again
    NoEntry,     \* the executor is between entries
    MaxRetries,  \* max_retries of an entry (3)
    MaxReaders,  \* bound: decisions under way at a time
    MaxFaults,   \* bound: statements (or calls) that fail
    MaxCrashes   \* bound: restarts of the executor's process

ASSUME CommandAssumption ==
    /\ ActionOf \in [Requests -> Actions] /\ NoEntry \notin Actions
    /\ Unresolved \subseteq Actions
    /\ MaxRetries \in Nat \ {0} /\ MaxReaders \in Nat /\ MaxFaults \in Nat
    /\ MaxCrashes \in Nat

VARIABLES
    approval,   \* [Requests -> status]
    reading,    \* <<request, verdict>>: admins who saw a pending request
    outbox,     \* [Actions -> status], "none" when there is no row
    asked,      \* rows' approval_id: <<action, request>>
    retries,    \* rows' retry_count
    execution,  \* command_executions: "live" and "expired" are 'executing'
    receipt,    \* effect_receipts of handler_execute
    pc, entry,  \* the executor: its step, the action_id it works on
    records,    \* leaving the EffectReceiptContext records 'completed'
    runs, did,  \* calls of the handler, and those that succeeded
    spoiled,    \* actions whose receipt, or whose call, failed for the infrastructure
    faults, crashes

admins == <<approval, reading>>
queue  == <<outbox, asked, retries>>
worker == <<pc, entry, records>>
ghosts == <<runs, did, spoiled>>
vars   == <<admins, queue, execution, receipt, worker, ghosts, faults, crashes>>

Verdicts == {"approve", "reject"}
Steps    == {"idle", "claim", "revert", "receipt", "start", "handle", "ok", "bad", "mark",
             "recordFailed", "release", "retry", "leave"}

TypeOK ==
    /\ approval \in [Requests -> {"pending", "approved", "rejected", "executing", "executed",
                                  "failed"}]
    /\ reading \subseteq Requests \X Verdicts
    /\ outbox \in [Actions -> {"none", "pending", "executing", "executed", "failed"}]
    /\ asked \subseteq Actions \X Requests
    /\ retries \in [Actions -> 0..MaxRetries]
    /\ execution \in [Actions -> {"none", "pending", "live", "expired", "executed"}]
    /\ receipt \in [Actions -> {"none", "pending", "completed", "failed"}]
    /\ pc \in Steps /\ records \in BOOLEAN
    /\ entry \in IF pc = "idle" THEN {NoEntry} ELSE Actions
    /\ runs \in [Actions -> Nat] /\ did \in [Actions -> Nat]
    /\ spoiled \subseteq Actions
    /\ faults \in 0..MaxFaults /\ crashes \in 0..MaxCrashes

Init ==
    /\ approval = [r \in Requests |-> "pending"] /\ reading = {}
    /\ outbox = [a \in Actions |-> "none"] /\ asked = {}
    /\ retries = [a \in Actions |-> 0]
    /\ execution = [a \in Actions |-> "none"]
    /\ receipt = [a \in Actions |-> "none"]
    /\ pc = "idle" /\ entry = NoEntry /\ records = FALSE
    /\ runs = [a \in Actions |-> 0] /\ did = [a \in Actions |-> 0]
    /\ spoiled = {} /\ faults = 0 /\ crashes = 0

-----------------------------------------------------------------------------
Fails == faults < MaxFaults /\ faults' = faults + 1
Works == UNCHANGED faults

Goto(step)   == pc' = step /\ UNCHANGED <<entry, records>>
Finish       == pc' = "idle" /\ entry' = NoEntry /\ records' = FALSE
Leave        == IF records THEN Goto("leave") ELSE Finish
Set(f, a, v) == [f EXCEPT ![a] = v]

\* UPDATE approvals ... WHERE id and status: the row of the entry's request.
Move(from, to) ==
    approval' = [r \in Requests |->
                   IF <<entry, r>> \in asked /\ approval[r] \in from THEN to ELSE approval[r]]

-----------------------------------------------------------------------------
(* Admins.                                                                 *)

\* The reads at the head of approve and reject.
Look(r, verdict) ==
    /\ approval[r] = "pending" /\ Cardinality(reading) < MaxReaders
    /\ reading' = reading \cup {<<r, verdict>>}
    /\ UNCHANGED <<approval, queue, execution, receipt, worker, ghosts, faults, crashes>>

\* Mutant: the request is approved when the insertion has hit UNIQUE(action_id).
ApproveAnyway(r) ==
    /\ <<r, "approve">> \in reading
    /\ reading' = reading \ {<<r, "approve">>}
    /\ Works /\ approval[r] = "pending"
    /\ approval' = Set(approval, r, "approved")
    /\ IF outbox[ActionOf[r]] = "none"
         THEN /\ outbox' = Set(outbox, ActionOf[r], "pending")
              /\ asked' = asked \cup {<<ActionOf[r], r>>}
         ELSE UNCHANGED <<outbox, asked>>
    /\ UNCHANGED <<retries, execution, receipt, worker, ghosts, crashes>>

\* One transaction: the compare-and-set on the request and the outbox entry.  It is
\* rolled back when it fails, and when the action id is in the outbox already.
Approve(r) ==
    /\ <<r, "approve">> \in reading
    /\ reading' = reading \ {<<r, "approve">>}
    /\ LET a == ActionOf[r] IN
       \/ /\ Works /\ approval[r] = "pending" /\ outbox[a] = "none"
          /\ approval' = Set(approval, r, "approved")
          /\ outbox' = Set(outbox, a, "pending") /\ asked' = asked \cup {<<a, r>>}
       \/ /\ Fails \/ (Works /\ (approval[r] # "pending" \/ outbox[a] # "none"))
          /\ UNCHANGED <<approval, outbox, asked>>
    /\ UNCHANGED <<retries, execution, receipt, worker, ghosts, crashes>>

\* The compare-and-set of reject.
Reject(r) ==
    /\ <<r, "reject">> \in reading
    /\ reading' = reading \ {<<r, "reject">>}
    /\ \/ Works /\ approval[r] = "pending" /\ approval' = Set(approval, r, "rejected")
       \/ (Fails \/ (Works /\ approval[r] # "pending")) /\ UNCHANGED approval
    /\ UNCHANGED <<queue, execution, receipt, worker, ghosts, crashes>>

-----------------------------------------------------------------------------
(* The executor claims an entry.                                           *)

\* Mutant: entries found executing are taken up again.
PickAny(a) ==
    /\ pc = "idle" /\ outbox[a] \in {"pending", "executing"}
    /\ outbox' = Set(outbox, a, "executing")
    /\ pc' = "claim" /\ entry' = a /\ records' = FALSE
    /\ UNCHANGED <<admins, asked, retries, execution, receipt, ghosts, faults, crashes>>

\* drain_once and the compare-and-set of _process_entry; when it fails the entry is skipped.
Pick(a) ==
    /\ pc = "idle" /\ outbox[a] = "pending"
    /\ outbox' = Set(outbox, a, "executing")
    /\ pc' = "claim" /\ entry' = a /\ records' = FALSE
    /\ UNCHANGED <<admins, asked, retries, execution, receipt, ghosts, faults, crashes>>

\* claim_execution_for_outbox: a failing SELECT counts as claimed, a failing UPDATE or
\* INSERT as claimed by another.
Claim ==
    /\ pc = "claim"
    /\ \/ Fails /\ Goto("receipt") /\ UNCHANGED execution
       \/ execution[entry] = "executed" /\ Works /\ Goto("mark") /\ UNCHANGED execution
       \/ execution[entry] = "live" /\ Works /\ Goto("revert") /\ UNCHANGED execution
       \/ /\ execution[entry] \in {"none", "pending", "expired"}
          /\ \/ Works /\ execution' = Set(execution, entry, "live") /\ Goto("receipt")
             \/ Fails /\ Goto("revert") /\ UNCHANGED execution
    /\ UNCHANGED <<admins, queue, receipt, ghosts, crashes>>

\* Claimed by another: the entry goes back; when that fails it stays executing.
Revert ==
    /\ pc = "revert" /\ Finish
    /\ \/ Works /\ outbox' = Set(outbox, entry, "pending")
       \/ Fails /\ UNCHANGED outbox
    /\ UNCHANGED <<admins, asked, retries, execution, receipt, ghosts, crashes>>

\* EffectReceiptContext.__aenter__.  A completed receipt skips the handler, and so does a
\* record_pending that fails; a failing check is "no receipt", after which record_pending
\* refuses a completed one with an AppError that ends in drain_once's handler.
Receipt ==
    /\ pc = "receipt"
    /\ \/ /\ receipt[entry] = "completed"
          /\ \/ Works /\ Goto("mark")
             \/ Fails /\ Goto("release")
          /\ UNCHANGED <<receipt, spoiled>>
       \/ /\ receipt[entry] # "completed" /\ Works
          /\ receipt' = Set(receipt, entry, "pending")
          /\ pc' = "start" /\ records' = TRUE /\ UNCHANGED <<entry, spoiled>>
       \/ /\ Fails /\ Goto("mark")
          /\ spoiled' = spoiled \cup {entry} /\ UNCHANGED receipt
    /\ UNCHANGED <<admins, queue, execution, runs, did, crashes>>

-----------------------------------------------------------------------------
(* execute_command_outbox_entry.                                           *)

\* _resolve_command_for_action knows no such command: the attempt has failed, and the
\* request is not told.
NotResolved ==
    /\ pc = "start" /\ entry \in Unresolved
    /\ pc' = "recordFailed" /\ records' = FALSE /\ UNCHANGED entry
    /\ UNCHANGED <<admins, queue, execution, receipt, ghosts, faults, crashes>>

\* mark_executing, whose failure is swallowed.  A call that raises is caught inside the
\* EffectReceiptContext: leaving it will record 'completed'.
Start ==
    /\ pc = "start" /\ entry \notin Unresolved
    /\ \/ Works /\ Move({"approved"}, "executing") /\ Goto("handle") /\ UNCHANGED spoiled
       \/ Fails /\ Goto("handle") /\ UNCHANGED <<approval, spoiled>>
       \/ /\ Fails /\ Goto("release")
          /\ spoiled' = spoiled \cup {entry} /\ UNCHANGED approval
    /\ UNCHANGED <<reading, queue, execution, receipt, runs, did, crashes>>

\* The handler succeeds or raises.
Handle ==
    /\ pc = "handle"
    /\ runs' = [runs EXCEPT ![entry] = @ + 1]
    /\ \/ Goto("ok") /\ did' = [did EXCEPT ![entry] = @ + 1]
       \/ Goto("bad") /\ UNCHANGED did
    /\ UNCHANGED <<admins, queue, execution, receipt, spoiled, faults, crashes>>

\* mark_executed
HandledOk ==
    /\ pc = "ok" /\ Goto("mark")
    /\ \/ Works /\ Move({"executing"}, "executed")
       \/ Fails /\ UNCHANGED approval
    /\ UNCHANGED <<reading, queue, execution, receipt, ghosts, crashes>>

\* Mutant: mark_no_record is forgotten.
HandledBadRecords ==
    /\ pc = "bad" /\ Goto("recordFailed")
    /\ \/ Works /\ Move({"executing"}, "failed")
       \/ Fails /\ UNCHANGED approval
    /\ UNCHANGED <<reading, queue, execution, receipt, ghosts, crashes>>

\* mark_failed; then _process_entry calls mark_no_record.
HandledBad ==
    /\ pc = "bad" /\ pc' = "recordFailed" /\ records' = FALSE /\ UNCHANGED entry
    /\ \/ Works /\ Move({"executing"}, "failed")
       \/ Fails /\ UNCHANGED approval
    /\ UNCHANGED <<reading, queue, execution, receipt, ghosts, crashes>>

-----------------------------------------------------------------------------
(* The executor settles the entry.                                         *)

\* Mutant: the request keeps the status the last attempt gave it.
MarkWithoutApproval ==
    /\ pc = "mark" /\ Leave
    /\ \/ /\ Works
          /\ outbox' = Set(outbox, entry, "executed")
          /\ execution' = IF execution[entry] = "none" THEN execution
                                                       ELSE Set(execution, entry, "executed")
       \/ Fails /\ UNCHANGED <<outbox, execution>>
    /\ UNCHANGED <<admins, asked, retries, receipt, ghosts, crashes>>

\* mark_outbox_executed: three tables in one transaction, its answer not looked at.
Mark ==
    /\ pc = "mark" /\ Leave
    /\ \/ /\ Works
          /\ outbox' = Set(outbox, entry, "executed")
          /\ execution' = IF execution[entry] = "none" THEN execution
                                                       ELSE Set(execution, entry, "executed")
          /\ approval' = [r \in Requests |-> IF <<entry, r>> \in asked THEN "executed"
                                                                      ELSE approval[r]]
       \/ Fails /\ UNCHANGED <<outbox, execution, approval>>
    /\ UNCHANGED <<reading, asked, retries, receipt, ghosts, crashes>>

\* record_failed, from 'pending' only; its failure is logged.
RecordFailed ==
    /\ pc = "recordFailed" /\ Goto("release")
    /\ \/ /\ Works
          /\ receipt' = IF receipt[entry] = "pending" THEN Set(receipt, entry, "failed")
                                                      ELSE receipt
       \/ Fails /\ UNCHANGED receipt
    /\ UNCHANGED <<admins, queue, execution, ghosts, crashes>>

\* release_lease, whatever the row's status; its answer is not looked at.
Release ==
    /\ pc = "release" /\ Goto("retry")
    /\ \/ /\ Works
          /\ execution' = IF execution[entry] = "none" THEN execution
                                                       ELSE Set(execution, entry, "pending")
       \/ Fails /\ UNCHANGED execution
    /\ UNCHANGED <<admins, queue, receipt, ghosts, crashes>>

\* Mutant: a failed entry is not handed back.
RetryParked ==
    /\ pc = "retry" /\ Leave
    /\ Works /\ retries' = [retries EXCEPT ![entry] = @ + 1]
    /\ outbox' = Set(outbox, entry, IF retries[entry] + 1 >= MaxRetries THEN "failed"
                                                                       ELSE outbox[entry])
    /\ UNCHANGED <<admins, asked, execution, receipt, ghosts, crashes>>

\* Mutant: > instead of >=.
RetryOnceMore ==
    /\ pc = "retry" /\ Leave
    /\ Works /\ retries' = [retries EXCEPT ![entry] = @ + 1]
    /\ outbox' = Set(outbox, entry, IF retries[entry] + 1 > MaxRetries THEN "failed"
                                                                      ELSE "pending")
    /\ UNCHANGED <<admins, asked, execution, receipt, ghosts, crashes>>

\* _handle_failure; when its update fails the entry stays executing.
Retry ==
    /\ pc = "retry" /\ Leave
    /\ \/ /\ Works
          /\ retries' = [retries EXCEPT ![entry] = @ + 1]
          /\ outbox' = Set(outbox, entry, IF retries[entry] + 1 >= MaxRetries THEN "failed"
                                                                             ELSE "pending")
       \/ Fails /\ UNCHANGED <<outbox, retries>>
    /\ UNCHANGED <<admins, asked, execution, receipt, ghosts, crashes>>

\* EffectReceiptContext.__aexit__ without an exception: record_completed.
RecordCompleted ==
    /\ pc = "leave" /\ Finish
    /\ \/ /\ Works
          /\ receipt' = IF receipt[entry] = "pending" THEN Set(receipt, entry, "completed")
                                                      ELSE receipt
       \/ Fails /\ UNCHANGED receipt
    /\ UNCHANGED <<admins, queue, execution, ghosts, crashes>>

-----------------------------------------------------------------------------
(* Time, the lease cleanup, restarts.                                      *)

Expire(a) ==
    /\ execution[a] = "live" /\ execution' = Set(execution, a, "expired")
    /\ UNCHANGED <<admins, queue, receipt, worker, ghosts, faults, crashes>>

\* cleanup_stale_leases (rows of the executor have requires_approval = 0).
Cleanup ==
    /\ \E a \in Actions : execution[a] = "expired"
    /\ execution' = [a \in Actions |-> IF execution[a] = "expired" THEN "pending"
                                                                  ELSE execution[a]]
    /\ UNCHANGED <<admins, queue, receipt, worker, ghosts, faults, crashes>>

Crash ==
    /\ pc # "idle" /\ crashes < MaxCrashes
    /\ crashes' = crashes + 1 /\ Finish
    /\ UNCHANGED <<admins, queue, execution, receipt, ghosts, faults>>

-----------------------------------------------------------------------------
Work ==
    \/ Claim \/ Revert \/ Receipt \/ NotResolved \/ Start \/ Handle \/ HandledOk
    \/ HandledBad \/ Mark \/ RecordFailed \/ Release \/ Retry \/ RecordCompleted

Next ==
    \/ \E r \in Requests, v \in Verdicts : Look(r, v)
    \/ \E r \in Requests : Approve(r) \/ Reject(r)
    \/ \E a \in Actions : Pick(a)
    \/ Work
    \/ \E a \in Actions : Expire(a)
    \/ Cleanup
    \/ Crash

\* The loop of r40_scheduler runs drain_once for ever, in the order of ids; a lease ends.
Fairness ==
    /\ \A a \in Actions : SF_vars(Pick(a)) /\ WF_vars(Expire(a))
    /\ WF_vars(Work)

Spec == Init /\ [][Next]_vars /\ Fairness

-----------------------------------------------------------------------------
(* Properties.                                                             *)

Granted == {"approved", "executing", "executed", "failed"}

\* A request is past its approval iff the command of its action id was queued for it:
\* approve is all or nothing, a second request for the same action is never approved, and
\* what was rejected is never queued.
GrantedIsQueued ==
    \A r \in Requests : approval[r] \in Granted <=> <<ActionOf[r], r>> \in asked

\* A command takes effect once at most, and its handler is called once per attempt at
\* most, whatever crashes, fails or is retried.
EffectOnce == \A a \in Actions : did[a] <= 1 /\ runs[a] <= MaxRetries

\* A command that is reported executed has been executed, unless its receipt could not be
\* written or the call itself broke.
HollowHaveCauses ==
    \A a \in Actions : outbox[a] = "executed" => did[a] = 1 \/ a \in spoiled

\* The three tables agree when the entry is settled: executed everywhere, also when
\* earlier attempts had marked the request as failed; a failed entry has a failed request
\* unless a statement failed or the command cannot be built again.
VerdictsAgree ==
    \A r \in Requests :
        <<ActionOf[r], r>> \in asked =>
            /\ outbox[ActionOf[r]] = "executed" => approval[r] = "executed"
            /\ outbox[ActionOf[r]] = "failed" =>
                 approval[r] = "failed" \/ ActionOf[r] \in Unresolved \/ faults > 0

\* Every approved command is executed or fails for good, unless a statement failed or the
\* process died.
EverySettles ==
    \A a \in Actions :
        outbox[a] = "pending" ~> outbox[a] \in {"executed", "failed"} \/ faults + crashes > 0

\* What the comment at the skipping branch and mark_executed say: a command reported
\* executed has been executed.
ExecutedMeansRan == \A a \in Actions : outbox[a] = "executed" => did[a] = 1

\* The commands implement OnceOnlyWrites: a command counts as submitted from the moment
\* an approval has queued it, and its effect takes place at most once after that.
Abstract == INSTANCE OnceOnlyWrites WITH
    Msgs <- Actions,
    submitted <- {a \in Actions : outbox[a] # "none"},
    effects <- did
ApprovedOnce == Abstract!Spec

=============================================================================
