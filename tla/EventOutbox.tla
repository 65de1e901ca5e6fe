----------------------------- MODULE EventOutbox -----------------------------
(***************************************************************************)
(* The outbox of external side effects: the table outbox_events of         *)
(* CacheStore and services/data_lifecycle.py's OutboxWorker, which leases  *)
(* events, calls a provider for each, and records the result.              *)
(*                                                                         *)
(* A lease is an owner, an expiry and a version (the fencing token).  The  *)
(* worker renews the lease of the event it works on from a second task     *)
(* while the provider runs; the leases of the rest of its batch run on.    *)
(* Every statement is a SQLite transaction of its own, so anything may     *)
(* happen between two of them.                                             *)
(*                                                                         *)
(* A worker is an owner name, host:pid.  A restarted process may have the  *)
(* name of the one that died.  What the provider does outside, and whether *)
(* it recognises a repeated idempotency key, is not modelled: "calls"      *)
(* counts what was asked of it.                                            *)
(***************************************************************************)
EXTENDS Naturals, FiniteSets

CONSTANTS
    Events,      \* rows of outbox_events
    Workers,     \* lease owners
    Unserved,    \* events whose effect_type has no provider
    MaxAttempts, \* max_attempts of an event
    BatchSize,   \* rows leased by one run_once
    MaxVersion,  \* bound on the leases and renewals of one event
    MaxFaults    \* bound on failures of a worker

ASSUME OutboxAssumption ==
    /\ Unserved \subseteq Events
    /\ MaxAttempts \in Nat \ {0}
    /\ BatchSize \in Nat \ {0}
    /\ MaxVersion \in Nat
    /\ MaxFaults \in Nat

NoWorker == "none"
NoEvent  == "no event"

ASSUME OutboxNames == NoWorker \notin Workers /\ NoEvent \notin Events

Statuses == {"absent", "pending", "in_flight", "completed", "dlq"}

\* A row of outbox_events; "expired" is lease_expires_at < now.
Rows == [status: Statuses, owner: Workers \cup {NoWorker}, expired: BOOLEAN,
         version: Nat, attempts: Nat]

\* An event as a worker read it.  "tenure" is history: how often the event had
\* been leased.
Jobs  == [event: Events, version: Nat, tenure: Nat]
NoJob == [event |-> NoEvent, version |-> 0, tenure |-> 0]

VARIABLES
    row,     \* [Events -> Rows]
    pc,      \* [Workers -> where its run_once is]
    batch,   \* [Workers -> set of jobs still to do]
    job,     \* [Workers -> the job it works on]
    audit,   \* events recorded in outbox_dlq_audit
    intents, \* events with a compensation intent in audit_log
    tenures, \* history: [Events -> how often it was leased]
    calls,   \* history: [Events -> calls of its provider]
    causes,  \* history: [Events -> reasons to call its provider again]
    faults   \* failures of workers so far

workerVars == <<pc, batch, job>>
vars == <<row, workerVars, audit, intents, tenures, calls, causes, faults>>

Steps == {"idle", "leased", "next", "calling", "returned", "raised",
          "retrying", "giving up", "buried"}

TypeOK ==
    /\ row \in [Events -> Rows]
    /\ pc \in [Workers -> Steps]
    /\ batch \in [Workers -> SUBSET Jobs]
    /\ job \in [Workers -> Jobs \cup {NoJob}]
    /\ audit \subseteq Events
    /\ intents \subseteq Events
    /\ tenures \in [Events -> Nat]
    /\ calls \in [Events -> Nat]
    /\ causes \in [Events -> Nat]
    /\ faults \in 0..MaxFaults

Init ==
    /\ row = [e \in Events |-> [status |-> "absent", owner |-> NoWorker,
                                expired |-> FALSE, version |-> 0, attempts |-> 0]]
    /\ pc = [w \in Workers |-> "idle"]
    /\ batch = [w \in Workers |-> {}]
    /\ job = [w \in Workers |-> NoJob]
    /\ audit = {}
    /\ intents = {}
    /\ tenures = [e \in Events |-> 0]
    /\ calls = [e \in Events |-> 0]
    /\ causes = [e \in Events |-> 0]
    /\ faults = 0

WithStatus(s) == {e \in Events : row[e].status = s}
\* Mutant: the SELECT does not ask for the owner.
HeldBy_Anyone(w) == WithStatus("in_flight")
HeldBy(w)     == {e \in WithStatus("in_flight") : row[e].owner = w}

-----------------------------------------------------------------------------
(* The rows, outside a worker's hands.                                     *)

\* add_outbox_event in the unit of work of a command: a row or, if the command
\* is rolled back, none.
Add(e) ==
    /\ row[e].status = "absent"
    /\ row' = [row EXCEPT ![e].status = "pending"]
    /\ UNCHANGED <<workerVars, audit, intents, tenures, calls, causes, faults>>

\* Time passes the expiry of a lease.
Expire(e) ==
    /\ row[e].status = "in_flight"
    /\ ~row[e].expired
    /\ row' = [row EXCEPT ![e].expired = TRUE]
    /\ causes' = [causes EXCEPT ![e] = @ + 1]
    /\ UNCHANGED <<workerVars, audit, intents, tenures, calls, faults>>

\* Mutant: the row is marked as a failed receipt is.
Freed_Failed(r) == [r EXCEPT !.status = "failed", !.owner = NoWorker, !.expired = FALSE]
\* The row without a lease.
Freed(r) == [r EXCEPT !.status = "pending", !.owner = NoWorker, !.expired = FALSE]

\* reclaim_stale_outbox_leases: whoever runs it, every expired lease ends.
Reclaim ==
    /\ \E e \in WithStatus("in_flight") : row[e].expired
    /\ row' = [e \in Events |->
                 IF row[e].status = "in_flight" /\ row[e].expired THEN Freed(row[e])
                                                                  ELSE row[e]]
    /\ UNCHANGED <<workerVars, audit, intents, tenures, calls, causes, faults>>

-----------------------------------------------------------------------------
(* run_once.                                                               *)

Goto(w, step) == pc' = [pc EXCEPT ![w] = step]

\* The worker is done with its event.
Continue(w) ==
    /\ Goto(w, "next")
    /\ job' = [job EXCEPT ![w] = NoJob]

\* claim_outbox_events, the UPDATE: as many pending rows as fit in a batch.
Claim(w) ==
    /\ pc[w] = "idle"
    /\ \E S \in SUBSET WithStatus("pending") :
         /\ S # {}
         /\ \/ S = WithStatus("pending") /\ Cardinality(S) <= BatchSize
            \/ Cardinality(S) = BatchSize
         /\ \A e \in S : row[e].version < MaxVersion
         /\ row' = [e \in Events |->
                      IF e \in S
                      THEN [status |-> "in_flight", owner |-> w, expired |-> FALSE,
                            version |-> row[e].version + 1,
                            attempts |-> row[e].attempts + 1]
                      ELSE row[e]]
         /\ tenures' = [e \in Events |-> tenures[e] + (IF e \in S THEN 1 ELSE 0)]
    /\ Goto(w, "leased")
    /\ UNCHANGED <<batch, job, audit, intents, calls, causes, faults>>

\* claim_outbox_events, the SELECT: everything in flight under this name, also
\* what an earlier run left behind.
Fetch(w) ==
    /\ pc[w] = "leased"
    /\ batch' = [batch EXCEPT ![w] =
                   {[event |-> e, version |-> row[e].version, tenure |-> tenures[e]] :
                       e \in HeldBy(w)}]
    /\ Goto(w, "next")
    /\ UNCHANGED <<row, job, audit, intents, tenures, calls, causes, faults>>

\* The next event of the batch goes to its provider.
Call(w) ==
    /\ pc[w] = "next"
    /\ \E j \in batch[w] :
         /\ j.event \notin Unserved
         /\ job' = [job EXCEPT ![w] = j]
         /\ batch' = [batch EXCEPT ![w] = @ \ {j}]
         /\ calls' = [calls EXCEPT ![j.event] = @ + 1]
    /\ Goto(w, "calling")
    /\ UNCHANGED <<row, audit, intents, tenures, causes, faults>>

\* move_outbox_to_dlq asks for the status and for nothing else.
CanMoveToDlq(e) == row[e].status \in {"pending", "in_flight"}

\* There is no provider: move_outbox_to_dlq, with its audit record.
Bury(w) ==
    /\ pc[w] = "next"
    /\ \E j \in batch[w] :
         /\ j.event \in Unserved
         /\ job' = [job EXCEPT ![w] = j]
         /\ batch' = [batch EXCEPT ![w] = @ \ {j}]
         /\ IF CanMoveToDlq(j.event)
            THEN /\ row' = [row EXCEPT ![j.event].status = "dlq"]
                 /\ audit' = audit \cup {j.event}
            ELSE UNCHANGED <<row, audit>>
    /\ Goto(w, "buried")
    /\ UNCHANGED <<intents, tenures, calls, causes, faults>>

\* The batch is done.
Finish(w) ==
    /\ pc[w] = "next"
    /\ batch[w] = {}
    /\ Goto(w, "idle")
    /\ UNCHANGED <<row, batch, job, audit, intents, tenures, calls, causes, faults>>

-----------------------------------------------------------------------------
(* process_event: the provider and the watchdog beside it.                 *)

\* Mutant: neither owner nor token is compared, the form for callers without a lease.
Matches_StatusOnly(w) == row[job[w].event].status = "in_flight"

\* The compare-and-swap of complete, fail and renew.
Matches(w) ==
    LET r == row[job[w].event]
    IN  r.status = "in_flight" /\ r.owner = w /\ r.version = job[w].version
CauseAgain(w) == causes' = [causes EXCEPT ![job[w].event] = @ + 1]

\* The provider answers.
Return(w) ==
    /\ pc[w] = "calling"
    /\ Goto(w, "returned")
    /\ UNCHANGED <<row, batch, job, audit, intents, tenures, calls, causes, faults>>

\* The provider raises; it may have had its effect.
Raise(w) ==
    /\ pc[w] = "calling"
    /\ CauseAgain(w)
    /\ Goto(w, "raised")
    /\ UNCHANGED <<row, batch, job, audit, intents, tenures, calls, faults>>

Renewed(r) == [r EXCEPT !.version = @ + 1, !.expired = FALSE]

\* renew_outbox_lease, and the watchdog notes the new version.
Renew(w) ==
    /\ pc[w] = "calling"
    /\ Matches(w)
    /\ row[job[w].event].version < MaxVersion
    /\ row' = [row EXCEPT ![job[w].event] = Renewed(@)]
    /\ job' = [job EXCEPT ![w].version = @ + 1]
    /\ UNCHANGED <<pc, batch, audit, intents, tenures, calls, causes, faults>>

\* The provider answers while the UPDATE of a renewal is under way: the
\* watchdog is cancelled and the new version is not noted.
RenewCancelled(w) ==
    /\ pc[w] = "calling"
    /\ Matches(w)
    /\ row[job[w].event].version < MaxVersion
    /\ row' = [row EXCEPT ![job[w].event] = Renewed(@)]
    /\ CauseAgain(w)
    /\ \E step \in {"returned", "raised"} : Goto(w, step)
    /\ UNCHANGED <<batch, job, audit, intents, tenures, calls, faults>>

\* The rest of the batch is dropped; its rows stay in flight.
Drop(w) ==
    /\ Goto(w, "idle")
    /\ batch' = [batch EXCEPT ![w] = {}]
    /\ job' = [job EXCEPT ![w] = NoJob]

\* A renewal does not match: the provider is cancelled and run_once raises.  So
\* it does when the provider raises an AppError of its own.
StopBatch(w) ==
    /\ pc[w] = "calling"
    /\ Drop(w)
    /\ CauseAgain(w)
    /\ UNCHANGED <<row, audit, intents, tenures, calls, faults>>

\* complete_outbox_event; on a mismatch nothing is written.
Complete(w) ==
    /\ pc[w] = "returned"
    /\ IF Matches(w)
       THEN row' = [row EXCEPT ![job[w].event].status = "completed"]
       ELSE UNCHANGED row
    /\ Continue(w)
    /\ UNCHANGED <<batch, audit, intents, tenures, calls, causes, faults>>

OverLimit(e) == row[e].attempts >= MaxAttempts

\* fail_outbox_event, the SELECT: it compares the token and reads the attempts.
FailSelect(w) ==
    /\ pc[w] = "raised"
    /\ IF Matches(w)
       THEN /\ Goto(w, IF OverLimit(job[w].event) THEN "giving up" ELSE "retrying")
            /\ UNCHANGED job
       ELSE Continue(w)
    /\ UNCHANGED <<row, batch, audit, intents, tenures, calls, causes, faults>>

\* Mutant: it asks for nothing.
CanFail_Always(e) == row[e].status # "absent"
\* The status the UPDATE of fail_outbox_event asks for.
CanFail(e) == row[e].status = "in_flight"

\* fail_outbox_event, the UPDATE of an event that is to be tried again.
FailRetry(w) ==
    /\ pc[w] = "retrying"
    /\ LET e == job[w].event
       IN  IF CanFail(e) THEN row' = [row EXCEPT ![e] = Freed(@)] ELSE UNCHANGED row
    /\ Continue(w)
    /\ UNCHANGED <<batch, audit, intents, tenures, calls, causes, faults>>

\* fail_outbox_event, the UPDATE of an event over its limit.  It reports "dlq"
\* whether it changed a row or not.
FailBury(w) ==
    /\ pc[w] = "giving up"
    /\ LET e == job[w].event
       IN  IF CanFail(e) THEN row' = [row EXCEPT ![e].status = "dlq"] ELSE UNCHANGED row
    /\ Goto(w, "buried")
    /\ UNCHANGED <<batch, job, audit, intents, tenures, calls, causes, faults>>

\* _persist_and_invoke_compensation: an entry of the audit log, nothing more.
Compensate(w) ==
    /\ pc[w] = "buried"
    /\ intents' = intents \cup {job[w].event}
    /\ Continue(w)
    /\ UNCHANGED <<row, batch, audit, tenures, calls, causes, faults>>

\* A statement raises or the process dies.  Leases it held stay in flight.
Abort(w) ==
    /\ pc[w] # "idle"
    /\ faults < MaxFaults
    /\ faults' = faults + 1
    /\ Drop(w)
    /\ causes' = [e \in Events |-> causes[e] + (IF e \in HeldBy(w) THEN 1 ELSE 0)]
    /\ UNCHANGED <<row, audit, intents, tenures, calls>>

Process(w) ==
    \/ Return(w) \/ Raise(w) \/ Renew(w) \/ RenewCancelled(w) \/ StopBatch(w)
    \/ Complete(w) \/ FailSelect(w) \/ FailRetry(w) \/ FailBury(w) \/ Compensate(w)

Next ==
    \/ \E e \in Events : Add(e) \/ Expire(e)
    \/ Reclaim
    \/ \E w \in Workers :
         \/ Claim(w) \/ Fetch(w) \/ Call(w) \/ Bury(w) \/ Finish(w)
         \/ Process(w)
         \/ Abort(w)

Spec == Init /\ [][Next]_vars

-----------------------------------------------------------------------------
(* Properties.                                                             *)

\* A completed or buried event is final: no late complete, fail, reclaim or
\* move_outbox_to_dlq of an earlier holder changes it.
SettledStays ==
    [][\A e \in Events : row[e].status \in {"completed", "dlq"} => row'[e] = row[e]]_vars

\* Only the holder of the present lease completes an event: nobody has leased
\* it since the worker that completes it did (the fencing token of
\* complete_outbox_event, which renewals move on and nothing sets back).
CompletedByHolder ==
    [][\A w \in Workers : Complete(w) /\ row' # row =>
          job[w].tenure = tenures[job[w].event]]_vars

\* A provider is called again for an event only after its lease expired, the
\* provider raised, a renewal was cancelled, or a worker failed: claims alone
\* never hand one event to two workers.
ExtraCallsHaveCauses ==
    \A e \in Events : calls[e] <= 1 + causes[e]

\* A compensation is intended only for an event that has no provider or has
\* used all its attempts.
IntentsHaveGrounds ==
    \A e \in intents : e \in Unserved \/ row[e].attempts >= MaxAttempts

=============================================================================
