----------------------------- MODULE JobDelivery -----------------------------
(***************************************************************************)
(* Delivering single-file jobs: the local_job_queue table, the sending     *)
(* slots of dsp_bot (_dsp_worker, _send_one_job, _process_single_job), the *)
(* two receipts that make a delivery idempotent (delivery_receipts and     *)
(* effect_receipts), the in-memory _sent_msg_tracker, the hourly retry of  *)
(* dead jobs, the reclaim of stale dispatched jobs, the switch of a job    *)
(* from its temporary local id to its CRDB id, and the user's /start.      *)
(*                                                                         *)
(* Job status changes and mark_user_started are queued for db_writer (see  *)
(* WritePipeline): here `queue`, executed in order unless a write is       *)
(* delayed by a retry or parked.  Everything else writes SQLite directly.  *)
(***************************************************************************)
EXTENDS Integers, Sequences

CONSTANTS
    Jobs,        \* single-file jobs of one user
    Slots,       \* concurrently running _send_one_job tasks of dsp_bot
    MaxRetry,    \* attempts before a job is dead (3)
    MaxRevive,   \* times a dead job is revived (2)
    MaxFaults,   \* bound: failed calls, lost replies, late writes, slow slots
    MaxCrashes   \* bound: crashes of dsp_bot

ASSUME DeliveryAssumption ==
    /\ MaxRetry \in Nat \ {0}
    /\ MaxRevive \in Nat
    /\ MaxFaults \in Nat
    /\ MaxCrashes \in Nat

VARIABLES
    row,       \* [Jobs -> local_job_queue row]
    queue,     \* writes handed to db_writer and not executed yet
    user,      \* the user's /start handler
    known,     \* has user_bot_started the user's row?
    delivery,  \* [Keys -> delivery_receipts row], by (job, job id)
    effect,    \* [Keys -> effect_receipts row]
    tracker,   \* keys in _sent_msg_tracker
    slot,      \* [Slots -> what the task is doing]
    sends,     \* [Keys -> Nat] history: copies that reached the user's chat
    faults, crashes

receipts == <<delivery, effect>>
vars == <<row, queue, user, known, receipts, tracker, slot, sends, faults, crashes>>

Id   == {"local", "crdb"}             \* negative temporary id, CRDB id
Keys == Jobs \X Id
Retries == 0..(MaxRetry - 1)

JobStatus == {"none", "pending", "dispatched", "waiting_start", "done", "dead"}
JobWrite  == [op : {"done", "dead", "retry", "revive"}, job : Jobs, id : Id, n : Retries]
StartedWrite == [op |-> "started"]
QueuedWrite == JobWrite \cup {StartedWrite}
Row == [id : Id, status : JobStatus, retry : Retries, revived : Nat]
Delivery == [status : {"none", "PENDING", "CONFIRMED", "FAILED"}, sent : Nat]
Effect   == [status : {"none", "pending", "completed", "failed"}, sent : Nat]
Steps == {"listed", "begin", "wait", "skip", "read", "pend", "check", "verify", "claim",
          "send", "failed", "confirm", "record", "finish", "fail", "bury"}
Idle == [pc |-> "idle"]
Task == [pc : Steps, job : Jobs, id : Id, retry : Retries, sent : Nat]

TypeOK ==
    /\ row \in [Jobs -> Row]
    /\ queue \in Seq(QueuedWrite)
    /\ user \in {"new", "reactivate", "started"}
    /\ known \in {"no", "yes"}
    /\ delivery \in [Keys -> Delivery]
    /\ effect \in [Keys -> Effect]
    /\ tracker \subseteq Keys
    /\ slot \in [Slots -> {Idle} \cup Task]
    /\ sends \in [Keys -> Nat]
    /\ faults \in 0..MaxFaults
    /\ crashes \in 0..MaxCrashes

Init ==
    /\ row = [j \in Jobs |-> [id |-> "local", status |-> "none", retry |-> 0,
                              revived |-> 0]]
    /\ queue = <<>>
    /\ user = "new" /\ known = "no"
    /\ delivery = [k \in Keys |-> [status |-> "none", sent |-> 0]]
    /\ effect = [k \in Keys |-> [status |-> "none", sent |-> 0]]
    /\ tracker = {}
    /\ slot = [s \in Slots |-> Idle]
    /\ sends = [k \in Keys |-> 0]
    /\ faults = 0 /\ crashes = 0

-----------------------------------------------------------------------------
Key(s)  == <<slot[s].job, slot[s].id>>
At(s, pc) == slot[s].pc = pc
Goto(s, pc) == slot' = [slot EXCEPT ![s].pc = pc]
Release(s)  == slot' = [slot EXCEPT ![s] = Idle]

\* A call that fails uses up one of the bounded faults.
Charge(ok) ==
    \/ ok /\ UNCHANGED faults
    \/ ~ok /\ faults < MaxFaults /\ faults' = faults + 1

\* An exception reaches _send_one_job: classify_delivery_error tells the
\* errors that bury the job from those that let it be retried.
Raise(s) == \E pc \in {"bury", "fail"} : Goto(s, pc)

Write(op, j, id, n) == [op |-> op, job |-> j, id |-> id, n |-> n]
Push(w) == queue' = Append(queue, w)

\* A status change through the pipeline (push raises when Redis and the outbox
\* both fail).
PushStatus(s, op, n) == Push(Write(op, slot[s].job, slot[s].id, n))

Busy(j) == \E s \in Slots : ~At(s, "idle") /\ ~At(s, "listed") /\ slot[s].job = j
Late(j) == \E i \in DOMAIN queue : queue[i].op # "started" /\ queue[i].job = j

-----------------------------------------------------------------------------
(* The queue.                                                              *)

\* enqueue_job: insert_local_job with a temporary negative id.
Enqueue(j) ==
    /\ row[j].status = "none"
    /\ row' = [row EXCEPT ![j].status = "pending"]
    /\ UNCHANGED <<queue, user, known, receipts, tracker, slot, sends, faults, crashes>>

\* _sync_new_job_to_crdb, in the background, whatever the job is doing.
AssignCrdbId(j) ==
    /\ row[j].status # "none" /\ row[j].id = "local"
    /\ row' = [row EXCEPT ![j].id = "crdb"]
    /\ UNCHANGED <<queue, user, known, receipts, tracker, slot, sends, faults, crashes>>

\* db_writer executes the oldest write: UPDATE ... WHERE crdb_id = ?, which
\* looks neither at the current status nor at who dispatched the job.
Updated(r, w) ==
    CASE w.op \in {"done", "dead"} -> [r EXCEPT !.status = w.op]
      [] w.op = "retry"  -> [r EXCEPT !.status = "pending", !.retry = w.n]
      [] w.op = "revive" -> [r EXCEPT !.status = "pending", !.retry = 0, !.revived = @ + 1]
ApplyWrite ==
    /\ queue # <<>>
    /\ queue' = Tail(queue)
    /\ LET w == Head(queue) IN
        IF w.op = "started"
        THEN known' = "yes" /\ UNCHANGED row
        ELSE /\ row' = IF row[w.job].id = w.id
                       THEN [row EXCEPT ![w.job] = Updated(@, w)] ELSE row
             /\ UNCHANGED known
    /\ UNCHANGED <<user, receipts, tracker, slot, sends, faults, crashes>>

\* The oldest write fails and comes back behind the others (DLQ retry), or is
\* parked for good.
DelayWrite ==
    /\ queue # <<>>
    /\ Charge(FALSE)
    /\ queue' \in {Append(Tail(queue), Head(queue)), Tail(queue)}
    /\ UNCHANGED <<row, user, known, receipts, tracker, slot, sends, crashes>>

\* reclaim_stale_dispatched: dispatched for 600 s.  It is a fault if a slot
\* still works on the job or if its status change is still queued by then.
Reclaim(j) ==
    /\ row[j].status = "dispatched" /\ row[j].id = "crdb"
    /\ Charge(~Busy(j) /\ ~Late(j))
    /\ row' = [row EXCEPT ![j].status = "pending"]
    /\ UNCHANGED <<queue, user, known, receipts, tracker, slot, sends, crashes>>

\* _retry_dead_jobs, hourly.  It is a fault if a status change of the job, as the
\* last revival, is still queued by then.
ReviveDead(j) ==
    /\ row[j].status = "dead" /\ row[j].revived < MaxRevive
    /\ Charge(~Late(j))
    /\ Push(Write("revive", j, row[j].id, 0))
    /\ UNCHANGED <<row, user, known, receipts, tracker, slot, sends, crashes>>

-----------------------------------------------------------------------------
(* The user's /start: mark_user_started is queued, the reactivation of the *)
(* waiting jobs is executed at once.                                       *)

SendStart ==
    /\ user = "new"
    /\ Push(StartedWrite)
    /\ user' = "reactivate"
    /\ UNCHANGED <<row, known, receipts, tracker, slot, sends, faults, crashes>>

\* Only if some waiting job has its CRDB id is anything reactivated.
ReactivateWaiting ==
    /\ user = "reactivate"
    /\ user' = "started"
    /\ LET waiting == {j \in Jobs : row[j].status = "waiting_start"} IN
        row' = IF \E j \in waiting : row[j].id = "crdb"
               THEN [j \in Jobs |-> IF j \in waiting
                                    THEN [row[j] EXCEPT !.status = "pending"]
                                    ELSE row[j]]
               ELSE row
    /\ UNCHANGED <<queue, known, receipts, tracker, slot, sends, faults, crashes>>

-----------------------------------------------------------------------------
(* _dsp_worker: list pending jobs, then claim one by compare-and-set.  The *)
(* Redis path claims first and reads afterwards: a claim with fresh fields.*)

ListPending(s) ==
    /\ At(s, "idle")
    /\ \E j \in Jobs :
        /\ row[j].status = "pending"
        /\ slot' = [slot EXCEPT ![s] = [pc |-> "listed", job |-> j, id |-> row[j].id,
                                        retry |-> row[j].retry, sent |-> 0]]
    /\ UNCHANGED <<row, queue, user, known, receipts, tracker, sends, faults, crashes>>

\* Seeded bug: the claim does not compare the status.
ClaimUnguarded(s) ==
    /\ At(s, "listed")
    /\ LET j == slot[s].job IN
        IF row[j].id = slot[s].id
        THEN /\ row' = [row EXCEPT ![j].status = "dispatched"]
             /\ Goto(s, "begin")
        ELSE Release(s) /\ UNCHANGED row
    /\ UNCHANGED <<queue, user, known, receipts, tracker, sends, faults, crashes>>

\* mark_local_job_dispatched.
Claim(s) ==
    /\ At(s, "listed")
    /\ LET j == slot[s].job IN
        IF row[j].status = "pending" /\ row[j].id = slot[s].id
        THEN /\ row' = [row EXCEPT ![j].status = "dispatched"]
             /\ Goto(s, "begin")
        ELSE Release(s) /\ UNCHANGED row
    /\ UNCHANGED <<queue, user, known, receipts, tracker, sends, faults, crashes>>

-----------------------------------------------------------------------------
(* _send_one_job and _process_single_job.                                  *)

\* Dead already, user not started, file already sent by this process, or on to
\* the delivery, unless the semaphore times out.
Begin(s) ==
    /\ At(s, "begin")
    /\ \/ slot[s].retry >= MaxRetry /\ Goto(s, "bury")
       \/ /\ slot[s].retry < MaxRetry
          /\ \/ known = "no" /\ Goto(s, "wait")
             \/ known = "yes" /\ Key(s) \in tracker /\ Goto(s, "skip")
             \/ /\ known = "yes" /\ Key(s) \notin tracker
                /\ \E pc \in {"read", "fail"} : Goto(s, pc)
    /\ UNCHANGED <<row, queue, user, known, receipts, tracker, sends, faults, crashes>>

\* mark_job_waiting_start: unguarded, and after the user was looked up.
MarkWaiting(s) ==
    /\ At(s, "wait")
    /\ LET j == slot[s].job IN
        row' = IF row[j].id = slot[s].id
               THEN [row EXCEPT ![j].status = "waiting_start"] ELSE row
    /\ Release(s)
    /\ UNCHANGED <<queue, user, known, receipts, tracker, sends, faults, crashes>>

\* Everything filtered out: done, without sending.
Skip(s) ==
    /\ At(s, "skip")
    /\ tracker' = tracker \ {Key(s)}
    /\ \E ok \in BOOLEAN :
        /\ Charge(ok)
        /\ IF ok THEN PushStatus(s, "done", 0) ELSE UNCHANGED queue
    /\ Release(s)
    /\ UNCHANGED <<row, user, known, receipts, sends, crashes>>

\* Seeded bug: a receipt of any status counts as a delivery.
ReadReceiptsAnyStatus(s) ==
    /\ At(s, "read")
    /\ IF delivery[Key(s)].status # "none"
       THEN tracker' = tracker \cup {Key(s)} /\ Goto(s, "finish")
       ELSE Goto(s, "pend") /\ UNCHANGED tracker
    /\ UNCHANGED <<row, queue, user, known, receipts, sends, faults, crashes>>

\* get_delivery_receipts_by_job: a failing SELECT reads as "no receipts".
ReadReceipts(s) ==
    /\ At(s, "read")
    /\ \E ok \in BOOLEAN :
        /\ Charge(ok)
        /\ IF ok /\ delivery[Key(s)].status = "CONFIRMED"
           THEN tracker' = tracker \cup {Key(s)} /\ Goto(s, "finish")
           ELSE Goto(s, "pend") /\ UNCHANGED tracker
    /\ UNCHANGED <<row, queue, user, known, receipts, sends, crashes>>

\* upsert_delivery_receipt: INSERT OR REPLACE, which forgets an earlier
\* sent_msg_id; outside db_writer a failing INSERT is not reported.
UpsertPending(s) ==
    /\ At(s, "pend")
    /\ \E ok \in BOOLEAN :
        /\ Charge(ok)
        /\ delivery' = IF ok THEN [delivery EXCEPT ![Key(s)] =
                                     [status |-> "PENDING", sent |-> 0]]
                             ELSE delivery
    /\ Goto(s, "check")
    /\ UNCHANGED <<row, queue, user, known, effect, tracker, sends, crashes>>

\* EffectReceiptContext.__aenter__: check_receipt ...
CheckReceipt(s) ==
    /\ At(s, "check")
    /\ \E ok \in BOOLEAN :
        /\ Charge(ok)
        /\ \/ ~ok /\ Raise(s)
           \/ ok /\ effect[Key(s)].status = "completed" /\ Goto(s, "verify")
           \/ ok /\ effect[Key(s)].status # "completed" /\ Goto(s, "claim")
    /\ UNCHANGED <<row, queue, user, known, receipts, tracker, sends, crashes>>

\* _verify_skipped_receipt: the two receipts must name the same message.
VerifySkipped(s) ==
    /\ At(s, "verify")
    /\ \E ok \in BOOLEAN :
        /\ Charge(ok)
        /\ IF ok /\ delivery[Key(s)].sent = effect[Key(s)].sent
           THEN tracker' = tracker \cup {Key(s)} /\ Goto(s, "finish")
           ELSE Goto(s, "fail") /\ UNCHANGED tracker
    /\ UNCHANGED <<row, queue, user, known, receipts, sends, crashes>>

\* Seeded bug: record_pending also takes over a completed receipt.
RecordPendingOverCompleted(s) ==
    /\ At(s, "claim")
    /\ effect' = [effect EXCEPT ![Key(s)].status = "pending"]
    /\ Goto(s, "send")
    /\ UNCHANGED <<row, queue, user, known, delivery, tracker, sends, faults, crashes>>

\* ... then record_pending: a pending receipt is taken over, a completed one
\* is a terminal-state error.
RecordPending(s) ==
    /\ At(s, "claim")
    /\ \E ok \in BOOLEAN :
        /\ Charge(ok)
        /\ \/ ~ok /\ Raise(s) /\ UNCHANGED effect
           \/ ok /\ effect[Key(s)].status = "completed" /\ Goto(s, "bury") /\ UNCHANGED effect
           \/ /\ ok /\ effect[Key(s)].status # "completed"
              /\ effect' = [effect EXCEPT ![Key(s)].status = "pending"]
              /\ Goto(s, "send")
    /\ UNCHANGED <<row, queue, user, known, delivery, tracker, sends, crashes>>

\* try_deliver over the resolved channel and the ring: the copy is made and its
\* id returned, or every channel refused.
Send(s) ==
    /\ At(s, "send")
    /\ \/ /\ sends' = [sends EXCEPT ![Key(s)] = @ + 1]
          /\ slot' = [slot EXCEPT ![s].pc = "confirm", ![s].sent = sends[Key(s)] + 1]
          /\ tracker' = tracker \cup {Key(s)}
       \/ Goto(s, "failed") /\ UNCHANGED <<sends, tracker>>
    /\ UNCHANGED <<row, queue, user, known, receipts, faults, crashes>>

\* A copy was made but its reply was lost: the next channel is tried.
SendUnseen(s) ==
    /\ At(s, "send")
    /\ Charge(FALSE)
    /\ sends' = [sends EXCEPT ![Key(s)] = @ + 1]
    /\ UNCHANGED <<row, queue, user, known, receipts, tracker, slot, crashes>>

\* Resolving a channel raises: __aexit__ records the failure.
SendRaises(s) ==
    /\ At(s, "send")
    /\ Charge(FALSE)
    /\ effect' = IF effect[Key(s)].status = "pending"
                 THEN [effect EXCEPT ![Key(s)].status = "failed"] ELSE effect
    /\ Raise(s)
    /\ UNCHANGED <<row, queue, user, known, delivery, tracker, sends, crashes>>

\* mark_delivery_failed; the effect receipt stays pending (mark_no_record).
MarkFailed(s) ==
    /\ At(s, "failed")
    /\ \E ok \in BOOLEAN :
        /\ Charge(ok)
        /\ delivery' = IF ok /\ delivery[Key(s)].status # "none"
                       THEN [delivery EXCEPT ![Key(s)].status = "FAILED"] ELSE delivery
    /\ Goto(s, "fail")
    /\ UNCHANGED <<row, queue, user, known, effect, tracker, sends, crashes>>

\* confirm_delivery_receipt: an UPDATE; a failure is not reported.
Confirm(s) ==
    /\ At(s, "confirm")
    /\ \E ok \in BOOLEAN :
        /\ Charge(ok)
        /\ delivery' = IF ok /\ delivery[Key(s)].status # "none"
                       THEN [delivery EXCEPT ![Key(s)] = [status |-> "CONFIRMED",
                                                          sent |-> slot[s].sent]]
                       ELSE delivery
    /\ Goto(s, "record")
    /\ UNCHANGED <<row, queue, user, known, effect, tracker, sends, crashes>>

\* Seeded bug: set_external_id was forgotten.
RecordCompletedBlank(s) ==
    /\ At(s, "record")
    /\ IF effect[Key(s)].status = "pending"
       THEN /\ effect' = [effect EXCEPT ![Key(s)] = [status |-> "completed", sent |-> 0]]
            /\ Goto(s, "finish")
       ELSE Goto(s, "bury") /\ UNCHANGED effect
    /\ UNCHANGED <<row, queue, user, known, delivery, tracker, sends, faults, crashes>>

\* __aexit__: record_completed, of a pending receipt only.
RecordCompleted(s) ==
    /\ At(s, "record")
    /\ \E ok \in BOOLEAN :
        /\ Charge(ok)
        /\ \/ ~ok /\ Raise(s) /\ UNCHANGED effect
           \/ ok /\ effect[Key(s)].status # "pending" /\ Goto(s, "bury") /\ UNCHANGED effect
           \/ /\ ok /\ effect[Key(s)].status = "pending"
              /\ effect' = [effect EXCEPT ![Key(s)] = [status |-> "completed",
                                                       sent |-> slot[s].sent]]
              /\ Goto(s, "finish")
    /\ UNCHANGED <<row, queue, user, known, delivery, tracker, sends, crashes>>

\* Back in _send_one_job: done ...
Finish(s) ==
    /\ At(s, "finish")
    /\ \E ok \in BOOLEAN :
        /\ Charge(ok)
        /\ IF ok
           THEN PushStatus(s, "done", 0) /\ tracker' = tracker \ {Key(s)} /\ Release(s)
           ELSE Raise(s) /\ UNCHANGED <<queue, tracker>>
    /\ UNCHANGED <<row, user, known, receipts, sends, crashes>>

\* Seeded bugs: one attempt too many; an attempt that is not counted.
FailOffByOne(s) ==
    /\ At(s, "fail")
    /\ IF slot[s].retry + 1 > MaxRetry
       THEN PushStatus(s, "dead", 0) /\ tracker' = tracker \ {Key(s)}
       ELSE PushStatus(s, "retry", slot[s].retry + 1) /\ UNCHANGED tracker
    /\ Release(s)
    /\ UNCHANGED <<row, user, known, receipts, sends, faults, crashes>>
FailUncounted(s) ==
    /\ At(s, "fail")
    /\ PushStatus(s, "retry", slot[s].retry)
    /\ Release(s)
    /\ UNCHANGED <<row, user, known, receipts, tracker, sends, faults, crashes>>

\* ... or another attempt, or dead when that was the last one ...
Fail(s) ==
    /\ At(s, "fail")
    /\ LET last == slot[s].retry + 1 >= MaxRetry IN
       \E ok \in BOOLEAN :
        /\ Charge(ok)
        /\ tracker' = IF last THEN tracker \ {Key(s)} ELSE tracker
        /\ CASE ~ok       -> UNCHANGED queue
             [] ok /\ last  -> PushStatus(s, "dead", 0)
             [] ok /\ ~last -> PushStatus(s, "retry", slot[s].retry + 1)
    /\ Release(s)
    /\ UNCHANGED <<row, user, known, receipts, sends, crashes>>

\* ... or dead at once.
Bury(s) ==
    /\ At(s, "bury")
    /\ tracker' = tracker \ {Key(s)}
    /\ \E ok \in BOOLEAN :
        /\ Charge(ok)
        /\ IF ok THEN PushStatus(s, "dead", 0) ELSE UNCHANGED queue
    /\ Release(s)
    /\ UNCHANGED <<row, user, known, receipts, sends, crashes>>

\* dsp_bot dies: its slots, its tracker and a running /start handler are gone.
Crash ==
    /\ crashes < MaxCrashes
    /\ crashes' = crashes + 1
    /\ slot' = [s \in Slots |-> Idle]
    /\ tracker' = {}
    /\ user' = IF user = "reactivate" THEN "started" ELSE user
    /\ UNCHANGED <<row, queue, known, receipts, sends, faults>>

-----------------------------------------------------------------------------
SlotStep(s) ==
    \/ ListPending(s) \/ Claim(s) \/ Begin(s) \/ MarkWaiting(s) \/ Skip(s)
    \/ ReadReceipts(s) \/ UpsertPending(s) \/ CheckReceipt(s) \/ VerifySkipped(s)
    \/ RecordPending(s) \/ Send(s) \/ MarkFailed(s) \/ Confirm(s)
    \/ RecordCompleted(s) \/ Finish(s) \/ Fail(s) \/ Bury(s)

Next ==
    \/ \E j \in Jobs : Enqueue(j) \/ AssignCrdbId(j) \/ Reclaim(j) \/ ReviveDead(j)
    \/ ApplyWrite \/ DelayWrite \/ SendStart \/ ReactivateWaiting \/ Crash
    \/ \E s \in Slots : SlotStep(s) \/ SendUnseen(s) \/ SendRaises(s)

Spec == Init /\ [][Next]_vars

\* The slots, db_writer, the reclaim loop and the hourly revival are supervised
\* loops, and the /start handler runs to its end.  Users, the CRDB, faults and
\* crashes get no fairness.
FairSpec ==
    /\ Spec
    /\ WF_vars(ApplyWrite) /\ WF_vars(ReactivateWaiting)
    /\ \A s \in Slots : WF_vars(SlotStep(s))
    /\ \A j \in Jobs : WF_vars(Reclaim(j)) /\ WF_vars(ReviveDead(j))

-----------------------------------------------------------------------------
(* Properties.                                                             *)

\* A job is marked done only after a copy reached the user's chat.
DoneWasSent ==
    \A j \in Jobs : row[j].status = "done" => sends[<<j, "local">>] + sends[<<j, "crdb">>] > 0

\* Under one job id the receipts let through one copy as long as nothing fails.
\* After a first failure every further copy still has a cause of its own: a
\* failed call, a slot slower than the reclaim, a crash of dsp_bot, or a revival
\* of the buried job.
ExtraCopiesHaveCauses ==
    \A k \in Keys :
        /\ faults + crashes = 0 => sends[k] <= 1
        /\ sends[k] <= 1 + faults + crashes + row[k[1]].revived

\* The two receipts of a delivery name the same copy, also when dsp_bot crashed
\* between any two of its steps, as long as no call failed and no slot was slow.
ReceiptsAgree ==
    \A k \in Keys :
        /\ faults = 0
        /\ delivery[k].status = "CONFIRMED" /\ effect[k].status = "completed"
        => delivery[k].sent = effect[k].sent

\* A completed effect receipt is final: no retry, no second worker and no
\* recorded failure changes it.
CompletedIsFinal ==
    [][\A k \in Keys : effect[k].status = "completed" => effect'[k] = effect[k]]_vars

\* Retries end: every job comes to rest done, dead or waiting for its user (or
\* dispatched under a temporary id, which nothing reclaims).
EventuallyAtRest ==
    \A j \in Jobs :
        <>[](\/ row[j].status \in {"none", "done", "dead", "waiting_start"}
             \/ row[j].status = "dispatched" /\ row[j].id = "local")

\* One copy per job when nothing fails.
OneCopyPerJob ==
    faults + crashes = 0 =>
        \A j \in Jobs : sends[<<j, "local">>] + sends[<<j, "crdb">>] <= 1

=============================================================================
