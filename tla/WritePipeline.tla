---------------------------- MODULE WritePipeline ----------------------------
(***************************************************************************)
(* The durable write pipeline: producers (database/write_router.py and     *)
(* push() in database/redis_queue.py), the main Redis Stream with its one  *)
(* consumer group, the db_writer process (database/db_writer.py) with its  *)
(* writer_inbox, the dead-letter stream and the DLQ worker coroutine       *)
(* (database/dlq_worker.py), the dead_letter.jsonl file, and the local     *)
(* durable outbox with its replayers.                                      *)
(*                                                                         *)
(* A Redis call has three outcomes: it works, it is refused (not executed),*)
(* or it is executed and its reply is lost (socket_timeout = 2 s).  Redis  *)
(* keeps its data.  Acknowledged entries leave `stream`: nothing in the    *)
(* pipeline reads them again (SafeTrim is about what Redis still stores).  *)
(***************************************************************************)
EXTENDS Integers, FiniteSets

CONSTANTS
    Msgs,          \* message ids; one queued write each
    MaxAttempts,   \* WRITER_DEAD_MAX_ATTEMPTS
    BatchSize,     \* WRITER_BATCH_SIZE, the count of XREADGROUP / XAUTOCLAIM
    ScanLimit,     \* the count of get_dead_messages (100 in the code)
    Replayers,     \* processes that call replay_durable_outbox
    ReplayCalled,  \* does anything call replay_durable_outbox at all?
    MaxFaults,     \* bound: failed Redis calls, failed local writes, slow leases
    MaxCrashes     \* bound: crashes of db_writer or of a replayer

ASSUME PipelineAssumption ==
    /\ MaxAttempts \in Nat \ {0}
    /\ BatchSize \in Nat \ {0}
    /\ ScanLimit \in Nat \ {0}
    /\ ReplayCalled \in BOOLEAN
    /\ MaxFaults \in Nat
    /\ MaxCrashes \in Nat

VARIABLES
    reply,     \* [Msgs -> Reply]: what push() has told the caller so far
    stream,    \* entries of the main stream not acknowledged yet
    last,      \* last-delivered-id of the consumer group
    nextId,    \* next id Redis gives a main-stream entry
    dead,      \* entries of the dead-letter stream
    nextDead,  \* next id Redis gives a dead letter
    file,      \* messages written to dead_letter.jsonl
    row,       \* [Msgs -> durable_outbox row]
    inbox,     \* messages recorded in writer_inbox
    applied,   \* [Msgs -> Nat] history: committed executions of the write
    batch,     \* entries pop() returned and _process_message has not finished
    wpc,       \* where db_writer stands in pop / _process_message
    failure,   \* the failure being buried: permanent is a TypeError or DurabilityError
    dlq,       \* where the DLQ worker stands, and the letter it is retrying
    rep,       \* [Replayers -> the row being replayed, and where it stands]
    faults, crashes

redisMain == <<stream, last, nextId>>
redisDead == <<dead, nextDead>>
writer    == <<batch, wpc, failure>>
sqlite    == <<inbox, applied>>
vars == <<reply, redisMain, redisDead, file, row, sqlite, writer, dlq, rep,
          faults, crashes>>

Reply  == {"new", "outbox", "ok", "error"}
Status == {"none", "pending", "publishing", "replayed", "quarantined"}
Entry  == [id : Nat, msg : Msgs, att : Nat]
Retry  == {"later", "never"}                     \* next_retry_at, or None
Letter == [id : Nat, msg : Msgs, att : Nat, retry : Retry]
Failure == {"transient", "permanent"}

TypeOK ==
    /\ reply \in [Msgs -> Reply]
    /\ stream \subseteq Entry
    /\ last \in Nat /\ nextId \in Nat
    /\ dead \subseteq Letter
    /\ nextDead \in Nat
    /\ file \subseteq Msgs
    /\ row \in [Msgs -> [status : Status, att : Nat]]
    /\ inbox \subseteq Msgs
    /\ applied \in [Msgs -> Nat]
    /\ batch \subseteq Entry
    /\ wpc \in {"pop", "check", "execute", "bury", "ack"}
    /\ failure \in Failure
    /\ dlq \in [pc : {"init", "off", "scan"}] \cup
               [pc : {"requeue", "push", "park", "delete"}, letter : Letter]
    /\ rep \in [Replayers -> [pc : {"idle"}] \cup
                             [pc : {"xadd", "mark", "letter"}, msg : Msgs]]
    /\ faults \in 0..MaxFaults
    /\ crashes \in 0..MaxCrashes

Init ==
    /\ reply = [m \in Msgs |-> "new"]
    /\ stream = {} /\ last = 0 /\ nextId = 1
    /\ dead = {} /\ nextDead = 1
    /\ file = {}
    /\ row = [m \in Msgs |-> [status |-> "none", att |-> 0]]
    /\ inbox = {} /\ applied = [m \in Msgs |-> 0]
    /\ batch = {} /\ wpc = "pop" /\ failure = "transient"
    /\ dlq = [pc |-> "init"]
    /\ rep = [r \in Replayers |-> [pc |-> "idle"]]
    /\ faults = 0 /\ crashes = 0

-----------------------------------------------------------------------------
(* Calls to Redis and to local storage.                                    *)

Outcome == {"ok", "refused", "lost"}
Executed(o) == o # "refused"

\* A call that fails uses up one of the bounded faults.
Charge(ok) ==
    \/ ok /\ UNCHANGED faults
    \/ ~ok /\ faults < MaxFaults /\ faults' = faults + 1

XAdd(o, m, att) ==
    IF Executed(o)
    THEN /\ stream' = stream \cup {[id |-> nextId, msg |-> m, att |-> att]}
         /\ nextId' = nextId + 1
    ELSE UNCHANGED <<stream, nextId>>

\* write_durable_outbox: INSERT a pending row; when the message already has a
\* row, of whatever status, the UNIQUE conflict with an equal hash is a success.
WriteDurableOutbox(m, att) ==
    row' = IF row[m].status = "none"
           THEN [row EXCEPT ![m] = [status |-> "pending", att |-> att]]
           ELSE row

SetStatus(m, s) == row' = [row EXCEPT ![m].status = s]

\* Seeded bug: a retryable letter loses an attempt.
DeadAttemptsUncounted(att, fail) == IF fail = "permanent" THEN MaxAttempts ELSE att - 1

\* push_dead: the attempts the dead letter carries, and whether it is final.
DeadAttempts(att, fail) ==
    IF fail = "permanent" THEN MaxAttempts ELSE IF att > 0 THEN att ELSE att + 1
DeadRetry(att, fail) ==
    IF DeadAttempts(att, fail) >= MaxAttempts THEN "never" ELSE "later"

\* push_dead: XADD to the dead-letter stream; when that call fails, append to
\* dead_letter.jsonl.  `filed` says whether the append worked.
PushDead(o, filed, m, att, fail) ==
    /\ IF Executed(o)
       THEN /\ dead' = dead \cup {[id |-> nextDead, msg |-> m,
                                   att |-> DeadAttempts(att, fail),
                                   retry |-> DeadRetry(att, fail)]}
            /\ nextDead' = nextDead + 1
       ELSE UNCHANGED redisDead
    /\ file' = IF o # "ok" /\ filed THEN file \cup {m} ELSE file
    /\ Charge(o = "ok")
\* Seeded bug: push_dead's verdict is ignored.
DeadOkUnchecked(o, filed) == TRUE
DeadOk(o, filed) == o = "ok" \/ filed

-----------------------------------------------------------------------------
(* Producers: route_write and push.                                        *)

PushToStream(m) ==
    /\ reply[m] = "new"
    /\ \E o \in Outcome :
        /\ XAdd(o, m, 0)
        /\ Charge(o = "ok")
        /\ reply' = [reply EXCEPT ![m] = IF o = "ok" THEN "ok" ELSE "outbox"]
    /\ UNCHANGED <<last, redisDead, file, row, sqlite, writer, dlq, rep, crashes>>

PushToOutbox(m) ==
    /\ reply[m] = "outbox"
    /\ \/ /\ WriteDurableOutbox(m, 0)
          /\ reply' = [reply EXCEPT ![m] = "ok"]
          /\ UNCHANGED faults
       \/ /\ Charge(FALSE)                       \* AppError reaches the caller
          /\ reply' = [reply EXCEPT ![m] = "error"]
          /\ UNCHANGED row
    /\ UNCHANGED <<redisMain, redisDead, file, sqlite, writer, dlq, rep, crashes>>

-----------------------------------------------------------------------------
(* db_writer: pop, _process_message, _execute_atomic, _safe_ack.           *)

\* Seeded bug: XAUTOCLAIM skips the newest pending entry.
PendingButNewest == {e \in stream : e.id < last}
Pending     == {e \in stream : e.id <= last}
Undelivered == {e \in stream : e.id > last}
IsCurrent(e) == e \in batch /\ \A f \in batch : e.id <= f.id

\* The message is finished: the next one of the batch, or back to pop.
Advance(e) ==
    /\ batch' = batch \ {e}
    /\ wpc' = IF batch = {e} THEN "pop" ELSE "check"
    /\ UNCHANGED failure

\* XAUTOCLAIM of pending entries that have been idle for 30 s.
PopReclaimed ==
    /\ wpc = "pop"
    /\ \E idle \in SUBSET Pending :
        /\ idle # {} /\ Cardinality(idle) <= BatchSize
        /\ batch' = idle
    /\ wpc' = "check"
    /\ UNCHANGED <<failure, reply, redisMain, redisDead, file, row, sqlite,
                   dlq, rep, faults, crashes>>

\* XREADGROUP ">".  When the reply is lost the entries are pending, unread.
PopNew ==
    /\ wpc = "pop"
    /\ \E new \in SUBSET Undelivered, o \in {"ok", "lost"} :
        /\ new # {} /\ Cardinality(new) <= BatchSize
        /\ \A e \in new, f \in Undelivered \ new : e.id < f.id
        /\ Cardinality(new) < BatchSize => new = Undelivered
        /\ Charge(o = "ok")
        /\ \E e \in new : (\A f \in new : f.id <= e.id) /\ last' = e.id
        /\ batch' = IF o = "ok" THEN new ELSE {}
        /\ wpc' = IF o = "ok" THEN "check" ELSE "pop"
    /\ UNCHANGED <<failure, reply, stream, nextId, redisDead, file, row,
                   sqlite, dlq, rep, crashes>>

\* check_writer_inbox; a failing SELECT reads as "not processed".
CheckInbox ==
    /\ wpc = "check"
    /\ \E e \in batch, ok \in BOOLEAN :
        /\ IsCurrent(e)
        /\ Charge(ok)
        /\ wpc' = IF ok /\ e.msg \in inbox THEN "ack" ELSE "execute"
    /\ UNCHANGED <<batch, failure, reply, redisMain, redisDead, file, row,
                   sqlite, dlq, rep, crashes>>

\* Seeded bug: the transaction ignores a conflicting inbox row.
ExecuteUnguarded ==
    /\ wpc = "execute"
    /\ \E e \in batch :
        /\ IsCurrent(e)
        /\ inbox' = inbox \cup {e.msg}
        /\ applied' = [applied EXCEPT ![e.msg] = @ + 1]
    /\ wpc' = "ack"
    /\ UNCHANGED <<failure, batch, reply, redisMain, redisDead, file, row, dlq,
                   rep, faults, crashes>>

\* BEGIN IMMEDIATE; INSERT OR IGNORE inbox; the business write; COMMIT.
ExecuteAtomic ==
    /\ wpc = "execute"
    /\ \E e \in batch :
        /\ IsCurrent(e)
        /\ \/ /\ e.msg \in inbox                 \* _InboxConflict: ROLLBACK
              /\ wpc' = "ack"
              /\ UNCHANGED <<sqlite, failure>>
           \/ /\ e.msg \notin inbox              \* COMMIT
              /\ inbox' = inbox \cup {e.msg}
              /\ applied' = [applied EXCEPT ![e.msg] = @ + 1]
              /\ wpc' = "ack"
              /\ UNCHANGED failure
           \/ /\ e.msg \notin inbox              \* the write raised: ROLLBACK
              /\ failure' \in Failure
              /\ wpc' = "bury"
              /\ UNCHANGED sqlite
    /\ UNCHANGED <<batch, reply, redisMain, redisDead, file, row, dlq, rep,
                   faults, crashes>>

\* push_dead for the failed message.  Only a dead letter that was stored lets
\* the entry be acknowledged; otherwise it stays pending.
Bury ==
    /\ wpc = "bury"
    /\ \E e \in batch, o \in Outcome, filed \in BOOLEAN :
        /\ IsCurrent(e)
        /\ PushDead(o, filed, e.msg, e.att, failure)
        /\ IF DeadOk(o, filed)
           THEN wpc' = "ack" /\ UNCHANGED <<batch, failure>>
           ELSE Advance(e)
    /\ UNCHANGED <<reply, redisMain, row, sqlite, dlq, rep, crashes>>

\* XACK; a failing call is logged and the entry stays pending.
SafeAck ==
    /\ wpc = "ack"
    /\ \E e \in batch, o \in Outcome :
        /\ IsCurrent(e)
        /\ Charge(o = "ok")
        /\ stream' = IF Executed(o) THEN stream \ {e} ELSE stream
        /\ Advance(e)
    /\ UNCHANGED <<reply, last, nextId, redisDead, file, row, sqlite, dlq, rep,
                   crashes>>

-----------------------------------------------------------------------------
(* The DLQ worker coroutine: init, _process_dead_messages, _retry_message.  *)

\* _run_dlq_worker: one health check; when it fails the coroutine returns, and
\* this db_writer process has no DLQ worker any more.
DlqInit ==
    /\ dlq.pc = "init"
    /\ \E ok \in BOOLEAN :
        /\ Charge(ok)
        /\ dlq' = [pc |-> IF ok THEN "scan" ELSE "off"]
    /\ UNCHANGED <<reply, redisMain, redisDead, file, row, sqlite, writer, rep,
                   crashes>>

IsRetryable(d) == d.retry = "later" /\ d.att < MaxAttempts

\* get_dead_messages: the oldest letters, whether they may be retried or not.
Older(d) == {e \in dead : e.id < d.id}
DeadMessages == {d \in dead : Cardinality(Older(d)) < ScanLimit}

\* Pick one of them whose next_retry_at has passed.
ScanDead ==
    /\ dlq.pc = "scan"
    /\ \E d \in DeadMessages :
        /\ IsRetryable(d)
        /\ dlq' = [pc |-> "requeue", letter |-> d]
    /\ UNCHANGED <<reply, redisMain, redisDead, file, row, sqlite, writer, rep,
                   faults, crashes>>

RetryAttempts(d) == d.att + 1

\* requeue_from_dlq: the Lua script that does XADD and XDEL in one step.
RequeueFromDlq ==
    /\ dlq.pc = "requeue"
    /\ \E o \in Outcome :
        /\ XAdd(o, dlq.letter.msg, RetryAttempts(dlq.letter))
        /\ dead' = IF Executed(o) THEN dead \ {dlq.letter} ELSE dead
        /\ Charge(o = "ok")
        /\ dlq' = IF o = "ok" THEN [pc |-> "scan"] ELSE [dlq EXCEPT !.pc = "push"]
    /\ UNCHANGED <<reply, last, nextDead, file, row, sqlite, writer, rep, crashes>>

\* The degraded path: push(), first the stream ...
RetryPush ==
    /\ dlq.pc = "push"
    /\ \E o \in Outcome :
        /\ XAdd(o, dlq.letter.msg, RetryAttempts(dlq.letter))
        /\ Charge(o = "ok")
        /\ dlq' = [dlq EXCEPT !.pc = IF o = "ok" THEN "delete" ELSE "park"]
    /\ UNCHANGED <<reply, last, redisDead, file, row, sqlite, writer, rep, crashes>>

\* ... then the durable outbox (an AppError ends this scan).
RetryPark ==
    /\ dlq.pc = "park"
    /\ \/ /\ WriteDurableOutbox(dlq.letter.msg, RetryAttempts(dlq.letter))
          /\ dlq' = [dlq EXCEPT !.pc = "delete"]
          /\ UNCHANGED faults
       \/ /\ Charge(FALSE)
          /\ dlq' = [pc |-> "scan"]
          /\ UNCHANGED row
    /\ UNCHANGED <<reply, redisMain, redisDead, file, sqlite, writer, rep, crashes>>

\* ... then delete_dead_message.
DeleteDead ==
    /\ dlq.pc = "delete"
    /\ \E o \in Outcome :
        /\ dead' = IF Executed(o) THEN dead \ {dlq.letter} ELSE dead
        /\ Charge(o = "ok")
    /\ dlq' = [pc |-> "scan"]
    /\ UNCHANGED <<reply, redisMain, nextDead, file, row, sqlite, writer, rep,
                   crashes>>

\* db_writer dies: its loop and its DLQ coroutine restart from the top.
WriterCrash ==
    /\ crashes < MaxCrashes
    /\ crashes' = crashes + 1
    /\ batch' = {} /\ wpc' = "pop" /\ failure' = "transient"
    /\ dlq' = [pc |-> "init"]
    /\ UNCHANGED <<reply, redisMain, redisDead, file, row, sqlite, rep, faults>>

-----------------------------------------------------------------------------
(* replay_durable_outbox.                                                  *)

InFlight(m) == \E r \in Replayers : rep[r].pc # "idle" /\ rep[r].msg = m

\* Seeded bug: expired leases are looked for among the pending rows.
ReclaimPendingLease(r) ==
    /\ ReplayCalled /\ rep[r].pc = "idle"
    /\ \E m \in Msgs : row[m].status = "pending" /\ SetStatus(m, "pending")
    /\ UNCHANGED <<reply, redisMain, redisDead, file, sqlite, writer, dlq, rep,
                   faults, crashes>>

\* UPDATE ... SET status = 'pending' WHERE status = 'publishing' AND
\* lease_until < now.  Its owner is gone, or (a fault) slower than the lease.
ReclaimLease(r) ==
    /\ ReplayCalled /\ rep[r].pc = "idle"
    /\ \E m \in Msgs :
        /\ row[m].status = "publishing"
        /\ Charge(~InFlight(m))
        /\ SetStatus(m, "pending")
    /\ UNCHANGED <<reply, redisMain, redisDead, file, sqlite, writer, dlq, rep,
                   crashes>>

\* CAS pending -> publishing.
ClaimRow(r) ==
    /\ ReplayCalled /\ rep[r].pc = "idle"
    /\ \E m \in Msgs :
        /\ row[m].status = "pending"
        /\ SetStatus(m, "publishing")
        /\ rep' = [rep EXCEPT ![r] = [pc |-> "xadd", msg |-> m]]
    /\ UNCHANGED <<reply, redisMain, redisDead, file, sqlite, writer, dlq,
                   faults, crashes>>

\* The stored row no longer matches its hash: CAS pending -> quarantined ...
QuarantineRow(r) ==
    /\ ReplayCalled /\ rep[r].pc = "idle"
    /\ Charge(FALSE)                             \* the corruption is a fault
    /\ \E m \in Msgs :
        /\ row[m].status = "pending"
        /\ SetStatus(m, "quarantined")
        /\ rep' = [rep EXCEPT ![r] = [pc |-> "letter", msg |-> m]]
    /\ UNCHANGED <<reply, redisMain, redisDead, file, sqlite, writer, dlq, crashes>>

\* ... and a permanent letter; nobody looks at what push_dead returns.
QuarantineLetter(r) ==
    /\ rep[r].pc = "letter"
    /\ LET m == rep[r].msg IN
       \E o \in Outcome, filed \in BOOLEAN :
           PushDead(o, filed, m, row[m].att, "permanent")
    /\ rep' = [rep EXCEPT ![r] = [pc |-> "idle"]]
    /\ UNCHANGED <<reply, redisMain, row, sqlite, writer, dlq, crashes>>

\* XADD; on an exception the row goes back to pending if still publishing.
ReplayRow(r) ==
    /\ rep[r].pc = "xadd"
    /\ LET m == rep[r].msg IN
       \E o \in Outcome :
        /\ XAdd(o, m, row[m].att)
        /\ Charge(o = "ok")
        /\ IF o = "ok"
           THEN /\ rep' = [rep EXCEPT ![r].pc = "mark"]
                /\ UNCHANGED row
           ELSE /\ rep' = [rep EXCEPT ![r] = [pc |-> "idle"]]
                /\ IF row[m].status = "publishing" THEN SetStatus(m, "pending")
                                                   ELSE UNCHANGED row
    /\ UNCHANGED <<reply, last, redisDead, file, sqlite, writer, dlq, crashes>>

\* UPDATE ... SET status = 'replayed' WHERE id = ?  (no owner, no status guard).
MarkReplayed(r) ==
    /\ rep[r].pc = "mark"
    /\ SetStatus(rep[r].msg, "replayed")
    /\ rep' = [rep EXCEPT ![r] = [pc |-> "idle"]]
    /\ UNCHANGED <<reply, redisMain, redisDead, file, sqlite, writer, dlq,
                   faults, crashes>>

ReplayerCrash(r) ==
    /\ rep[r].pc # "idle"
    /\ crashes < MaxCrashes
    /\ crashes' = crashes + 1
    /\ rep' = [rep EXCEPT ![r] = [pc |-> "idle"]]
    /\ UNCHANGED <<reply, redisMain, redisDead, file, row, sqlite, writer, dlq,
                   faults>>

-----------------------------------------------------------------------------
Produce == \E m \in Msgs : PushToStream(m) \/ PushToOutbox(m)
WriterStep == PopNew \/ CheckInbox \/ ExecuteAtomic \/ Bury \/ SafeAck
DlqStep ==
    DlqInit \/ ScanDead \/ RequeueFromDlq \/ RetryPush \/ RetryPark \/ DeleteDead
ReplayStep(r) ==
    ClaimRow(r) \/ ReplayRow(r) \/ MarkReplayed(r) \/ QuarantineLetter(r)

Next ==
    \/ Produce
    \/ PopReclaimed \/ WriterStep \/ DlqStep \/ WriterCrash
    \/ \E r \in Replayers :
        ReplayStep(r) \/ ReclaimLease(r) \/ QuarantineRow(r) \/ ReplayerCrash(r)

Spec == Init /\ [][Next]_vars

\* db_writer's loop and, once its health check passed, the DLQ coroutine's go
\* round for ever (a worker that is off takes no step at all); idle time passes,
\* so a pending entry is eventually reclaimable; and whoever calls the replay
\* keeps calling it.  Producers, crashes and faults get no fairness.
FairSpec ==
    /\ Spec
    /\ WF_vars(WriterStep) /\ WF_vars(PopReclaimed) /\ WF_vars(DlqStep)
    /\ \A r \in Replayers : WF_vars(ReplayStep(r)) /\ WF_vars(ReclaimLease(r))

-----------------------------------------------------------------------------
(* Properties.                                                             *)

\* The business write of a message is committed exactly when its inbox row is,
\* and never twice, whatever is retried, reclaimed, replayed or lost (db_writer's
\* "exactly-once" transaction).
ExactlyOnce == \A m \in Msgs : applied[m] = (IF m \in inbox THEN 1 ELSE 0)

\* Somewhere a copy of the message survives: waiting, buried, parked or applied.
HasRow(m, S)  == row[m].status \in S
Located(m) ==
    \/ \E e \in stream : e.msg = m
    \/ \E d \in dead : d.msg = m
    \/ m \in file
    \/ HasRow(m, {"pending", "publishing", "quarantined"})
    \/ m \in inbox

\* A write whose caller was told it is persisted (True or persisted_pending)
\* is never lost between the stream, the dead letters, the outbox and SQLite.
NoLoss == \A m \in Msgs : reply[m] = "ok" => Located(m)

\* The same, for deployments that replay the outbox: the one other trace a
\* message can leave is an outbox row already marked replayed.
LossOnlyBehindReplayedRow ==
    \A m \in Msgs : reply[m] = "ok" => Located(m) \/ HasRow(m, {"replayed"})

\* A permanent dead letter stays in the dead-letter stream for manual review.
PermanentLettersStay == [][\A d \in dead : d.retry = "never" => d \in dead']_vars

\* Every message is settled: applied, finally dead, or in dead_letter.jsonl.
Settled(m) == m \in inbox \/ m \in file \/ (\E d \in dead : d.msg = m /\ d.retry = "never")

\* A retryable letter nobody retries: the DLQ worker gave up at its start, or as
\* many letters that stay for ever as one scan reads lie before it.
Stranded(m) ==
    \E d \in dead :
        /\ d.msg = m /\ IsRetryable(d)
        /\ \/ dlq.pc = "off"
           \/ Cardinality({e \in Older(d) : ~IsRetryable(e)}) >= ScanLimit

\* Every persisted write comes to be settled, unless it is stranded or its
\* outbox row quarantined, or was lost (LossOnlyBehindReplayedRow: how it can be).
EventuallySettled ==
    \A m \in Msgs :
        (reply[m] = "ok") ~>
            (Settled(m) \/ Stranded(m) \/ HasRow(m, {"quarantined"}) \/ ~Located(m))

\* Every persisted write is eventually settled, or stays parked in the outbox, or
\* is a letter stranded by the DLQ worker.
EventuallySettledOrParked ==
    \A m \in Msgs :
        (reply[m] = "ok") ~>
            (Settled(m) \/ HasRow(m, Status \ {"none"}) \/ Stranded(m))

\* The pipeline implements OnceOnlyWrites: a message counts as submitted from
\* the moment push() is called for it.
Abstract == INSTANCE OnceOnlyWrites WITH
    submitted <- {m \in Msgs : reply[m] # "new"}, effects <- applied
ImplementsOnceOnly == Abstract!Spec

=============================================================================
