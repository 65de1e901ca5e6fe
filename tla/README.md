# TLA+ verification of tgjiema

tgjiema is a file relay for Telegram: a user sends files to one bot, gets a file
code from a second, and whoever presents the code gets copies from a third. The
bots are separate Python processes that share a local SQLite database (mostly
written by a fourth process, fed through Redis), replicate to CockroachDB, and
keep redundant copies in a ring of channels.

This directory models the paths on which a file or a write could be lost,
duplicated or left behind, checks them with TLC and proves the central safety
properties with TLAPS.

## 1. Inventory

| part | state | operations | what must hold |
|---|---|---|---|
| durable write pipeline (`database/redis_queue.py`, `write_router.py`, `db_writer.py`, `dlq_worker.py`) | main stream, consumer group, dead-letter stream, `dead_letter.jsonl`, `durable_outbox`, `writer_inbox` | push, pop, reclaim, execute, bury, ack, retry of dead letters, replay | a write is applied once, never lost once acknowledged, finally settled |
| upload (`bots/up_bot.py`) | `upload_sessions`, `pending_uploads` (CRDB and local), `upload_outbox`, in-memory buffers and options | receive, copy, choose options, finalise, flush a relay's buffer, notify | every accepted upload reaches the index, or its session says that it failed |
| indexing (`bots/idx_bot.py`) | `pending_uploads_local.processed`, `pending_notify`, `file_records_local`, `codes_local`, `pending_file_codes` | claim, code, tell, park, reset of stale claims, /start | one code per upload, nobody is left without an answer |
| delivery (`bots/dsp_bot.py`, `services/effect_receipts*.py`) | `local_job_queue`, `delivery_receipts`, `effect_receipts`, `_sent_msg_tracker`, sending slots | claim, send, confirm, retry, bury, revive, reclaim, /start | one copy per job, "done" means delivered, no job stuck |
| upload outbox worker (`services/outbox_worker.py`) | `upload_outbox` status, attempts, lease | claim, dispatch, done, failed, reset | each event is carried out, archive copies are not repeated |
| approvals and commands (`services/command_bus.py`, `approval_workflow.py`, `approval_executor.py`) | `approvals`, `command_outbox`, `command_executions` with leases, `effect_receipts` | create, approve, reject, claim, execute, retry, clean up leases | an approved command takes effect once, an unapproved one never; the tables agree |
| SQLite connection of a process (`database/cache_store.py`) | the open transaction, the replaced `commit()`, `_in_writer_tx` | begin, commit and roll back a writer transaction, `transaction()` with savepoints, single writes | what was acknowledged is kept, half a transaction never is, `commit()` is restored |
| event outbox, data lifecycle (`services/data_lifecycle.py`) | `outbox_events` with fencing tokens, DLQ, `deletion_requests` and their steps | add, claim, renew, complete, fail, move to DLQ, reclaim | the holder of an old token changes nothing; a deletion is complete or failed |
| CRDB synchronisation (`services/crdb_sync_service.py`) | `dirty_outbox`, leader lease, `dlq_records`, the shared pool, the CRDB rows | elect, renew, batch, merge, dispatch, tombstone, DLQ, mark | no change is dropped; newer versions win; a row is a dead letter only for a reason |
| cells and monitoring (`bots/mon_bot.py`, `services/mon/scheduler.py`) | `cells_local` (status, lease, version), `replication_tasks` | compare-and-swap, lease, degrade, advance the ring, copy | one owner per transition; an active cell exists |
| decode quota (`services/permission.py`, `user_quota` in `cache_store.py`) | the SQLite row of a user, its Redis copy, queued upserts of the whole row | check, follow the level, reset at midnight, charge, refund | the counter is the number of charges of the day, nobody is served beyond the quota |
| quota reservations (`services/quota_ledger.py`, `entitlements.py`) | `quota_reservations`, `quota_ledger` | reserve, settle, refund, expire | a reservation ends once; the ledger agrees with it |
| relay (`services/relay_instance.py`, `database/relay_db.py`) | `relay_spool`, accounts, mappings | buffer, forward, acknowledge, fail, clean up | nothing unacknowledged is cleaned up |
| maintenance (`services/maintenance_mode.py`) | `maintenance_state`, cache | enable, drain, back up, migrate, verify, disable, recover | stays enabled unless every step succeeded |
| restore (`services/restore_orchestrator.py`) | operation phase, nonce ledger, switch intents, receipts | stage, validate, approve, switch, roll back, reconcile | never half switched after reconciliation |
| bots' other commands, admin web, buttons, collections, backup engine, health, texts, scripts | see `PROJECT.json`, "components" | | |

How they interact. Bots call `CacheStoreRouter`; a method is either direct SQLite
or a message to `db_writer` through Redis, and the caller of a queued method is told
"done" when it is only queued. up_bot and idx_bot talk through tables and one
wake-up table; idx_bot hands jobs to dsp_bot through `local_job_queue` and a Redis
announcement. All processes run asyncio loops: a handler can be interleaved with
others at every `await`, and processes interleave between SQLite transactions.

What is hard: calls that time out although they were executed; crashes between
COMMIT and ACK, between the Telegram copy and its receipt, between claim and
transaction; leases and claims that are reclaimed while their holder still works;
unguarded updates that arrive late; one lost wake-up; retry counters kept in two
places. The list with lines and the properties that watch each is in
`PROJECT.json`, "hazards".

## 2. Modules

| module | what |
|---|---|
| `OnceOnlyWrites` | abstract: submitted once, takes effect at most once |
| `WritePipeline` | the pipeline, with refused calls, lost replies, crashes; implements `OnceOnlyWrites` |
| `JobDelivery` | jobs, slots, receipts, reclaim, revival, id switch, /start |
| `UploadIndexing` | up_bot's handlers, the tables, idx_bot's loop and tasks; implements `OnceOnlyWrites` |
| `DecodeQuota` | the daily quota of one user: row, cached copy, queued upserts |
| `EventOutbox` | `outbox_events` and its workers: leases, fencing tokens, DLQ, compensation intents |
| `SharedConnection` | the one SQLite connection of a process, between its coroutines |
| `CommandExecution` | approvals, the command outbox and the executor |
| `CrdbSync` | `dirty_outbox`, the leader lease, and the copy in CockroachDB |
| `*Proofs` | the theorems about each |
| `MC*` | instances for TLC |

### WritePipeline

`stream`, `last` and `nextId` are the main stream and its consumer group; an entry
that is delivered and not acknowledged stays in `stream` below `last`, where only
`PopReclaimed` (XAUTOCLAIM) sees it. `batch`, `wpc` and `failure` are db_writer inside
`_process_message`; `inbox` and `applied` change in the one action `ExecuteAtomic`
because the code changes them in one SQLite transaction. `dead`, `file`, `row` and
`dlq`/`rep` are the dead letters, the fallback file, the durable outbox and the two
workers that re-submit. A Redis call works, is refused, or is executed with its reply
lost: every failing call costs one of `MaxFaults`. `ReplayCalled` says whether
anything calls `replay_durable_outbox`; in this repository nothing does.

The DLQ worker is as weak as in the code. It asks for Redis once when db_writer starts
(`DlqInit`); if that call fails it is off until the process restarts. A scan reads the
`ScanLimit` oldest letters (100 in the code), and permanent letters stay in the stream,
so enough of them hide every later one. A letter that meets either fate is `Stranded`.
A replayer that finds a corrupt row commits the status first (`QuarantineRow`) and
then pushes the letter (`QuarantineLetter`), which may fail unnoticed.

### JobDelivery

`row` is `local_job_queue`, `queue` the job updates handed to the pipeline and not
executed (in order; a retried write may be delayed once, `DelayWrite`). The reclaim loop and the
hourly revival look at the row alone, as in the code: a job they take while a slot or a
queued write still has it costs a fault. A slot's `pc`
follows `_send_one_job` into `_process_single_job` and the receipt integration.
Receipts are kept per (job, id), because the code keys them by the job's id and the
id changes when CRDB assigns its own (`AssignCrdbId`). `sends` is a history
variable: the copies the chat really received. A send that raises may or may not
have been received.

### UploadIndexing

`up` follows `_process_upload`/`_finalize_upload` (users) and
`_flush_external_buffer` (uploads in `External`); `row`, `notices` and
`session` are the tables; `idx`, `rounds` and `task` are idx_bot's loop and its
gathered tasks; `codes` and `told` are histories, `parked` and `reply` the parked
codes and /start's loop over them. Callbacks of users are handled one at a time
(python-telegram-bot runs without concurrent updates), while a relay's flush may
run from a timer beside them. `missed` counts the wake-ups wasted by a failed commit of the
wake-up, a failed claim or a failed or undone release; it only appears in a property.
`Strangers` are users who have not started idx_bot: Telegram refuses their messages
without any failure. `UpCrash` ends up_bot's handlers at any time and is not counted.

The tasks of a round run beside each other on the one connection of idx_bot. `Begin` is
BEGIN IMMEDIATE, which fails inside another task's transaction; what a task writes
outside its own transaction becomes part of the one that is open (`joined`: a row given back
in it is lost with it). A task that prepares while another has its transaction saves the
no-op as the `commit()` to restore; from then on the connection is `clogged`: nothing
outside a transaction is committed, the next claim fails and returns no row, until the
process restarts. `exposed` are the tasks of such a round whose transaction may have been
mixed with one that was undone, and `spoilt` says that a failed call lost something that way.
`SharedConnection` has the same connection statement by statement.

A `Commit` in which something fails has the outcomes the code's transaction has. It goes
back (`GoesBack`), and leaves its code behind or not: with `WRITER_MODE=redis` the two
upserts are queued and outlive it, and what a failed COMMIT leaves open the next commit
of another coroutine completes, before the row is given back. Or it loses the code
(`LosesCode`): with `WRITER_MODE=sqlite`, `add_dirty_outbox` fails, rolls everything back by
itself, and the row alone is completed. Or, on a clogged connection, any part of it remains
(`AnyPart`). `ReleaseRow` has no condition, as `fail_pending_upload` has none, so it can give
back a row that is completed (`reopened`). `CodesMatchRows` therefore counts.

/start reads the parked codes from the table while their deletes are queued writes
(`QueueDelete`, `DeleteParked`): a code sent again meanwhile is counted in `eager`.

Abstracted: the age of a claim (`ResetStale` resets any claimed rows), the limit of ten rows
per claim (the instances have fewer), the statuses of a session before MANIFESTED
(`"open"`; neither bot tells them apart), the entries of `upload_outbox` (they are only
written here), session writes take effect at the call, the dispatch of a relay's job
counts as telling.

### DecodeQuota

`row` is the user's line of `user_quota`, `cache` its copy in Redis, `pending` the
queue of whole-row upserts. A charge and a refund go straight to the row
(`_DIRECT_METHODS` of `write_router.py`); the first row of a user, a change of level and
the reset of a new day are upserts that db_writer applies later, in order, or in
any order when dead letters return (`Reordered`). `pc` follows `check_decode_permission`
and its caller in idx_bot from `Begin` to a delivery, a refund or a refusal. Requests
are handled one at a time, because python-telegram-bot runs without concurrent
updates; the writer, the cache's expiry, the calendar and the administrators run
beside them. A DEL of the cached copy may fail. `at` and `moves` are history: whether a copy
has missed a charge or a refund. `raced` collects the days on which one of six named
races touched the count.

A charge and a refund may raise, in the UPDATE or in the `commit()` after it
(`ChargeRaises`, `RefundRaises`, at most `MaxErrors` times): a locked database is tried
again, anything else refuses the request or drops the refund without a word. What the
UPDATE did stays in the open transaction of idx_bot's connection (`open`, with `kept` the
row a rollback returns to), for the next method to commit or to roll back (`OthersCommit`,
`OthersRollBack`); meanwhile db_writer cannot write. `leaked` collects the days on which
that left the counter too high. Abstracted: one of the row's two counters, the "basic"
level (treated like "free"), and a fixed quota per level. Not modelled: the copy to CRDB.

### EventOutbox

`row` is `outbox_events` with status, owner, attempts and the fencing token as
`version`; a worker's `pc` follows `run_once` and `process_event`: it holds the batch it
fetched with the versions of that moment. The code compares owner and token in some
statements (`complete_outbox_event`, `renew_outbox_lease`) and not in others (`CanFail`,
`CanMoveToDlq` look at the status only), and the model keeps that difference. A lease
expires at any time; a worker may die and come back under the same name, since owner
names are `host:pid`. `_maybe_renew_lease` runs beside the provider and is cancelled half way.

### SharedConnection

Every coroutine of a process uses one `aiosqlite` connection: any write joins whatever
transaction is open, any COMMIT makes all of it permanent. `commit` says whether the
connection's `commit()` is the real one or the no-op `begin_writer_tx` puts there,
`saved` what each task would put back. Tasks: a message of db_writer, an upload of
idx_bot, two `transaction()` blocks (which nest as savepoints), a single write. `Serial`
says whether they run one after another (db_writer) or gathered (idx_bot).
`OutboxFails` is `add_dirty_outbox` called without a connection: it fails, rolls back whatever
transaction is open, and its caller logs the exception and goes on to commit the rest.
`undone` are the tasks it happened to: one failure is enough for half a transaction there.

### CommandExecution

`approval`, `outbox` (with `retries` and `asked`, its approval_id), `execution` and
`receipt` are the four tables, indexed by request or by action_id (a hash, which two
requests may share); `pc`, `entry` and `records` the one executor inside `_process_entry`.
An admin reads a request (`Look`) before the compare-and-set of `Approve` or `Reject`, so
decisions race. Every statement may fail, and each failure goes where the code
sends it: "claimed", "claimed by another", skipped, logged. `Unresolved` are the actions
whose command `_resolve_command_for_action` does not know. `did` and `runs` count
what the handler did. Backoff is left out: a pending entry may be due at any time.

### CrdbSync

`outbox` is `dirty_outbox` (a row is named by its id), `processed` the ids that are
marked, `dlq` those with a letter in `dlq_records`, `mirror` what CockroachDB has of each
key. An instance (`Syncers`) runs, has a batch or not (`phase`), believes to be leader
(`valid`, the flag `_lease_valid`) and has a pool (`pool`); `lease` is the key in Redis,
which may name somebody else. A batch is `todo`, `failed` and `done`, and
`_sync_dirty_outbox` is `ReadBatch`, then for each row `Dispatch` or `DispatchFails`
(before them `RouteUnknown`, in place of the tombstones `ProbeFails`), then `RouteFailed`
and `Mark`. Between any two of these the lease may lapse, the flag fall (`RenewFails`),
the pool be closed by another loop (`ClosePool`) or the process end (`Stop`), and nothing
in the batch looks at the lease, as in the code. `applied`, `term`, `readIn` and
`unfenced` are histories: what took effect, and which keys were written by a batch whose
lease had passed on. The upsert of a key in `Unsendable` is `Refused` before it is sent:
every row `make_file_record` builds has a dict and a list where the table has TEXT, and
asyncpg does not encode them. Such a row is a dead letter with CockroachDB healthy.
Abstracted: one table with a handler; Redis as in production (no fallback to the lease in
SQLite); a statement takes effect while its caller waits or never; the remembered answer
of the schema probe; the loops of jobs and cells only open and close the pool; when a
batch is read (wake-up, backoff) is left open.

## 3. Runs

| run | instance | question | result |
|---|---|---|---|
| `pipeline` | 2 writes, no replayer active, 1 fault, 1 crash, scans of 1 letter | nothing lost, settled or parked unless stranded, implements the abstraction (once each) | holds |
| `replay` | 1 write, 2 replayers, 2 faults, 1 crash | applied once, lost at most behind a replayed row, settled unless stranded or quarantined | holds |
| `delivery` | 1 job, 2 slots, 1 fault, 1 crash | done means sent, duplicates have causes, receipts agree, jobs come to rest | holds |
| `newid` | 1 job, 2 slots, nothing fails | one copy per job? | no: id switch |
| `upload` | 1 upload of a user who has not started idx_bot and 1 of a relay, 1 fault, 1 crash of idx_bot, any of up_bot, 1 early code | codes match rows but for failed calls, READY is true, lost or repeated messages have causes, a notice serves its rows unless transactions overlap, implements the abstraction | holds |
| `quota` | 2 requests, 2 days, quota 1, a failing SELECT, 1 charge or refund that raises, any order of upserts | is the quota held outside the six races, and the counter exact where nothing raised either? | holds |
| `events` | 2 events (one without provider), 2 workers, a lease lost at any time, 1 death | settled events stay, only the present holder completes, repeated calls have causes | holds |
| `connection` | 5 tasks one after another, 3 failing statements | is `commit()` restored, what was acknowledged kept but for `add_dirty_outbox`'s own rollback, half a transaction explained? | holds |
| `gathered` | the same tasks at once, nothing fails | is `commit()` restored? | no: the second upload saves the first one's no-op |
| `commands` | 3 requests for 2 actions, 2 admins at a time, 1 fault, 1 crash, 2 retries | approved iff queued, one effect at most, hollow reports have causes, tables agree, everything settles | holds |
| `hollow` | the same without a crash | was what is reported executed really executed? | no: a receipt that cannot be written skips the handler |
| `mirror` | 2 instances, 3 keys (1 unsendable), 2 changes, any 2 of 7 troubles | is no change dropped, the mirror abreast unless a batch outlived its lease, a dead letter explained, everything pending settled? | holds |

Why the bounds are enough. Each hazard needs few actors: two copies of one message, two
slots on one job, two replayers on one row, an upload and a second one whose notification
wakes idx_bot early. One fault and one crash can meet at every pair of points; in `replay`
two faults allow a failure and the failure of its fallback (the stream and the outbox row,
the atomic requeue and the push after it), which is where the code has its second line of
defence. In `upload` the refusal of a stranger and the overlap of two tasks cost no fault,
so one fault meets each of them (a refused send and its failed parking, a transaction
undone beside another on a clogged connection); two and three faults with three uploads
were simulated and showed nothing new, and the proofs cover them. A scan of one letter in
`pipeline` is full with one permanent letter, and another can lie behind it. Attempt
limits are 2: below, at and at the limit are different states. `ResetEvery` is 2 instead
of 10: with and without a reset before the claim. A quota of 1 has the states below and at
the limit, two days the sides of midnight, and two requests a copy that is old when it is
used; one error leaves a transaction open at every point where the other request, the
writer or midnight can meet it. Two events and two workers give a worker whose batch holds
an event it lost and one it has. Five tasks on one connection are one of each kind. Three
requests give two for one action, of which one can never be approved, and one that cannot
be resolved; a second fault or a third retry in `commands` was tried on smaller sets and
changes nothing, and the proofs cover it. Two changes in `mirror` are two versions of a
row, in one batch or in two, or two keys, and two troubles a lost lease with a restart, or
a failed statement with its failed letter. Its limit cuts no batch; that was tried apart
(before a key was unsendable): three changes with two troubles (one key; two keys for
safety only), three changes of two keys with one trouble, batches of one row. The theorems
lift the safety results to all values.

## 4. Fairness

Weak fairness for what a supervised loop repeats: db_writer and XAUTOCLAIM; the DLQ worker
while it runs (one that is off takes no step, and fairness asks for none); the slots, the
reclaim loop and the hourly revival; idx_bot's process as a whole: while its loop or a
task can take a step, one of them does. None for users, up_bot, faults, crashes or the
assignment of CRDB ids. `DecodeQuota`, `EventOutbox` and `SharedConnection` state safety
only and have no fairness. `CrdbSync` has weak fairness for what systemd restarts
(`Start`), for the renewal task, for a batch that can be read and its next step, and for
the expiry of a dead holder's lease, which Redis sees to; none for changes, troubles or
the other loops. `CommandExecution` has weak fairness for the executor's next step and the
end of a lease, and strong fairness for `Pick`: the loop of `r40_scheduler` drains every
thirty seconds in the order of ids, so an entry that is pending again and again is taken.

`EventuallySettledOrParked` and `EventuallySettled` say that a persisted write ends,
unless its letter is stranded by a DLQ worker that gave up at its start or sees permanent
letters only, or its outbox row is quarantined, which an unchecked push follows.
`EventuallyAtRest` says the same of jobs; a job that is dispatched under a temporary id is
excepted because the reclaim skips negative ids. `NoticeServesRows` says that one
notification serves every free row there is, unless idx_bot crashes, its wake-up, claim or
release fails or is undone, or the transactions of two tasks overlap (`clogged`): then
rows can wait although nothing in the environment failed. `EverySettles` says that an
approved command is executed or has failed for good, unless a statement failed or the
process died: then the entry can stay `executing` (see section 6). `EventuallyDrained`
says that no change stays pending in `dirty_outbox`, whatever fails: each is sent,
superseded or a letter.

## 5. Theorems

All are about `Spec`, for every set of messages, jobs, slots, uploads and replayers and
every limit; the only assumptions are the typing of the constants in each module.

* `WritePipelineProofs`. `ExactlyOnce` is close to inductive. `NoLoss` is not: db_writer
  may be about to acknowledge an entry while the DLQ worker is about to delete the letter
  of the same message. The invariant therefore speaks of a copy that no step in
  progress is about to delete ("Kept") and has one obligation for each of the two, plus
  the freshness of ids and the fact that without replays no row leaves "pending". With it:
  `TypeCorrect`, `AppliedExactlyOnce`, `NothingLost`, `LossIsBehindReplayedRow`,
  `FinalLettersStay` and `Refinement` (each step is an abstract step or a stutter).
* `JobDeliveryProofs`. "done" is the end of a chain: slot, receipts, tracker, queued write,
  row. `Evidence` says that each link is there only if a copy was sent under that id;
  its parts are inductive only together. With it: `TypeCorrect`, `DoneImpliesSent`,
  `CompletedStays`. To bound the copies, `Budget` follows the right to try once more, which
  the row hands to a slot, the slot to a queued retry and the retry back to the row: copies made
  and attempts to come are at most one more than the failures, crashes and revivals. Nothing
  of this says that there is one copy while nothing fails: for that a slot has to be `Alone` with
  its delivery (no other slot, no queued change, the row dispatched), and then its step tells how far
  the two receipts have come (`Receipted`, `OneCopy`). With them: `AttemptsAccounted`,
  `ExtraCopiesExplained`, `ReceiptsOfOneCopy`; `SecondCopyIsRenamed`, which
  says that the switch of ids found by `newid` is the only way to a second copy when nothing fails;
  and `RevivalsAreBounded`, since the limit of revivals is read before a queued write counts one.
* `UploadIndexingProofs`. A row and its code agree only because a task that has not
  committed holds a claimed row and one that has holds a completed one (`RowInv`), a row given
  back inside another task's transaction belongs to no task until that ends (`JoinedInv`), and
  a row is reopened, or a task exposed, only after a failed call (`FaultInv`). `IndexingInv`
  is these and `ReadyMeansCoded`. With it: `TypeCorrect`, `ReadyIsTrue` and `Refinement` (a
  reopened row counts as completed). For `CodesHaveRows`, a surplus code and those that an exposed
  task or the release of a completed row may still bring are paid by failed calls of
  their own (`CodesInv`). For `LossesExplained`, messages sent and messages that may still
  come are counted together (`Accounted`): each step adds to them at most what it adds to failures,
  crashes and codes sent early (`Balanced`), and a silent row has a cause at every step.
* `DecodeQuotaProofs`. That the counter is exact says nothing of what the next upsert will
  put in the row. The invariant (`Counted`) says of every copy, cached, queued or
  held by a request, that it is as faithful as the row if it missed no charge or refund, the same
  of the row a rollback would bring back, and that a request is charged once and only past its
  check. With it: `TypeCorrect`, `CountExact` (outside races and charges or refunds that raised),
  `QuotaHeld` (whatever raises: an error only leaves the counter too high) and, from the date
  and level a request carries, `DenialsExplained`, in which a charge that raised is a cause.
* `EventOutboxProofs`. Every lease gets a new version, so a version a worker holds is at most
  the row's, and equal only if nobody leased the event since and its owner is that worker.
  With it: `TypeCorrect`, `CompletionByHolder`, `GroundsOfIntents`, and `SettledIsFinal`,
  which holds although two statements compare no token, because they compare the status.
  `ExtraCallsExplained` counts turns: the calls made, the turn of a row that can be leased (again)
  and those of the workers with the event before them are at most one more than the causes (`Afforded`).
* `SharedConnectionProofs`. `PatchIsUndone`, `AcksAreKept` and `HalvesAreExplained`
  assume `Serial`; the invariant says whose writes a transaction can hold: those of the task
  that began it, and with a savepoint everybody's from before. The two latter except the tasks
  in which `add_dirty_outbox` rolled back by itself. `gathered` shows that
  the assumption is needed. `TypeCorrect` does not need it.
* `CommandExecutionProofs`. One effect at most follows only from where the executor
  is: a handler that succeeded leaves the entry `executing` until it is marked, and
  nothing takes an executing entry. `CountInv` relates calls, successes and retries at every
  step, `GroundInv` what may be recorded as complete, `VerdictInv` where the request is
  meanwhile. With them: `TypeCorrect`, `ApprovalIsQueueing`, `EffectsOnce`, `HollowExplained`, `VerdictsMatch`,
  and `Refinement`: a command is submitted when it is queued, and `did` are its effects.
* `CrdbSyncProofs`. Two instances may hold the same rows, so `NewestAccounted` needs that
  rows of a key are processed oldest first and that a batch which holds a row marks all older
  ones (`Accounting`). For the mirror, what matters is that a row once sent is in every later batch
  until it is marked (`SentWithin`, a fact about the cut by the limit): no batch then has an
  older row of its key to send (`Abreast`), and the mirror has the newest row sent
  (`LatestReflected`), as long as the batch is of the present term. `Steady` says that an instance
  is leader and connected unless something shook it. With them: `TypesHold`, `NoneDropped`,
  `MirrorKeepsUp`, `LettersHaveCauses`, and `NoStepBack`: although an upsert compares no version, no
  row of the mirror goes back to an older change unless a batch had lost its lease.

Every safety invariant and action property of the passing runs is the subject of a theorem.
Two of them were found wrong by trying to prove them. The bound on copies left out that a
revival gives a job new attempts, which needs more attempts and revivals than the instance has
to show; and `ReviveDead` waited for the job's queued changes, for which nothing in
`_retry_dead_jobs` waits.

`LettersHaveCauses` has as causes an operation without a handler, a row that cannot be
encoded, and an instance that was shaken.

Some theorems are about properties no run checks: `FinalLettersStay`, `DenialsExplained`,
`GroundsOfIntents` and `SharedConnectionProofs!TypeCorrect`, because other properties say
more at the same cost; `SecondCopyIsRenamed`, `RevivalsAreBounded` and `NoStepBack`, whose
properties are defined with their proofs; `CommandExecutionProofs!Refinement`, whose
`ApprovedOnce` TLC confirms on the instance of `commands`.

Only model-checked: liveness (`EventuallySettled`, `EventuallySettledOrParked`,
`EventuallyAtRest`, `NoticeServesRows`, `EverySettles`, `EventuallyDrained`), which rests on
fairness and ENABLED, beyond the prover; and the three properties that the runs violate.

## 6. Disagreements found

With a run: a job that changes its id is delivered twice; gathered uploads leave
`commit()` a no-op for ever; a command whose receipt cannot be written is reported
executed without having run.

By reading, while modelling (`PROJECT.json`, "findings", each with the branch of the model
it is in): a charge is erased by the reset that was queued before it; a restored file
stays tombstoned in CockroachDB; the fencing token of the synchronisation is never read;
the version of a row is no condition of its upsert; an upsert merged into a tombstone is
never sent; one failed renewal closes the pool under a batch, whose rows become dead
letters; `dlq_records` is never retried; every upsert of a record built by
`make_file_record` is refused by asyncpg and ends there; one failed health check at the
start of db_writer turns the DLQ worker off for good; permanent letters at the head of the
dead-letter stream hide all later ones; a row is quarantined although its letter was not
stored; parked writes are never replayed; a job can wait for ever after /start; READY is
overwritten; a relayed upload of known files is never looked at; two gathered uploads
whose transactions overlap stop idx_bot from claiming rows until it restarts; a completed
row is given back and gets a second code; a parked code is sent twice because its delete
is queued; a row is completed without its code, or a code stays without its row;
`add_dirty_outbox` rolls back what its caller then commits the rest of, or reports as
done; a refund that raises is dropped without a log; a charge that raises is refused and
counted all the same; a failed SELECT of the quota grants a request; a compensation is
intended for an event that is retried; a lost lease does not stop `fail_outbox_event`; an
event whose provider raises an `AppError` is tried for ever; a COMMIT that fails in
`writer_transaction` leaves the transaction open; a call that raises is recorded as a
completed effect; `factory_reset` and `set_r2` can be approved and never executed; a
command of a crashed executor stays `executing`; appeals carry an id of another table;
`safe_trim` compares seconds with milliseconds; `receipt_pending` is unreachable;
`_verify_skipped_receipt` cannot succeed for single jobs; the strict session transition
swallows failures; sessions never expire; the reset of stale claims needs ten
notifications; a user's first request can be refused "by concurrent requests" when there
are none; usage is not copied to CRDB again after the first time; a refund leaves the
cached copy in place.

## 7. Not modelled, and the plan

The repository has some 180,000 lines in 224 implementation files; the map covers
what the eight modules translate. Most of the rest cannot become a model that says anything:
health probes, metrics, error texts and translations, release and contract scripts
(`scripts/compose_runtime_e2e.py` and its like), encryption and backup contents, pages and
menus of the bots, schema migrations, test support. `PROJECT.json` lists each with its reason.

Left for later, in order of weight:

1. `UploadOutbox`: the worker behind `CreateEntries`; two owners across a restart,
   leases, retries. Composes with `UploadIndexing`.
2. `QuotaLedger`: reserve, settle, refund, expiry. The ledger agrees with the
   reservation; each ends once.
3. `ExternalGrants`: the second counter of `DecodeQuota`'s row, the pending entries of
   idx_bot and the two refunds of a failed relay.
4. `CellTopology`: CAS through the pipeline; the mon_bot loops.
5. `RestoreSwitch`: intents, receipts, reconciliation after a crash at any point.
6. `RelaySpool`, `Maintenance`, the deletion requests of `data_lifecycle`.
