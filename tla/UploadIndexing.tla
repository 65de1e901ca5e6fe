--------------------------- MODULE UploadIndexing ---------------------------
(***************************************************************************)
(* From a received file to a file code in the uploader's hands: up_bot     *)
(* (_process_upload, _finalize_upload, and _flush_external_buffer for      *)
(* files brought by the relay), the tables upload_sessions,                *)
(* pending_uploads_local, upload_outbox, pending_notify and                *)
(* pending_file_codes through which the two processes talk, and idx_bot    *)
(* (_process_pending_uploads, _process_one_pending, /start).               *)
(*                                                                         *)
(* One "upload" is a row of pending_uploads_local: a file, a media group   *)
(* or a batch.  idx_bot looks for rows only when pending_notify wakes it   *)
(* up.  The entries of upload_outbox are only written here, by up_bot, and  *)
(* a write is over at the call: what becomes of a queued one is            *)
(* WritePipeline's.                                                        *)
(* The tasks of a round share the connection of idx_bot: SharedConnection  *)
(* shows statement by statement what their transactions do to each other,  *)
(* this module what that means for rows, codes and notifications.          *)
(***************************************************************************)
EXTENDS Naturals

CONSTANTS
    Uploads,     \* uploads, each received at most once
    External,    \* those brought by a relay account (_flush_external_buffer)
    Reused,      \* external ones whose files are all in the channel already
    Strangers,   \* those of users who may not have started idx_bot yet
    ResetEvery,  \* notified rounds between two resets of stale claims (10)
    MaxFaults,   \* bound: failed calls and lost replies
    MaxCrashes,  \* bound: crashes of idx_bot
    MaxEager     \* bound: times /start sends a code whose delete is still queued

ASSUME IndexingAssumption ==
    /\ External \subseteq Uploads
    /\ Reused \subseteq External
    /\ Strangers \subseteq Uploads
    /\ ResetEvery \in Nat \ {0}
    /\ MaxFaults \in Nat
    /\ MaxCrashes \in Nat
    /\ MaxEager \in Nat

VARIABLES
    session,   \* [Uploads -> upload_sessions.status]
    up,        \* [Uploads -> where the up_bot handler of the upload is]
    row,       \* [Uploads -> pending_uploads_local.processed]
    notices,   \* 1 iff pending_notify has a row
    idx,       \* where the loop of idx_bot is
    rounds,    \* _stale_reset_counter
    task,      \* [Uploads -> where _process_one_pending of the upload is]
    clogged,   \* two writer transactions have overlapped on idx_bot's connection: its
               \* commit() stays a no-op until the process restarts
    joined,    \* <<upload, former row>>: rows given back inside another task's transaction
    exposed,   \* tasks whose transaction may get mixed with one that was undone
    spoilt,    \* history: a failed call made a clogged connection lose or mix something
    codes,     \* [Uploads -> Nat] history: codes written, or queued, for the upload
    reopened,  \* history: uploads whose completed row was given back
    told,      \* [Uploads -> Nat] history: messages with its code that arrived
    parked,    \* uploads with a row in pending_file_codes, or a queued one
    reply,     \* uploads whose parked code /start has sent, the delete not yet queued
    deleting,  \* uploads whose parked code has a queued delete
    eager,     \* [Uploads -> Nat] history: codes sent while their delete was queued
    missed,    \* history: wake-ups spent for nothing by a failed call of idx_bot
    faults, crashes

connVars  == <<clogged, joined, exposed, spoilt>>
idxVars   == <<idx, rounds, task, missed, connVars>>
startVars == <<parked, reply, deleting, eager>>
codeVars  == <<codes, reopened, told, startVars>>
vars == <<session, row, notices, up, idxVars, codeVars, faults, crashes>>

\* "open" is RECEIVED, COPIED_PRIMARY, MANIFEST_PENDING or FAILED_RETRYABLE: nothing in the
\* two bots tells them apart.
SessionStatus == {"none", "open", "MANIFESTED", "READY"}
RowStatus  == {"none", "free", "claimed", "done"}
Finalizing == {"crdb", "local", "pending", "entries", "notify"}
UpSteps    == {"new", "copy", "options", "ended"} \cup Finalizing
TaskSteps  == {"none", "prepare", "begin", "write", "tell", "retell", "park", "manifested", "ready",
               "release", "failed"}

TypeOK ==
    /\ session \in [Uploads -> SessionStatus]
    /\ up \in [Uploads -> UpSteps]
    /\ row \in [Uploads -> RowStatus]
    /\ notices \in {0, 1}
    /\ idx \in {"waiting", "reset", "claim", "work"}
    /\ rounds \in 0..(ResetEvery - 1)
    /\ task \in [Uploads -> TaskSteps]
    /\ clogged \in BOOLEAN /\ spoilt \in BOOLEAN
    /\ joined \subseteq Uploads \X RowStatus
    /\ exposed \subseteq Uploads /\ reopened \subseteq Uploads
    /\ codes \in [Uploads -> Nat]
    /\ told \in [Uploads -> Nat]
    /\ parked \subseteq Uploads /\ reply \subseteq Uploads /\ deleting \subseteq Uploads
    /\ eager \in [Uploads -> 0..MaxEager]
    /\ missed \in Nat
    /\ faults \in 0..MaxFaults
    /\ crashes \in 0..MaxCrashes

Init ==
    /\ session = [u \in Uploads |-> "none"]
    /\ up = [u \in Uploads |-> "new"]
    /\ row = [u \in Uploads |-> "none"]
    /\ notices = 0
    /\ idx = "waiting" /\ rounds = 0
    /\ task = [u \in Uploads |-> "none"]
    /\ clogged = FALSE /\ joined = {} /\ exposed = {} /\ spoilt = FALSE
    /\ reopened = {}
    /\ codes = [u \in Uploads |-> 0]
    /\ told = [u \in Uploads |-> 0]
    /\ parked = {} /\ reply = {} /\ deleting = {}
    /\ eager = [u \in Uploads |-> 0]
    /\ missed = 0 /\ faults = 0 /\ crashes = 0

-----------------------------------------------------------------------------
\* A call that fails uses up one of the bounded faults.  On idx_bot's connection that
\* may also be another handler's doing, caught in the middle of a write of its own.
Fails == faults < MaxFaults /\ faults' = faults + 1
Works == UNCHANGED faults

\* A statement of idx_bot outside the transactions is committed by itself; on a clogged
\* connection only together with a transaction that is open, if that is.
Writing == {u \in Uploads : task[u] = "write"}
Lasts   == clogged => Writing # {}

\* A write of up_bot to the local database fails, or waits in vain for the lock of a
\* connection of idx_bot that no longer commits.
NotWritten == Fails \/ (~Lasts /\ Works)

\* transition_upload_session: any status to any other; a failed UPDATE is
\* swallowed (it returns False, and neither wrapper looks).
Transition(u, status) ==
    \/ Works /\ session' = [session EXCEPT ![u] = status]
    \/ NotWritten /\ UNCHANGED session

UpGoto(u, pc)   == up' = [up EXCEPT ![u] = pc]
TaskGoto(u, pc) == task' = [task EXCEPT ![u] = pc]

\* The except branch of _finalize_upload and of the pending_col write of
\* _flush_external_buffer: the session is marked, the handler ends.
GiveUp(u) ==
    /\ \/ session' = [session EXCEPT ![u] = "open"]
       \/ ~Lasts /\ UNCHANGED session
    /\ UpGoto(u, "ended")

-----------------------------------------------------------------------------
(* up_bot.                                                                 *)

\* create_upload_session_strict; a failure ends the handler.
Receive(u) ==
    /\ up[u] = "new"
    /\ \/ Works /\ session' = [session EXCEPT ![u] = "open"] /\ UpGoto(u, "copy")
       \/ NotWritten /\ UpGoto(u, "ended") /\ UNCHANGED session
    /\ UNCHANGED <<row, notices, idxVars, codeVars, crashes>>

\* Copy to the storage channel, or reuse the copy found there; a relay's files go
\* on at once, a user is asked for the options first.
Copy(u) ==
    /\ up[u] = "copy"
    /\ \/ /\ Transition(u, "open")
          /\ UpGoto(u, IF u \in External THEN "crdb" ELSE "options")
       \/ u \notin Reused /\ Fails /\ GiveUp(u)
    /\ UNCHANGED <<row, notices, idxVars, codeVars, crashes>>

\* The last option button: callbacks are handled one at a time.
ChooseOptions(u) ==
    /\ up[u] = "options"
    /\ \A v \in Uploads \ External : up[v] \notin Finalizing
    /\ UpGoto(u, "crdb")
    /\ UNCHANGED <<session, row, notices, idxVars, codeVars, faults, crashes>>

\* pending_col.insert_one, in CRDB.
RecordCrdb(u) ==
    /\ up[u] = "crdb"
    /\ \/ Works /\ UpGoto(u, "local") /\ UNCHANGED session
       \/ Fails /\ GiveUp(u)
    /\ UNCHANGED <<row, notices, idxVars, codeVars, crashes>>

\* insert_pending_upload_local, the row idx_bot reads: a failure is swallowed.
RecordLocal(u) ==
    /\ up[u] = "local"
    /\ \/ Works /\ row' = [row EXCEPT ![u] = "free"]
       \/ NotWritten /\ UNCHANGED row
    /\ UpGoto(u, "pending")
    /\ UNCHANGED <<session, notices, idxVars, codeVars, crashes>>

MarkPending(u) ==
    /\ up[u] = "pending"
    /\ Transition(u, "open")
    /\ UpGoto(u, "entries")
    /\ UNCHANGED <<row, notices, idxVars, codeVars, crashes>>

\* REGISTER_MANIFEST, then ARCHIVE_R100.  _create_outbox_entry_strict raises when the
\* write fails: _finalize_upload marks the session, _flush_external_buffer lets the
\* exception go.
CreateEntries(u) ==
    /\ up[u] = "entries"
    /\ \/ Works /\ UpGoto(u, "notify") /\ UNCHANGED session
       \/ u \notin External /\ NotWritten /\ GiveUp(u)
       \/ u \in External /\ NotWritten /\ UpGoto(u, "ended") /\ UNCHANGED session
    /\ UNCHANGED <<row, notices, idxVars, codeVars, crashes>>

\* notify_new_upload.  With every file reused, _ext_task_ids was never assigned and
\* the loop before the call raises UnboundLocalError.
NotifyIdx(u) ==
    /\ up[u] = "notify"
    /\ UpGoto(u, "ended")
    /\ \/ u \notin Reused /\ Works /\ notices' = 1
       \/ u \notin Reused /\ NotWritten /\ UNCHANGED notices
       \/ u \in Reused /\ Works /\ UNCHANGED notices
    /\ UNCHANGED <<session, row, idxVars, codeVars, crashes>>

\* Handlers, external buffers and the users' chosen options live in memory.  Not bounded: a
\* crash of up_bot only ends handlers.
UpCrash ==
    /\ up' = [u \in Uploads |-> IF up[u] = "new" THEN "new" ELSE "ended"]
    /\ UNCHANGED <<session, row, notices, idxVars, codeVars, faults, crashes>>

-----------------------------------------------------------------------------
(* idx_bot: the loop.                                                      *)

\* has_new_upload deletes every notification; on a connection that does not commit they
\* may be back after a restart.
TakeNotices ==
    /\ idx = "waiting" /\ notices = 1
    /\ notices' = 0 \/ (clogged /\ UNCHANGED notices)

\* Mutant: the counter is compared with > and passes its limit.
WakeUpOffByOne ==
    /\ TakeNotices
    /\ IF rounds + 1 > ResetEvery
         THEN rounds' = 0 /\ idx' = "reset"
         ELSE rounds' = rounds + 1 /\ idx' = "claim"
    /\ UNCHANGED <<session, row, up, task, missed, connVars, codeVars, faults, crashes>>

WakeUp ==
    /\ TakeNotices
    /\ IF rounds + 1 >= ResetEvery
         THEN rounds' = 0 /\ idx' = "reset"
         ELSE rounds' = rounds + 1 /\ idx' = "claim"
    /\ UNCHANGED <<session, row, up, task, missed, connVars, codeVars, faults, crashes>>

\* The commit of the DELETE fails: has_new_upload says False, the next one completes it.
LoseWakeUp ==
    /\ idx = "waiting" /\ notices = 1
    /\ Fails
    /\ notices' = 0
    /\ missed' = missed + 1
    /\ UNCHANGED <<session, row, up, idx, rounds, task, connVars, codeVars, crashes>>

\* reset_stale_claims: the claimed rows whose claim is old enough, if any, and none that
\* lasts if the connection does not commit.
ResetStale ==
    /\ idx = "reset"
    /\ \E stale \in SUBSET {u \in Uploads : row[u] = "claimed"} :
         /\ clogged => stale = {}
         /\ row' = [u \in Uploads |-> IF u \in stale THEN "free" ELSE row[u]]
    /\ idx' = "claim"
    /\ UNCHANGED <<session, notices, up, rounds, task, missed, connVars, codeVars, faults,
                   crashes>>

\* Mutant: `processed = 0` is dropped from the claim; a completed row has claimed_at = 0.
ClaimableAgain(u) == row[u] \in {"free", "done"}

Claimable(u) == row[u] = "free"

\* claim_pending_uploads: one transaction takes every free row (up to 10).  Its BEGIN
\* IMMEDIATE fails on a clogged connection: the last statement of every task, and of
\* has_new_upload, is in a transaction that is never committed.
Claim ==
    /\ idx = "claim" /\ ~clogged
    /\ \E u \in Uploads : Claimable(u)
    /\ row' = [u \in Uploads |-> IF Claimable(u) THEN "claimed" ELSE row[u]]
    /\ task' = [u \in Uploads |-> IF Claimable(u) THEN "prepare" ELSE task[u]]
    /\ idx' = "work"
    /\ UNCHANGED <<session, notices, up, rounds, missed, connVars, codeVars, faults, crashes>>

\* No row left, or the claim failed and returned []: back to waiting for a notice.
ClaimNothing ==
    /\ idx = "claim"
    /\ \/ (\A u \in Uploads : ~Claimable(u)) /\ Works /\ UNCHANGED missed
       \/ clogged /\ Works /\ UNCHANGED missed
       \/ Fails /\ missed' = missed + 1
    /\ idx' = "waiting"
    /\ UNCHANGED <<session, row, notices, up, rounds, task, connVars, codeVars, crashes>>

\* Mutant: no second claim after a round.
GatheredOnce ==
    /\ idx = "work"
    /\ \A u \in Uploads : task[u] = "none"
    /\ idx' = "waiting"
    /\ exposed' = {}
    /\ UNCHANGED <<session, row, notices, up, rounds, task, missed, clogged, joined,
                   spoilt, codeVars, faults, crashes>>

\* asyncio.gather is over: claim again.
Gathered ==
    /\ idx = "work"
    /\ \A u \in Uploads : task[u] = "none"
    /\ idx' = "claim"
    /\ exposed' = {}
    /\ UNCHANGED <<session, row, notices, up, rounds, task, missed, clogged, joined,
                   spoilt, codeVars, faults, crashes>>

-----------------------------------------------------------------------------
(* idx_bot: _process_one_pending.                                          *)

\* generate_unique_code, make_file_record, make_code_entry; then begin_writer_tx up to
\* its first await.  A second one before the first has restored commit() saves the no-op
\* as the commit to restore: from then on commit() does nothing.
Prepare(u) ==
    /\ task[u] = "prepare"
    /\ \/ /\ Works
          /\ TaskGoto(u, "begin")
          /\ clogged' = (clogged \/ \E v \in Uploads : task[v] \in {"begin", "write"})
       \/ Fails /\ TaskGoto(u, "release") /\ UNCHANGED clogged
    /\ UNCHANGED <<session, row, notices, up, idx, rounds, missed, joined, exposed, spoilt,
                   codeVars, crashes>>

\* BEGIN IMMEDIATE: it fails inside another task's transaction, while another task is in
\* the middle of a write of its own, and after a write that was never committed.
Begin(u) ==
    /\ task[u] = "begin"
    /\ \/ Writing = {} /\ Works /\ TaskGoto(u, "write")
       \/ Fails /\ TaskGoto(u, "release")
       \/ /\ clogged \/ \E v \in Uploads : task[v] \notin {"none", "prepare", "begin"}
          /\ Works /\ TaskGoto(u, "release")
    /\ UNCHANGED <<session, row, notices, up, idx, rounds, missed, connVars, codeVars, crashes>>

\* The transaction has its effect.
Completes(u) ==
    /\ codes' = [codes EXCEPT ![u] = @ + 1]
    /\ row' = [row EXCEPT ![u] = "done"]
    /\ TaskGoto(u, "tell")

\* Whoever gave back a row meanwhile did so in this transaction, and loses it with it.
Without(lost) ==
    [u \in Uploads |-> CASE <<u, "done">> \in lost -> "done"
                         [] <<u, "claimed">> \in lost -> "claimed"
                         [] OTHER -> row[u]]

\* It fails and is rolled back, or leaves its code: the two upserts are queued with
\* WRITER_MODE=redis.  A COMMIT that fails leaves everything to the next commit, which
\* may be another coroutine's and come before the row is given back.
GoesBack(u, rest) ==
    /\ \/ row' = rest /\ UNCHANGED codes
       \/ row' = rest /\ codes' = [codes EXCEPT ![u] = @ + 1]
       \/ row' = [rest EXCEPT ![u] = "done"] /\ codes' = [codes EXCEPT ![u] = @ + 1]
    /\ TaskGoto(u, "release")
    /\ UNCHANGED spoilt

\* With WRITER_MODE=sqlite add_dirty_outbox rolls the transaction back when it fails, its
\* exception is swallowed, and the row alone is completed.
LosesCode(u, rest) ==
    /\ row' = [rest EXCEPT ![u] = "done"]
    /\ TaskGoto(u, "tell")
    /\ UNCHANGED <<codes, spoilt>>

\* On a clogged connection somebody else's restore has cleared the flag (a failed
\* statement is then swallowed), and somebody else's COMMIT or ROLLBACK may end the
\* transaction: any part of it remains, and the task hears anything.
AnyPart(u, rest) ==
    /\ codes' = codes \/ codes' = [codes EXCEPT ![u] = @ + 1]
    /\ row' = rest \/ row' = [rest EXCEPT ![u] = "done"]
    /\ TaskGoto(u, "tell") \/ TaskGoto(u, "release")
    /\ spoilt' = TRUE

\* The tasks of the round that have not written yet may get mixed with this one.
Expose(u) ==
    exposed' = IF clogged
                 THEN exposed \cup {v \in Uploads \ {u} : task[v] \in {"prepare", "begin"}}
                 ELSE exposed

\* Mutant: the row is not completed in the transaction of the code.
CommitUncompleted(u) ==
    /\ task[u] = "write"
    /\ \/ Works /\ codes' = [codes EXCEPT ![u] = @ + 1] /\ TaskGoto(u, "tell")
       \/ Fails /\ TaskGoto(u, "release") /\ UNCHANGED codes
    /\ UNCHANGED <<session, row, notices, up, idx, rounds, missed, connVars, reopened, told,
                   startVars, crashes>>

\* Mutant: the exception of the transaction is logged and the task goes on.
CommitSwallowed(u) ==
    /\ task[u] = "write"
    /\ \/ Works /\ Completes(u)
       \/ Fails /\ TaskGoto(u, "tell") /\ UNCHANGED <<codes, row>>
    /\ UNCHANGED <<session, notices, up, idx, rounds, missed, connVars, reopened, told,
                   startVars, crashes>>

\* writer_transaction after its BEGIN: file record, code, complete_pending_upload, COMMIT.
Commit(u) ==
    /\ task[u] = "write"
    /\ \/ Works /\ Completes(u) /\ UNCHANGED <<exposed, spoilt, missed>>
       \/ \E lost \in SUBSET joined :
            /\ missed' = IF lost = {} \/ clogged THEN missed ELSE missed + 1
            /\ \/ Fails /\ GoesBack(u, Without(lost)) /\ UNCHANGED exposed
               \/ Fails /\ LosesCode(u, Without(lost)) /\ Expose(u)
               \/ clogged /\ Fails /\ AnyPart(u, Without(lost)) /\ Expose(u)
               \/ /\ u \in exposed /\ Works
                  /\ AnyPart(u, Without(lost))
                  /\ exposed' = exposed \ {u}
    /\ joined' = {}
    /\ UNCHANGED <<session, notices, up, idx, rounds, clogged, reopened, told, startVars,
                   crashes>>

\* Mutant: a code that cannot be sent is not parked.
TellOnce(u) ==
    /\ task[u] \in {"tell", "retell"}
    /\ \/ Works /\ told' = [told EXCEPT ![u] = @ + 1]
       \/ Fails /\ UNCHANGED told
    /\ TaskGoto(u, "manifested")
    /\ UNCHANGED <<session, row, notices, up, idx, rounds, missed, connVars, codes, reopened,
                   startVars, crashes>>

\* For a relay's upload the job is dispatched first, the message is what is left.
Dispatches(u) == u \in External /\ task[u] = "tell"

\* The code goes to the uploader; a call that raises may have been received.  Telegram
\* refuses messages to users who have never started the bot.
Tell(u) ==
    /\ task[u] \in {"tell", "retell"}
    /\ \/ /\ Works
          /\ told' = [told EXCEPT ![u] = @ + 1]
          /\ TaskGoto(u, "manifested")
       \/ /\ Fails
          /\ told' = told \/ told' = [told EXCEPT ![u] = @ + 1]
          /\ TaskGoto(u, IF Dispatches(u) THEN "retell" ELSE "park")
       \/ /\ u \in Strangers /\ ~Dispatches(u)
          /\ Works /\ TaskGoto(u, "park")
          /\ UNCHANGED told
    /\ UNCHANGED <<session, row, notices, up, idx, rounds, missed, connVars, codes, reopened,
                   startVars, crashes>>

\* _idx_transition_upload_session_safe; in another task's transaction it may be undone.
Mark(u, status) ==
    \/ Lasts /\ Transition(u, status)
    \/ (clogged \/ Writing # {}) /\ Works /\ UNCHANGED session

\* add_pending_file_code, queued or written at once; its failure is only logged.
Park(u) ==
    /\ task[u] = "park"
    /\ \/ Works /\ parked' = parked \cup {u} /\ UNCHANGED spoilt
       \/ clogged /\ Works /\ spoilt' = TRUE /\ UNCHANGED parked
       \/ Fails /\ UNCHANGED <<parked, spoilt>>
    /\ TaskGoto(u, "manifested")
    /\ UNCHANGED <<session, row, notices, up, idx, rounds, missed, clogged, joined, exposed,
                   codes, reopened, told, reply, deleting, eager, crashes>>

MarkManifested(u) ==
    /\ task[u] = "manifested"
    /\ Mark(u, "MANIFESTED")
    /\ TaskGoto(u, "ready")
    /\ UNCHANGED <<row, notices, up, idx, rounds, missed, connVars, codeVars, crashes>>

MarkReady(u) ==
    /\ task[u] = "ready"
    /\ Mark(u, "READY")
    /\ TaskGoto(u, "none")
    /\ UNCHANGED <<row, notices, up, idx, rounds, missed, connVars, codeVars, crashes>>

\* fail_pending_upload, whatever the row has become: an UPDATE that fails leaves it as it
\* is, and so does one in a transaction that is never committed.
ReleaseRow(u) ==
    /\ task[u] = "release"
    /\ \/ /\ Lasts /\ Works
          /\ row' = [row EXCEPT ![u] = "free"]
          /\ reopened' = IF row[u] = "done" THEN reopened \cup {u} ELSE reopened
          /\ joined' = IF Writing # {} THEN joined \cup {<<u, row[u]>>} ELSE joined
          /\ UNCHANGED <<missed, spoilt>>
       \/ /\ ~Lasts /\ Works
          /\ spoilt' = (spoilt \/ row[u] = "done")
          /\ UNCHANGED <<row, reopened, joined, missed>>
       \/ Fails /\ missed' = missed + 1 /\ UNCHANGED <<row, reopened, joined, spoilt>>
    /\ TaskGoto(u, "failed")
    /\ UNCHANGED <<session, notices, up, idx, rounds, clogged, exposed, codes, told, startVars,
                   crashes>>

MarkFailed(u) ==
    /\ task[u] = "failed"
    /\ Mark(u, "open")
    /\ TaskGoto(u, "none")
    /\ UNCHANGED <<row, notices, up, idx, rounds, missed, connVars, codeVars, crashes>>

\* The process comes back with a new connection; what was not committed is undone.
IdxCrash ==
    /\ crashes < MaxCrashes
    /\ idx' = "waiting" /\ rounds' = 0
    /\ task' = [u \in Uploads |-> "none"]
    /\ row' = Without(joined) /\ joined' = {}
    /\ clogged' = FALSE /\ exposed' = {}
    /\ reply' = {}
    /\ crashes' = crashes + 1
    /\ UNCHANGED <<session, notices, up, missed, spoilt, codes, reopened, told, parked,
                   deleting, eager, faults>>

-----------------------------------------------------------------------------
(* The uploader's /start on idx_bot: the parked codes, one after the other. *)

\* A send that raises though it arrived keeps the code; one that does not arrive
\* changes nothing.  The list is read from the table: a code whose delete is still
\* queued is in it.  Updates are handled one at a time.
SendParked(u) ==
    /\ u \in parked /\ reply = {}
    /\ \/ Works /\ reply' = reply \cup {u}
       \/ Fails /\ UNCHANGED reply
    /\ told' = [told EXCEPT ![u] = @ + 1]
    /\ IF u \in deleting
         THEN eager[u] < MaxEager /\ eager' = [eager EXCEPT ![u] = @ + 1]
         ELSE UNCHANGED eager
    /\ UNCHANGED <<session, row, notices, up, idxVars, codes, reopened, parked, deleting,
                   crashes>>

\* delete_pending_file_code: a failure keeps the code, otherwise the write is queued.
QueueDelete(u) ==
    /\ u \in reply
    /\ \/ Works /\ deleting' = deleting \cup {u}
       \/ Fails /\ UNCHANGED deleting
    /\ reply' = reply \ {u}
    /\ UNCHANGED <<session, row, notices, up, idxVars, codes, reopened, told, parked, eager,
                   crashes>>

\* The queued delete is executed, or lost for good.
DeleteParked(u) ==
    /\ u \in deleting
    /\ \/ Works /\ parked' = parked \ {u}
       \/ Fails /\ UNCHANGED parked
    /\ deleting' = deleting \ {u}
    /\ UNCHANGED <<session, row, notices, up, idxVars, codes, reopened, told, reply, eager,
                   crashes>>

-----------------------------------------------------------------------------
UpStep(u) ==
    \/ Receive(u) \/ Copy(u) \/ RecordCrdb(u) \/ RecordLocal(u) \/ MarkPending(u)
    \/ CreateEntries(u) \/ NotifyIdx(u)

TaskStep(u) ==
    \/ Prepare(u) \/ Begin(u) \/ Commit(u) \/ Tell(u) \/ Park(u)
    \/ MarkManifested(u) \/ MarkReady(u) \/ ReleaseRow(u) \/ MarkFailed(u)

StartStep(u) == SendParked(u) \/ QueueDelete(u) \/ DeleteParked(u)

LoopStep == WakeUp \/ LoseWakeUp \/ ResetStale \/ Claim \/ ClaimNothing \/ Gathered

Next ==
    \/ \E u \in Uploads : UpStep(u) \/ ChooseOptions(u) \/ TaskStep(u) \/ StartStep(u)
    \/ LoopStep \/ UpCrash \/ IdxCrash

Spec == Init /\ [][Next]_vars

\* idx_bot runs its event loop under a supervisor: while the loop or a task can take a step,
\* one of them is taken.  No fairness for up_bot, users, crashes or failures.
FairSpec ==
    /\ Spec
    /\ WF_vars(LoopStep \/ \E u \in Uploads : TaskStep(u))

-----------------------------------------------------------------------------
(* Properties.                                                             *)

Done(u) == IF row[u] = "done" THEN 1 ELSE 0

\* A code without a completed row costs a failed call each, and so does a completed row
\* without a code: nothing that is claimed again after a stale claim or a crash gets a
\* second code by itself (the transaction of _process_one_pending).  Only a failed call
\* makes fail_pending_upload give back a row that is completed.
CodesMatchRows ==
    \A u \in Uploads :
        /\ codes[u] <= Done(u) + faults
        /\ codes[u] < Done(u) => faults > 0
        /\ u \in reopened => faults > 0

\* idx_bot's two last transitions never run ahead of the transaction: a session that
\* says MANIFESTED or READY belongs to an upload whose row is completed, unless a failed
\* statement was swallowed in overlapping transactions.
ReadyMeansCoded ==
    \A u \in Uploads :
        session[u] \in {"MANIFESTED", "READY"} => row[u] = "done" \/ spoilt

\* A committed code that was neither sent nor parked was cut off by a crash, by a failed or
\* refused send followed by a failed parking, or by a failure among overlapping
\* transactions; every further message with the same code has a failure or a crash of its own, or
\* overtook the queued delete of the parked code.
Silent(u) ==
    /\ row[u] = "done" /\ task[u] \notin {"tell", "retell", "park", "release"}
    /\ told[u] = 0 /\ u \notin parked
LossesHaveCauses ==
    \A u \in Uploads :
        /\ Silent(u) => \/ crashes > 0 \/ faults > 1 \/ spoilt
                        \/ u \in Strangers /\ faults > 0
        /\ told[u] > 1 => told[u] - 1 <= faults + crashes + eager[u]

\* A notification serves every row that is free when it is there, also one whose first
\* attempts fail: it ends up completed, unless idx_bot crashes, the loop's own wake-up,
\* claim or release fails or is undone, or two tasks of a round overlap in their transactions
\* (_process_pending_uploads claims until nothing is left).
NoticeServesRows ==
    \A u \in Uploads, n \in 0..(MaxCrashes + MaxFaults) :
        (row[u] = "free" /\ notices = 1 /\ crashes + missed = n)
            ~> (row[u] = "done" \/ crashes + missed > n \/ clogged)

\* Abstractly, an upload is recorded and then completed, once and for all: neither
\* reset_stale_claims nor a claim reopens it, and fail_pending_upload only after a failed
\* call (reopened, see CodesMatchRows).
Abstract == INSTANCE OnceOnlyWrites WITH
    Msgs <- Uploads,
    submitted <- {u \in Uploads : row[u] # "none"},
    effects <- [u \in Uploads |-> IF u \in reopened THEN 1 ELSE Done(u)]
CompletedOnce == Abstract!Spec

=============================================================================
