------------------------------ MODULE CrdbSync ------------------------------
(***************************************************************************)
(* services/crdb_sync_service.py: the copy of the local rows in CockroachDB*)
(* (the mirror) and the table dirty_outbox that feeds it.                  *)
(*                                                                         *)
(* Whoever changes a row of file_records appends a row to dirty_outbox in  *)
(* the same SQLite transaction: a snapshot ("upsert"), "tombstone" or      *)
(* "restore".  The instance of crdb_sync that holds the leader lease in    *)
(* Redis reads the oldest unprocessed rows, keeps the newest of each key,  *)
(* sends those to CockroachDB one statement after another, puts the ones   *)
(* that failed into dlq_records, and marks the whole batch processed.      *)
(*                                                                         *)
(* The lease is checked before a batch and at no statement of it.  The     *)
(* task that renews it and the loops that sync jobs and cells share the    *)
(* flag _lease_valid and the connection pool with the batch.               *)
(*                                                                         *)
(* One table with a handler is modelled.  A row is named by its id; as the *)
(* version of a key is allocated in the transaction that inserts the row,  *)
(* the versions of a key grow with the ids.  Redis is as in production:    *)
(* when it fails nobody falls back to the lease in SQLite.  A statement    *)
(* takes effect while its caller waits for it or never.                    *)
(*                                                                         *)
(* make_file_record gives every row it builds a dict (file_types) and a    *)
(* list (backup_channel_msg_ids): such a row is Unsendable.  Rows written  *)
(* with strings there are not (scripts/synthetic_transaction.py).          *)
(***************************************************************************)
EXTENDS Naturals, Sequences, FiniteSets

CONSTANTS
    Keys,       \* primary keys of file_records
    Unsendable, \* those whose row holds a dict or a list where the table has TEXT
    Syncers,    \* instances of crdb_sync on one SQLite file
    BatchLimit, \* CRDB_SYNC_BATCH_SIZE
    MaxRows,    \* bound on the rows of dirty_outbox
    MaxTroubles \* bound on the Troubles, of all kinds together

Troubles == {"statement", \* a statement raises
             "idle",      \* the pool is closed as idle
             "outage",    \* Redis fails when the lease is renewed
             "lapse",     \* the lease of a running instance expires
             "letter",    \* dlq_records cannot be written
             "mark",      \* mark_dirty_processed fails
             "crash"}     \* an instance stops or dies

NoSyncer == "none"

ASSUME SyncAssumption ==
    /\ Unsendable \subseteq Keys
    /\ BatchLimit \in Nat \ {0}
    /\ MaxRows \in Nat
    /\ MaxTroubles \in Nat
    /\ NoSyncer \notin Syncers

Ops == {"upsert", "tombstone", "restore"}

VARIABLES
    outbox,    \* dirty_outbox: Seq([key: Keys, op: Ops]), an id is a position
    processed, \* ids with processed = 1
    dlq,       \* ids in dlq_records
    mirror,    \* CockroachDB: [Keys -> MirrorRows]
    lease,     \* the Redis key sync_leader: who holds it
    valid,     \* [Syncers -> _lease_valid]
    pool,      \* [Syncers -> _crdb_pool_connected]
    phase,     \* [Syncers -> "down", "idle" or "busy" with a batch]
    todo,      \* [Syncers -> ids of the batch still to dispatch]
    failed,    \* [Syncers -> ids of the batch that were not dispatched]
    done,      \* [Syncers -> ids of the batch that will be marked]
    applied,   \* history: ids whose statement took effect
    term,      \* history: how often the lease was acquired
    readIn,    \* history: [Syncers -> term in which the batch was read]
    unfenced,  \* history: keys written by a batch of a lost lease
    troubles,  \* how many Troubles there were
    seen       \* and of which kinds

batchVars  == <<todo, failed, done, readIn>>
leaseVars  == <<lease, valid, term>>
outboxVars == <<outbox, processed, dlq>>
mirrorVars == <<mirror, applied, unfenced>>
troubleVars == <<troubles, seen>>
vars == <<outboxVars, mirrorVars, leaseVars, batchVars, pool, phase, troubleVars>>

\* A row of the CRDB table: the upsert it came from (0: no row), is_tombstone.
MirrorRows == {r \in [content: Nat, tomb: BOOLEAN] : r.content = 0 => ~r.tomb}

Ids     == DOMAIN outbox
Pending == Ids \ processed

TypeOK ==
    /\ outbox \in Seq([key: Keys, op: Ops])
    /\ processed \subseteq Ids
    /\ dlq \subseteq Ids
    /\ mirror \in [Keys -> MirrorRows]
    /\ lease \in Syncers \cup {NoSyncer}
    /\ valid \in [Syncers -> BOOLEAN]
    /\ pool \in [Syncers -> BOOLEAN]
    /\ phase \in [Syncers -> {"down", "idle", "busy"}]
    /\ todo \in [Syncers -> SUBSET Ids]
    /\ failed \in [Syncers -> SUBSET Ids]
    /\ done \in [Syncers -> SUBSET Ids]
    /\ applied \subseteq Ids
    /\ term \in Nat
    /\ readIn \in [Syncers -> Nat]
    /\ unfenced \subseteq Keys
    /\ troubles \in 0..MaxTroubles
    /\ seen \subseteq Troubles

Init ==
    /\ outbox = <<>>
    /\ processed = {} /\ dlq = {} /\ applied = {} /\ unfenced = {}
    /\ mirror = [k \in Keys |-> [content |-> 0, tomb |-> FALSE]]
    /\ lease = NoSyncer
    /\ term = 0
    /\ valid = [s \in Syncers |-> FALSE]
    /\ pool = [s \in Syncers |-> FALSE]
    /\ phase = [s \in Syncers |-> "down"]
    /\ todo = [s \in Syncers |-> {}]
    /\ failed = [s \in Syncers |-> {}]
    /\ done = [s \in Syncers |-> {}]
    /\ readIn = [s \in Syncers |-> 0]
    /\ troubles = 0 /\ seen = {}

Spend(t) ==
    /\ troubles < MaxTroubles
    /\ troubles' = troubles + 1
    /\ seen' = seen \cup {t}

KeyOf(i) == outbox[i].key
OpOf(i)  == outbox[i].op
Newer(i, j) == i < j /\ KeyOf(i) = KeyOf(j)
Newest(i)   == ~\E j \in Ids : Newer(i, j)

-----------------------------------------------------------------------------
(* The rows: each action is one SQLite transaction of a bot or the admin.  *)

Append1(k, op) ==
    /\ Len(outbox) < MaxRows
    /\ outbox' = Append(outbox, [key |-> k, op |-> op])
    /\ UNCHANGED <<processed, dlq, mirrorVars, leaseVars, batchVars, pool, phase, troubleVars>>

Exists(k) == \E i \in Ids : KeyOf(i) = k /\ OpOf(i) = "upsert"

\* upsert_file_record_local(mark_dirty=True): INSERT OR REPLACE and a snapshot.
Upsert(k) == Append1(k, "upsert")

\* takedown_content: deleted_at is set, if there is the row.
Takedown(k) == Exists(k) /\ Append1(k, "tombstone")

\* _restore_content_internal: deleted_at is cleared, if there is the row.
Restore(k) == Exists(k) /\ Append1(k, "restore")

-----------------------------------------------------------------------------
(* The leader lease.                                                       *)

Up(s) == phase[s] # "down"

Drop(s) ==
    /\ todo' = [todo EXCEPT ![s] = {}]
    /\ failed' = [failed EXCEPT ![s] = {}]
    /\ done' = [done EXCEPT ![s] = {}]

\* SET NX PX: succeeds when nobody holds the key.
Acquire(s) ==
    /\ lease = NoSyncer
    /\ lease' = s
    /\ term' = term + 1
    /\ valid' = [valid EXCEPT ![s] = TRUE]

\* main: an instance that does not get the lease exits.
Start(s) ==
    /\ ~Up(s)
    /\ Acquire(s)
    /\ phase' = [phase EXCEPT ![s] = "idle"]
    /\ UNCHANGED <<outboxVars, mirrorVars, batchVars, pool, troubleVars>>

\* _renew_leader_lease: compare-and-renew; a holder that had lost the flag has
\* it again.
Renew(s) ==
    /\ Up(s)
    /\ valid' = [valid EXCEPT ![s] = (lease = s)]
    /\ UNCHANGED <<outboxVars, mirrorVars, lease, term, batchVars, pool, phase, troubleVars>>

\* _renew_leader_lease when Redis cannot be asked: fail closed.
RenewFails(s) ==
    /\ Up(s)
    /\ Spend("outage")
    /\ valid' = [valid EXCEPT ![s] = FALSE]
    /\ UNCHANGED <<outboxVars, mirrorVars, lease, term, batchVars, pool, phase>>

\* _leader_renewal_task after a failed renewal: _acquire_leader_lease.
Reacquire(s) ==
    /\ Up(s)
    /\ ~valid[s]
    /\ Acquire(s)
    /\ UNCHANGED <<outboxVars, mirrorVars, batchVars, pool, phase, troubleVars>>

\* _LEADER_TTL passes without a renewal: the holder is gone, or it has been
\* held up or cut off from Redis for that long.
Lapse ==
    /\ lease # NoSyncer
    /\ IF Up(lease) THEN Spend("lapse") ELSE UNCHANGED troubleVars
    /\ lease' = NoSyncer
    /\ UNCHANGED <<outboxVars, mirrorVars, valid, term, batchVars, pool, phase>>

\* The process goes, at any await.  On a signal _release_leader_lease gives the
\* lease back.
Stop(s) ==
    /\ Up(s)
    /\ Spend("crash")
    /\ \/ UNCHANGED lease
       \/ lease = s /\ lease' = NoSyncer
    /\ valid' = [valid EXCEPT ![s] = FALSE]
    /\ pool' = [pool EXCEPT ![s] = FALSE]
    /\ phase' = [phase EXCEPT ![s] = "down"]
    /\ Drop(s)
    /\ UNCHANGED <<outboxVars, mirrorVars, term, readIn>>

-----------------------------------------------------------------------------
(* The pool that the three loops of an instance share.                     *)

\* A loop finds _lease_valid false, or finds nothing to do while a batch of
\* another loop has been running longer than CRDB_IDLE_CLOSE_THRESHOLD.
ClosePool(s) ==
    /\ pool[s]
    /\ IF valid[s] THEN Spend("idle") ELSE UNCHANGED troubleVars
    /\ pool' = [pool EXCEPT ![s] = FALSE]
    /\ UNCHANGED <<outboxVars, mirrorVars, leaseVars, batchVars, phase>>

\* _lazy_connect_crdb in the loop of jobs or of cells.
Connect(s) ==
    /\ valid[s]
    /\ ~pool[s]
    /\ pool' = [pool EXCEPT ![s] = TRUE]
    /\ UNCHANGED <<outboxVars, mirrorVars, leaseVars, batchVars, phase, troubleVars>>

-----------------------------------------------------------------------------
(* _sync_dirty_outbox.                                                     *)

\* get_dirty_outbox_batch: ORDER BY id ASC LIMIT BatchLimit.
Batch == {i \in Pending : Cardinality({j \in Pending : j <= i}) <= BatchLimit}

\* The merge by version (_resolve_version_conflict): the newest row of a key.
Winners(ids) == {i \in ids : ~\E j \in ids : Newer(i, j)}

\* Mutant: the rows that lost are left for the next batch.
ReadBatch_WinnersOnly(s) ==
    /\ phase[s] = "idle" /\ valid[s] /\ Pending # {}
    /\ phase' = [phase EXCEPT ![s] = "busy"]
    /\ pool' = [pool EXCEPT ![s] = TRUE]
    /\ todo' = [todo EXCEPT ![s] = Winners(Batch)]
    /\ readIn' = [readIn EXCEPT ![s] = term]
    /\ UNCHANGED <<outboxVars, mirrorVars, leaseVars, failed, done, troubleVars>>
\* Mutant: nobody connects before the batch.
ReadBatch_Unconnected(s) ==
    /\ phase[s] = "idle" /\ valid[s] /\ Pending # {}
    /\ phase' = [phase EXCEPT ![s] = "busy"]
    /\ todo' = [todo EXCEPT ![s] = Winners(Batch)]
    /\ done' = [done EXCEPT ![s] = Batch \ Winners(Batch)]
    /\ readIn' = [readIn EXCEPT ![s] = term]
    /\ UNCHANGED <<outboxVars, mirrorVars, leaseVars, failed, pool, troubleVars>>
\* The lease flag is read, the pool connected, the batch read and merged.  The
\* rows that lost count as processed from here on.
ReadBatch(s) ==
    /\ phase[s] = "idle"
    /\ valid[s]
    /\ Pending # {}
    /\ phase' = [phase EXCEPT ![s] = "busy"]
    /\ pool' = [pool EXCEPT ![s] = TRUE]
    /\ todo' = [todo EXCEPT ![s] = Winners(Batch)]
    /\ done' = [done EXCEPT ![s] = Batch \ Winners(Batch)]
    /\ readIn' = [readIn EXCEPT ![s] = term]
    /\ UNCHANGED <<outboxVars, mirrorVars, leaseVars, failed, troubleVars>>

\* _route_dirty_outbox_to_dlq: letters for a set of rows.  "written" are the
\* ones that insert_dlq_record stored.
Letters(ids, written) ==
    /\ IF written = ids THEN UNCHANGED troubleVars ELSE Spend("letter")
    /\ dlq' = dlq \cup written

Unknown(s) == {i \in todo[s] : OpOf(i) = "restore"}

\* Mutant: dead rows are left unprocessed, as the function's comment has it.
RouteUnknown_LeavesPending(s) ==
    /\ phase[s] = "busy" /\ Unknown(s) # {}
    /\ dlq' = dlq \cup Unknown(s)
    /\ todo' = [todo EXCEPT ![s] = @ \ Unknown(s)]
    /\ UNCHANGED <<outbox, processed, mirrorVars, leaseVars, failed, done, readIn, pool,
                   phase, troubleVars>>
\* _dispatch_dirty_outbox_to_crdb, first: rows with an operation it does not
\* know.  They are processed if all their letters were written, else failed.
RouteUnknown(s) ==
    /\ phase[s] = "busy"
    /\ Unknown(s) # {}
    /\ \E written \in SUBSET Unknown(s) :
          /\ Letters(Unknown(s), written)
          /\ IF written = Unknown(s)
             THEN /\ done' = [done EXCEPT ![s] = @ \cup Unknown(s)]
                  /\ UNCHANGED failed
             ELSE /\ failed' = [failed EXCEPT ![s] = @ \cup Unknown(s)]
                  /\ UNCHANGED done
    /\ todo' = [todo EXCEPT ![s] = @ \ Unknown(s)]
    /\ UNCHANGED <<outbox, processed, mirrorVars, leaseVars, readIn, pool, phase>>

\* Mutant: a tombstone is inserted where there is no row.
Written_Inserts(i, row) ==
    IF OpOf(i) = "upsert" THEN [row EXCEPT !.content = i] ELSE [row EXCEPT !.tomb = TRUE]
\* What a statement makes of a row: INSERT .. ON CONFLICT DO UPDATE leaves
\* is_tombstone alone and asks for no version; UPDATE .. SET is_tombstone = 1
\* finds the row or does nothing.
Written(i, row) ==
    IF OpOf(i) = "upsert" THEN [row EXCEPT !.content = i]
    ELSE IF row.content = 0 THEN row ELSE [row EXCEPT !.tomb = TRUE]

Fenced(s) == lease = s /\ readIn[s] = term

TakesEffect(s, i) ==
    /\ mirror' = [mirror EXCEPT ![KeyOf(i)] = Written(i, @)]
    /\ applied' = applied \cup {i}
    /\ unfenced' = IF Fenced(s) THEN unfenced ELSE unfenced \cup {KeyOf(i)}

\* The next statement of a batch: upserts before tombstones, the rows of
\* different keys in any order.
Due(s, i) ==
    /\ phase[s] = "busy"
    /\ Unknown(s) = {}
    /\ i \in todo[s]
    /\ OpOf(i) = "tombstone" => \A j \in todo[s] : OpOf(j) # "upsert"

\* _dispatch_file_records_upsert hands the values over as they are: asyncpg
\* refuses to encode a dict or a list, and nothing is sent.
Refused(i) == OpOf(i) = "upsert" /\ KeyOf(i) \in Unsendable

Dispatch(s, i) ==
    /\ Due(s, i)
    /\ pool[s]
    /\ ~Refused(i)
    /\ TakesEffect(s, i)
    /\ todo' = [todo EXCEPT ![s] = @ \ {i}]
    /\ done' = [done EXCEPT ![s] = @ \cup {i}]
    /\ UNCHANGED <<outboxVars, leaseVars, failed, readIn, pool, phase, troubleVars>>

\* The statement raises, with or without having taken effect; without a pool, or
\* with a value that cannot be encoded, none is sent.
DispatchFails(s, i) ==
    /\ Due(s, i)
    /\ \/ /\ ~pool[s] \/ Refused(i)
          /\ UNCHANGED <<mirrorVars, troubleVars>>
       \/ /\ pool[s] /\ ~Refused(i)
          /\ Spend("statement")
          /\ UNCHANGED mirrorVars \/ TakesEffect(s, i)
    /\ todo' = [todo EXCEPT ![s] = @ \ {i}]
    /\ failed' = [failed EXCEPT ![s] = @ \cup {i}]
    /\ UNCHANGED <<outboxVars, leaseVars, done, readIn, pool, phase>>

\* _dispatch_crdb_tombstone asks CockroachDB, before its first statement, whether
\* the table has the columns.  Without an answer all tombstones of the batch get
\* letters; if those fail too, the rows fail as in DispatchFails.  That a
\* positive answer is remembered is left out.
ProbeFails(s) ==
    /\ phase[s] = "busy"
    /\ todo[s] # {}
    /\ \A i \in Winners(todo[s] \cup failed[s] \cup done[s]) :
          OpOf(i) = "tombstone" <=> i \in todo[s]
    /\ IF pool[s] THEN Spend("statement") ELSE UNCHANGED troubleVars
    /\ dlq' = dlq \cup todo[s]
    /\ done' = [done EXCEPT ![s] = @ \cup todo[s]]
    /\ todo' = [todo EXCEPT ![s] = {}]
    /\ UNCHANGED <<outbox, processed, mirrorVars, leaseVars, failed, readIn, pool, phase>>

\* Mutant: the result of writing the letters is not looked at.
RouteFailed_Unasked(s) ==
    /\ phase[s] = "busy" /\ todo[s] = {} /\ failed[s] # {}
    /\ \E written \in SUBSET failed[s] : Letters(failed[s], written)
    /\ done' = [done EXCEPT ![s] = @ \cup failed[s]]
    /\ failed' = [failed EXCEPT ![s] = {}]
    /\ UNCHANGED <<outbox, processed, mirrorVars, leaseVars, todo, readIn, pool, phase>>
\* The rows that were not dispatched: processed if all their letters were
\* written, else left pending (mark_dirty_retry sets nothing a reader asks for).
RouteFailed(s) ==
    /\ phase[s] = "busy"
    /\ todo[s] = {}
    /\ failed[s] # {}
    /\ \E written \in SUBSET failed[s] :
          /\ Letters(failed[s], written)
          /\ done' = IF written = failed[s]
                     THEN [done EXCEPT ![s] = @ \cup failed[s]] ELSE done
    /\ failed' = [failed EXCEPT ![s] = {}]
    /\ UNCHANGED <<outbox, processed, mirrorVars, leaseVars, todo, readIn, pool, phase>>

\* mark_dirty_processed, which reports no failure.
Mark(s) ==
    /\ phase[s] = "busy"
    /\ todo[s] = {} /\ failed[s] = {}
    /\ \/ processed' = processed \cup done[s] /\ UNCHANGED troubleVars
       \/ Spend("mark") /\ UNCHANGED processed
    /\ done' = [done EXCEPT ![s] = {}]
    /\ phase' = [phase EXCEPT ![s] = "idle"]
    /\ UNCHANGED <<outbox, dlq, mirrorVars, leaseVars, todo, failed, readIn, pool>>

-----------------------------------------------------------------------------
Write == \E k \in Keys : Upsert(k) \/ Takedown(k) \/ Restore(k)

SyncStep(s) ==
    \/ RouteUnknown(s)
    \/ \E i \in todo[s] : Dispatch(s, i) \/ DispatchFails(s, i)
    \/ ProbeFails(s)
    \/ RouteFailed(s)
    \/ Mark(s)

Lead(s) ==
    Start(s) \/ Renew(s) \/ RenewFails(s) \/ Reacquire(s) \/ Stop(s)
        \/ ClosePool(s) \/ Connect(s)

Next ==
    \/ Write
    \/ Lapse
    \/ \E s \in Syncers : Lead(s) \/ ReadBatch(s) \/ SyncStep(s)

Spec == Init /\ [][Next]_vars

\* systemd restarts an instance, its tasks run, and the lease of a dead holder
\* expires.
Fairness ==
    /\ WF_vars(Lapse /\ ~Up(lease))
    /\ \A s \in Syncers :
          /\ WF_vars(Start(s))
          /\ WF_vars(Renew(s))
          /\ WF_vars(Reacquire(s))
          /\ WF_vars(ReadBatch(s))
          /\ WF_vars(SyncStep(s))

FairSpec == Spec /\ Fairness

-----------------------------------------------------------------------------
(* Properties.                                                             *)

\* No change is dropped: when the newest row of a key is processed, its
\* statement took effect or it is a letter in dlq_records, whichever instances
\* marked what (_sync_dirty_outbox, R51 P0-9: a row whose letter could not be
\* written stays pending).
NewestAccounted ==
    \A i \in processed : Newest(i) => i \in applied \cup dlq

Reflects(i) ==
    LET row == mirror[KeyOf(i)]
    IN IF OpOf(i) = "upsert" THEN row.content = i ELSE row.content = 0 \/ row.tomb

\* The mirror is not left behind: when the newest row of a key is processed and
\* no letter was written for it, CockroachDB has what that row says, unless a
\* batch whose lease was lost wrote the key.  Merging, batches cut by the limit,
\* restarts and repeated batches do not bring an older row back.
NewestReflected ==
    \A i \in processed \ dlq :
        Newest(i) /\ KeyOf(i) \notin unfenced => Reflects(i)

Shaken == seen \cap {"statement", "idle", "outage", "lapse"} # {}

\* Only a row whose operation has no handler, or an upsert that cannot be encoded,
\* is put into dlq_records while CockroachDB answers, the lease is renewed and the
\* pool is not closed for idleness: neither a restart nor an unwritten letter or
\* mark sends a row there.
DeadLettersHaveCauses ==
    \A i \in dlq : OpOf(i) = "restore" \/ Refused(i) \/ Shaken

\* Every change is settled in the end: once the changes stop, nothing stays
\* pending, through restarts, lost leases and failures of every kind.
EventuallyDrained == <>[](Pending = {})

=============================================================================
