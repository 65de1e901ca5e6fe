-------------------------- MODULE SharedConnection --------------------------
(***************************************************************************)
(* The one SQLite connection of a process (CacheStore._db) and the         *)
(* coroutines that share it.  begin_writer_tx replaces the connection's    *)
(* commit() by a no-op, so that the business methods, which commit for     *)
(* themselves, leave the transaction to its owner; commit_writer_tx and    *)
(* rollback_writer_tx put back what begin_writer_tx saved.  transaction()  *)
(* uses a savepoint when the connection is in a transaction.               *)
(*                                                                         *)
(* A task writes twice (a Single once): what matters is whether both       *)
(* writes are kept.  db_writer handles its messages one at a time; idx_bot *)
(* gathers up to ten uploads: Serial tells the two apart.                  *)
(***************************************************************************)
EXTENDS Naturals, Sequences

CONSTANTS
    Writers,     \* messages of db_writer (_execute_atomic)
    Finalizers,  \* uploads of idx_bot (writer_transaction, then fail_pending_upload)
    Units,       \* users of transaction()
    Singles,     \* methods that write and commit, unless in a writer transaction
    Serial,      \* TRUE iff a task starts only when no other is under way
    MaxFaults    \* bound: statements that fail

Tasks   == Writers \cup Finalizers \cup Units \cup Singles
Patched == Writers \cup Finalizers

ASSUME ConnectionAssumption ==
    /\ Patched \cap (Units \cup Singles) = {} /\ Writers \cap Finalizers = {}
    /\ Units \cap Singles = {}
    /\ Serial \in BOOLEAN
    /\ MaxFaults \in Nat

VARIABLES
    commit,   \* "real" or "noop": what _db.commit is
    saved,    \* _original_commit
    flag,     \* _in_writer_tx
    open,     \* the connection is in a transaction
    pending,  \* writes of the open transaction
    marks,    \* its savepoints: the writes there were at each
    durable,  \* committed writes
    pc,       \* [Tasks -> where the task is]
    owns,     \* Units that began the transaction they are in
    told,     \* [Tasks -> what the caller was told]
    undone,   \* history: tasks that went on after add_dirty_outbox failed in them, and
              \* those whose writes its rollback took
    faults

patch == <<commit, saved, flag>>
trans == <<open, pending, marks, durable>>
vars  == <<patch, trans, pc, owns, told, undone, faults>>

Steps  == {"start", "begin", "first", "second", "commit", "rollback", "release",
           "commitRelease", "ended"}
Writes == Tasks \X {"first", "second", "release"}

TypeOK ==
    /\ commit \in {"real", "noop"} /\ saved \in {"real", "noop"}
    /\ flag \in BOOLEAN /\ open \in BOOLEAN
    /\ pending \subseteq Writes /\ durable \subseteq Writes
    /\ marks \in Seq(SUBSET Writes)
    /\ ~open => pending = {} /\ marks = <<>>
    /\ pc \in [Tasks -> Steps]
    /\ owns \subseteq Units
    /\ told \in [Tasks -> {"nothing", "ok", "failed"}]
    /\ undone \subseteq Tasks
    /\ faults \in 0..MaxFaults

Init ==
    /\ commit = "real" /\ saved = "real" /\ flag = FALSE
    /\ open = FALSE /\ pending = {} /\ marks = <<>> /\ durable = {}
    /\ pc = [t \in Tasks |-> "start"]
    /\ owns = {}
    /\ told = [t \in Tasks |-> "nothing"]
    /\ undone = {}
    /\ faults = 0

-----------------------------------------------------------------------------
Fails == faults < MaxFaults /\ faults' = faults + 1
Works == UNCHANGED faults

Goto(t, step) == pc' = [pc EXCEPT ![t] = step] /\ UNCHANGED told
End(t, word)  == pc' = [pc EXCEPT ![t] = "ended"] /\ told' = [told EXCEPT ![t] = word]

UnderWay(t) == pc[t] \notin {"start", "ended"}
MayStart(t) == pc[t] = "start" /\ (Serial => \A o \in Tasks : ~UnderWay(o))

\* An INSERT or UPDATE: the driver begins a transaction when there is none.
Write(w) == open' = TRUE /\ pending' = pending \cup {w} /\ UNCHANGED <<marks, durable>>

CommitAll   == open' = FALSE /\ pending' = {} /\ marks' = <<>> /\ durable' = durable \cup pending
RollbackAll == open' = FALSE /\ pending' = {} /\ marks' = <<>> /\ UNCHANGED durable

\* _db.commit(), whatever it is at the moment.
CallCommit == IF commit = "real" THEN CommitAll ELSE UNCHANGED trans

\* The finally of commit_writer_tx and rollback_writer_tx, the except of begin_writer_tx.
Restore == commit' = saved /\ flag' = FALSE /\ UNCHANGED saved

\* A transaction of db_writer that failed ends; one of idx_bot releases its row.
GiveUp(t) == IF t \in Finalizers THEN Goto(t, "release") ELSE End(t, "failed")

-----------------------------------------------------------------------------
(* Writer transactions.                                                    *)

\* Mutant: commit() is not replaced.
BeginUnpatched(t) ==
    /\ t \in Patched /\ MayStart(t)
    /\ flag' = TRUE /\ saved' = commit
    /\ Goto(t, "begin")
    /\ UNCHANGED <<commit, trans, owns, undone, faults>>

\* begin_writer_tx up to its first await.
Begin(t) ==
    /\ t \in Patched /\ MayStart(t)
    /\ flag' = TRUE /\ saved' = commit /\ commit' = "noop"
    /\ Goto(t, "begin")
    /\ UNCHANGED <<trans, owns, undone, faults>>

\* Mutant: a BEGIN that fails leaves the connection patched (before R35).
BeginImmediateLeaves(t) ==
    /\ pc[t] = "begin"
    /\ \/ ~open /\ Works /\ open' = TRUE /\ Goto(t, "first")
       \/ (Fails \/ (open /\ Works)) /\ GiveUp(t) /\ UNCHANGED open
    /\ UNCHANGED <<patch, pending, marks, durable, owns, undone>>

\* BEGIN IMMEDIATE fails on a lock, and inside a transaction.
BeginImmediate(t) ==
    /\ pc[t] = "begin"
    /\ \/ ~open /\ Works /\ open' = TRUE /\ Goto(t, "first") /\ UNCHANGED patch
       \/ (Fails \/ (open /\ Works)) /\ Restore /\ GiveUp(t) /\ UNCHANGED open
    /\ UNCHANGED <<pending, marks, durable, owns, undone>>

\* A business method inside a transaction: its statement, then, in a writer
\* transaction, its own call of commit().
Statement(t) ==
    /\ pc[t] \in {"first", "second"} /\ t \notin Singles
    /\ \/ /\ Works
          /\ IF t \in Patched /\ commit = "real"
               THEN /\ open' = FALSE /\ pending' = {} /\ marks' = <<>>
                    /\ durable' = durable \cup pending \cup {<<t, pc[t]>>}
               ELSE Write(<<t, pc[t]>>)
          /\ Goto(t, IF pc[t] = "first" THEN "second" ELSE "commit")
       \/ Fails /\ Goto(t, "rollback") /\ UNCHANGED trans
    /\ UNCHANGED <<patch, owns, undone>>

\* add_dirty_outbox without a connection fails: it rolls back whatever transaction is
\* open (its own ROLLBACK may fail too), and its caller only logs the exception.  An
\* upload goes on to its second write, in a transaction the driver begins; a message of
\* db_writer to its COMMIT; a method on its own to a commit() of nothing, and success.
OutboxFails(t) ==
    /\ \/ t \in Finalizers /\ pc[t] = "first" /\ Goto(t, "second")
       \/ t \in Writers /\ pc[t] = "second" /\ Goto(t, "commit")
       \/ t \in Singles /\ MayStart(t) /\ Goto(t, "commit")
    /\ \/ /\ Fails /\ RollbackAll
          /\ undone' = undone \cup {t} \cup {o \in Tasks : \E w \in pending : w[1] = o}
       \/ /\ faults + 1 < MaxFaults /\ faults' = faults + 2 /\ UNCHANGED trans
          /\ undone' = undone \cup {t}
    /\ UNCHANGED <<patch, owns>>

\* commit_writer_tx.  When COMMIT fails _execute_atomic rolls back, writer_transaction
\* does not.
CommitWriter(t) ==
    /\ t \in Patched /\ pc[t] = "commit"
    /\ Restore
    /\ \/ open /\ Works /\ CommitAll /\ End(t, "ok")
       \/ /\ Fails \/ (~open /\ Works)
          /\ Goto(t, IF t \in Finalizers THEN "release" ELSE "rollback")
          /\ UNCHANGED trans
    /\ UNCHANGED <<owns, undone>>

\* rollback_writer_tx; ROLLBACK fails when there is no transaction.
RollbackWriter(t) ==
    /\ t \in Patched /\ pc[t] = "rollback"
    /\ Restore
    /\ \/ Works /\ RollbackAll
       \/ Fails /\ UNCHANGED trans
    /\ GiveUp(t)
    /\ UNCHANGED <<owns, undone>>

\* fail_pending_upload: it commits unless the flag says that somebody else will.
Release(t) ==
    /\ pc[t] = "release"
    /\ \/ /\ Works /\ Write(<<t, "release">>)
          /\ IF flag THEN End(t, "failed") ELSE Goto(t, "commitRelease")
       \/ Fails /\ End(t, "failed") /\ UNCHANGED trans
    /\ UNCHANGED <<patch, owns, undone>>

CommitRelease(t) ==
    /\ pc[t] = "commitRelease"
    /\ \/ Works /\ CallCommit
       \/ Fails /\ UNCHANGED trans
    /\ End(t, "failed")
    /\ UNCHANGED <<patch, owns, undone>>

-----------------------------------------------------------------------------
(* Methods that write once.                                                *)

SingleWrite(t) ==
    /\ t \in Singles /\ MayStart(t)
    /\ \/ /\ Works /\ Write(<<t, "first">>)
          /\ IF flag THEN End(t, "ok") ELSE Goto(t, "commit")
       \/ Fails /\ End(t, "failed") /\ UNCHANGED trans
    /\ UNCHANGED <<patch, owns, undone>>

SingleCommit(t) ==
    /\ t \in Singles /\ pc[t] = "commit"
    /\ \/ Works /\ CallCommit /\ End(t, "ok")
       \/ Fails /\ End(t, "failed") /\ UNCHANGED trans
    /\ UNCHANGED <<patch, owns, undone>>

-----------------------------------------------------------------------------
(* transaction().                                                          *)

\* BEGIN, or a savepoint in the transaction there is.
Enter(t) ==
    /\ t \in Units /\ MayStart(t)
    /\ \/ /\ Works /\ open' = TRUE /\ Goto(t, "first")
          /\ IF open THEN marks' = Append(marks, pending) /\ UNCHANGED owns
                     ELSE owns' = owns \cup {t} /\ UNCHANGED marks
       \/ Fails /\ End(t, "failed") /\ UNCHANGED <<open, marks, owns>>
    /\ UNCHANGED <<patch, pending, durable, undone>>

\* commit() by the owner, RELEASE by the others; RELEASE fails when the savepoint has
\* gone with its transaction.
Leave(t) ==
    /\ t \in Units /\ pc[t] = "commit"
    /\ \/ t \in owns /\ Works /\ CallCommit /\ End(t, "ok")
       \/ /\ t \notin owns /\ marks # <<>> /\ Works
          /\ marks' = SubSeq(marks, 1, Len(marks) - 1)
          /\ End(t, "ok")
          /\ UNCHANGED <<open, pending, durable>>
       \/ Fails /\ End(t, "failed") /\ UNCHANGED trans
       \/ t \notin owns /\ marks = <<>> /\ Works /\ End(t, "failed") /\ UNCHANGED trans
    /\ UNCHANGED <<patch, owns, undone>>

\* Mutant: everything is rolled back, whoever began the transaction (before R61).
UndoEverything(t) ==
    /\ t \in Units /\ pc[t] = "rollback"
    /\ End(t, "failed")
    /\ Works /\ RollbackAll
    /\ UNCHANGED <<patch, owns, undone>>

\* rollback() by the owner, ROLLBACK TO by the others; a failure is only logged.
Undo(t) ==
    /\ t \in Units /\ pc[t] = "rollback"
    /\ End(t, "failed")
    /\ \/ t \in owns /\ Works /\ RollbackAll
       \/ /\ t \notin owns /\ marks # <<>> /\ Works
          /\ pending' = marks[Len(marks)]
          /\ UNCHANGED <<open, marks, durable>>
       \/ (Fails \/ (t \notin owns /\ marks = <<>> /\ Works)) /\ UNCHANGED trans
    /\ UNCHANGED <<patch, owns, undone>>

-----------------------------------------------------------------------------
Step(t) ==
    \/ Begin(t) \/ BeginImmediate(t) \/ Statement(t) \/ OutboxFails(t) \/ CommitWriter(t)
    \/ RollbackWriter(t) \/ Release(t) \/ CommitRelease(t) \/ SingleWrite(t) \/ SingleCommit(t)
    \/ Enter(t) \/ Leave(t) \/ Undo(t)

Next == \E t \in Tasks : Step(t)
Spec == Init /\ [][Next]_vars

-----------------------------------------------------------------------------
(* Properties.                                                             *)

\* A writer transaction is under way from begin_writer_tx to the call that restores.
InWriterTx(t) == t \in Patched /\ pc[t] \in {"begin", "first", "second", "commit", "rollback"}

\* Outside writer transactions commit() commits: whatever BEGIN, a method, COMMIT or
\* ROLLBACK did, the no-op is taken back (the comment at begin_writer_tx: otherwise
\* later calls lose their data silently).
CommitRestored == (\A t \in Tasks : ~InWriterTx(t)) => commit = "real" /\ ~flag

\* A write whose caller was told that it succeeded is committed, or in an open
\* transaction: a nested transaction() that fails, or a COMMIT that failed before, takes
\* nothing of the others' away.  The exception is the rollback of add_dirty_outbox.
AckedIsKept ==
    \A t \in Tasks, w \in {"first", "second"} :
        told[t] = "ok" /\ (t \in Singles => w = "first")
            => <<t, w>> \in durable \cup pending \/ t \in undone

\* Half of a transaction becomes permanent only if add_dirty_outbox failed in it, or a
\* statement and then its ROLLBACK failed and a later commit found it there.
HalvesHaveCauses ==
    \A t \in Tasks \ Singles :
        (<<t, "first">> \in durable) # (<<t, "second">> \in durable)
            => t \in undone \/ faults > 1

=============================================================================
