----------------------- MODULE SharedConnectionProofs -----------------------
(***************************************************************************)
(* Theorems about SharedConnection, for any tasks and any number of        *)
(* failing statements: the type invariant, and, when tasks run one after   *)
(* another, that commit() is always restored, that only add_dirty_outbox   *)
(* rolls an acknowledged write back, and what a half-written transaction   *)
(* takes.                                                                  *)
(***************************************************************************)
EXTENDS SharedConnection, SequenceTheorems, TLAPS

-----------------------------------------------------------------------------
(* Type correctness.                                                       *)

\* What the shared pieces of the actions do to the types.
LEMMA PieceTypes ==
    ASSUME TypeOK, NEW t \in Tasks
    PROVE  /\ Works \/ Fails => faults' \in 0..MaxFaults
           /\ Restore => /\ commit' \in {"real", "noop"} /\ saved' \in {"real", "noop"}
                         /\ flag' \in BOOLEAN
           /\ \A s \in Steps : Goto(t, s) => /\ pc' \in [Tasks -> Steps]
                                             /\ told' \in [Tasks -> {"nothing", "ok", "failed"}]
           /\ \A w \in {"ok", "failed"} :
                End(t, w) => /\ pc' \in [Tasks -> Steps]
                             /\ told' \in [Tasks -> {"nothing", "ok", "failed"}]
<1>1. Works \/ Fails => faults' \in 0..MaxFaults
  BY ConnectionAssumption DEF TypeOK, Works, Fails
<1>2. Restore => /\ commit' \in {"real", "noop"} /\ saved' \in {"real", "noop"}
                 /\ flag' \in BOOLEAN
  BY DEF TypeOK, Restore
<1>3. \A s \in Steps : Goto(t, s) => /\ pc' \in [Tasks -> Steps]
                                     /\ told' \in [Tasks -> {"nothing", "ok", "failed"}]
  BY DEF TypeOK, Goto
<1>4. \A w \in {"ok", "failed"} :
        End(t, w) => /\ pc' \in [Tasks -> Steps]
                     /\ told' \in [Tasks -> {"nothing", "ok", "failed"}]
  BY DEF TypeOK, End, Steps
<1> QED
  BY <1>1, <1>2, <1>3, <1>4

TransOK ==
    /\ open \in BOOLEAN
    /\ pending \subseteq Writes /\ durable \subseteq Writes
    /\ marks \in Seq(SUBSET Writes)
    /\ ~open => pending = {} /\ marks = <<>>

\* No savepoints at all are a sequence of savepoints.
LEMMA NoMarks == <<>> \in Seq(SUBSET Writes)
BY EmptySeq

\* The calls on the connection keep its types.
LEMMA ConnectionTypes ==
    ASSUME TypeOK
    PROVE  /\ CommitAll \/ RollbackAll \/ CallCommit \/ UNCHANGED trans => TransOK'
           /\ \A w \in Writes : Write(w) => TransOK'
           /\ marks # <<>> => /\ SubSeq(marks, 1, Len(marks) - 1) \in Seq(SUBSET Writes)
                              /\ marks[Len(marks)] \subseteq Writes
                              /\ open
<1>1. CommitAll \/ RollbackAll => TransOK'
  BY NoMarks DEF TypeOK, TransOK, CommitAll, RollbackAll
<1>2. CallCommit \/ UNCHANGED trans => TransOK'
  BY <1>1 DEF TypeOK, TransOK, CallCommit, trans
<1>3. \A w \in Writes : Write(w) => TransOK'
  BY DEF TypeOK, TransOK, Write
<1>4. marks # <<>> => /\ SubSeq(marks, 1, Len(marks) - 1) \in Seq(SUBSET Writes)
                      /\ marks[Len(marks)] \subseteq Writes
                      /\ open
  BY DEF TypeOK
<1> QED
  BY <1>1, <1>2, <1>3, <1>4

\* The writes of a task are writes.
LEMMA OwnWrites ==
    ASSUME NEW t \in Tasks
    PROVE  \A w \in {"first", "second", "release"} : <<t, w>> \in Writes
BY DEF Writes

\* Every step keeps the types.
LEMMA StepTyped ==
    ASSUME TypeOK, NEW t \in Tasks, Step(t)
    PROVE  TypeOK'
<1> DEFINE PatchOK == /\ commit \in {"real", "noop"} /\ saved \in {"real", "noop"}
                      /\ flag \in BOOLEAN
           RestOK  == /\ pc \in [Tasks -> Steps] /\ owns \subseteq Units
                      /\ told \in [Tasks -> {"nothing", "ok", "failed"}]
                      /\ undone \subseteq Tasks /\ faults \in 0..MaxFaults
<1> SUFFICES PatchOK' /\ TransOK' /\ RestOK'
  BY DEF TypeOK, TransOK
<1> USE PieceTypes
<1>1. CASE Begin(t)
  BY <1>1 DEF Begin, TypeOK, TransOK, Steps, trans
<1>2. CASE BeginImmediate(t)
  <2>1. PatchOK' /\ TransOK'
    BY <1>2 DEF BeginImmediate, TypeOK, TransOK, patch
  <2>2. RestOK'
    BY <1>2 DEF BeginImmediate, GiveUp, TypeOK, Steps
  <2> QED
    BY <2>1, <2>2
<1>3. CASE Statement(t)
  <2>1. <<t, pc[t]>> \in Writes
    BY <1>3, OwnWrites DEF Statement
  <2>2. TransOK'
    BY <1>3, <2>1, ConnectionTypes, NoMarks DEF Statement, TypeOK, TransOK
  <2> QED
    BY <1>3, <2>2 DEF Statement, TypeOK, Steps, patch
<1>4. CASE CommitWriter(t)
  BY <1>4, ConnectionTypes DEF CommitWriter, TypeOK, Steps
<1>5. CASE RollbackWriter(t)
  BY <1>5, ConnectionTypes DEF RollbackWriter, GiveUp, TypeOK, Steps
<1>6. CASE Release(t)
  BY <1>6, ConnectionTypes, OwnWrites DEF Release, TypeOK, Steps, patch
<1>7. CASE CommitRelease(t)
  BY <1>7, ConnectionTypes DEF CommitRelease, TypeOK, patch
<1>8. CASE SingleWrite(t)
  BY <1>8, ConnectionTypes, OwnWrites DEF SingleWrite, TypeOK, Steps, patch
<1>9. CASE SingleCommit(t)
  BY <1>9, ConnectionTypes DEF SingleCommit, TypeOK, patch
<1>10. CASE Enter(t)
  <2>1. Append(marks, pending) \in Seq(SUBSET Writes)
    BY AppendProperties DEF TypeOK
  <2>2. TransOK'
    <3>1. CASE open' = TRUE /\ UNCHANGED <<pending, durable>> /\ marks' = Append(marks, pending)
      BY <2>1, <3>1 DEF TypeOK, TransOK
    <3>2. CASE open' = TRUE /\ UNCHANGED <<pending, durable, marks>>
      BY <3>2 DEF TypeOK, TransOK
    <3>3. CASE UNCHANGED <<open, pending, durable, marks>>
      BY <3>3 DEF TypeOK, TransOK
    <3> QED
      BY <1>10, <3>1, <3>2, <3>3 DEF Enter
  <2>3. RestOK'
    BY <1>10 DEF Enter, TypeOK, Steps
  <2>4. PatchOK'
    BY <1>10 DEF Enter, TypeOK, patch
  <2> QED
    BY <2>2, <2>3, <2>4
<1>11. CASE Leave(t)
  <2>1. TransOK'
    <3>1. CASE CallCommit \/ UNCHANGED trans
      BY <3>1, ConnectionTypes
    <3>2. CASE marks # <<>> /\ marks' = SubSeq(marks, 1, Len(marks) - 1)
               /\ UNCHANGED <<open, pending, durable>>
      BY <3>2, ConnectionTypes DEF TypeOK, TransOK
    <3> QED
      BY <1>11, <3>1, <3>2 DEF Leave
  <2> QED
    BY <1>11, <2>1 DEF Leave, TypeOK, patch
<1>12. CASE Undo(t)
  <2>1. TransOK'
    BY <1>12, ConnectionTypes DEF Undo, TypeOK, TransOK
  <2> QED
    BY <1>12, <2>1 DEF Undo, TypeOK, patch
<1>13. CASE OutboxFails(t)
  <2>1. TransOK' /\ PatchOK'
    BY <1>13, ConnectionTypes DEF OutboxFails, TypeOK, patch
  <2>2. faults' \in 0..MaxFaults
    BY <1>13, ConnectionAssumption DEF OutboxFails, Fails, TypeOK
  <2>3. undone' \subseteq Tasks
    BY <1>13 DEF OutboxFails, TypeOK
  <2> QED
    BY <1>13, <2>1, <2>2, <2>3 DEF OutboxFails, TypeOK, Steps
<1> QED
  BY <1>1, <1>2, <1>3, <1>4, <1>5, <1>6, <1>7, <1>8, <1>9, <1>10, <1>11, <1>12, <1>13 DEF Step

\* The type invariant holds in every behaviour.
THEOREM TypeCorrect == Spec => []TypeOK
<1>1. Init => TypeOK
  <2> SUFFICES ASSUME Init PROVE TypeOK
    OBVIOUS
  <2>1. marks \in Seq(SUBSET Writes)
    BY NoMarks DEF Init
  <2>2. faults \in 0..MaxFaults
    BY ConnectionAssumption DEF Init
  <2>3. pc \in [Tasks -> Steps] /\ told \in [Tasks -> {"nothing", "ok", "failed"}]
    BY DEF Init, Steps
  <2> QED
    BY <2>1, <2>2, <2>3 DEF Init, TypeOK
<1>2. TypeOK /\ [Next]_vars => TypeOK'
  <2> SUFFICES ASSUME TypeOK, [Next]_vars PROVE TypeOK'
    OBVIOUS
  <2>1. CASE Next
    BY <2>1, StepTyped DEF Next
  <2>2. CASE UNCHANGED vars
    BY <2>2 DEF TypeOK, vars, patch, trans
  <2> QED
    BY <2>1, <2>2
<1> QED
  BY <1>1, <1>2, PTL DEF Spec

-----------------------------------------------------------------------------
(* One task at a time.  The patch is undone because what begin_writer_tx    *)
(* saves is the real commit(); nothing of others is rolled back because a   *)
(* transaction one began holds one's own writes only, and a nested one has  *)
(* a savepoint with everybody else's.                                       *)

Own(t)    == {t} \X {"first", "second", "release"}
Inside(t) == pc[t] \in {"first", "second", "commit", "rollback"}

OneAtATime == \A a, b \in Tasks : UnderWay(a) /\ UnderWay(b) => a = b

PatchHeld ==
    /\ saved = "real"
    /\ \A t \in Patched : pc[t] \in {"begin", "first", "second", "commit"} => commit = "noop"

Shape(t) ==
    /\ pc[t] = "begin" => t \in Patched
    /\ pc[t] \in {"release", "commitRelease"} => t \in Finalizers
    /\ t \in Singles => pc[t] \in {"start", "commit", "ended"}
    /\ told[t] # "nothing" => pc[t] = "ended"
    /\ t \in owns => pc[t] # "start"

Fresh(t) == pc[t] \in {"start", "begin", "first"} => Own(t) \cap (durable \cup pending) = {}

Half(t, writes) == (<<t, "first">> \in writes) # (<<t, "second">> \in writes)

Progress(t) ==
    /\ Inside(t) => Own(t) \cap durable = {}
    /\ pc[t] = "second" => <<t, "first">> \in pending \/ t \in undone
    /\ pc[t] = "commit" => \/ t \in undone
                           \/ /\ <<t, "first">> \in pending
                              /\ t \notin Singles => <<t, "second">> \in pending
    /\ pc[t] = "rollback" /\ Half(t, pending) => faults > 0 \/ t \in undone

Surroundings(t) ==
    Inside(t) =>
        /\ t \in Patched \cup owns => pending \subseteq Own(t)
        /\ t \in Units \ owns =>
             /\ open /\ marks # <<>>
             /\ pending \ Own(t) = marks[Len(marks)]

Halves(t) ==
    t \notin Singles /\ ~Inside(t) =>
        /\ Half(t, durable) => faults > 1 \/ t \in undone
        /\ Half(t, pending) => faults > 1 \/ t \in undone

SerialInv ==
    /\ OneAtATime /\ PatchHeld /\ CommitRestored /\ AckedIsKept
    /\ \A t \in Tasks : Shape(t) /\ Fresh(t) /\ Progress(t) /\ Surroundings(t) /\ Halves(t)

\* Nobody else moves while a task takes a step.
LEMMA Others ==
    ASSUME Serial, TypeOK, OneAtATime, NEW t \in Tasks, Step(t)
    PROVE  \A o \in Tasks \ {t} : /\ ~UnderWay(o)
                                  /\ pc'[o] = pc[o] /\ told'[o] = told[o]
<1>1. MayStart(t) \/ UnderWay(t)
  BY DEF Step, Begin, BeginImmediate, Statement, OutboxFails, CommitWriter, RollbackWriter, Release,
         CommitRelease, SingleWrite, SingleCommit, Enter, Leave, Undo, UnderWay
<1>2. \A o \in Tasks \ {t} : ~UnderWay(o)
  BY <1>1 DEF MayStart, OneAtATime
<1>3. \A o \in Tasks \ {t} : pc'[o] = pc[o] /\ told'[o] = told[o]
  BY DEF Step, Begin, BeginImmediate, Statement, OutboxFails, CommitWriter, RollbackWriter, Release,
         CommitRelease, SingleWrite, SingleCommit, Enter, Leave, Undo, GiveUp, Goto, End, TypeOK
<1> QED
  BY <1>2, <1>3

\* What a step of t may do to the writes of the others: nothing, commit them, or undo
\* them with the rollback of add_dirty_outbox.
Untouched(t) == pending' \ Own(t) = pending \ Own(t) /\ durable' \ Own(t) = durable \ Own(t)
Committed(t) == pending' \ Own(t) = {} /\ durable' \ Own(t) = (durable \cup pending) \ Own(t)
Undone(t)    == /\ pending' = {} /\ durable' = durable
                /\ \A o \in Tasks : (\E w \in pending : w[1] = o) => o \in undone'

\* The calls on the connection do one or the other; a ROLLBACK, when all it undoes is
\* the task's own.
LEMMA CallsSpareOthers ==
    ASSUME NEW t \in Tasks
    PROVE  /\ CommitAll => Committed(t)
           /\ CallCommit => Committed(t) \/ Untouched(t)
           /\ UNCHANGED trans => Untouched(t)
           /\ UNCHANGED <<pending, durable>> => Untouched(t)
           /\ RollbackAll /\ pending \subseteq Own(t) => Untouched(t)
           /\ \A w \in {"first", "second", "release"} : Write(<<t, w>>) => Untouched(t)
BY DEF CommitAll, CallCommit, RollbackAll, Write, trans, Untouched, Committed, Own

\* A step spares the others' writes.
LEMMA StepSparesOthers ==
    ASSUME TypeOK, SerialInv, NEW t \in Tasks, Step(t)
    PROVE  Untouched(t) \/ Committed(t) \/ Undone(t)
<1> USE CallsSpareOthers
<1>1. CASE Begin(t) \/ BeginImmediate(t)
  BY <1>1 DEF Begin, BeginImmediate, trans
<1>2. CASE Statement(t)
  <2>1. t \in Patched => commit = "noop"
    BY <1>2 DEF Statement, SerialInv, PatchHeld
  <2> QED
    BY <1>2, <2>1 DEF Statement
<1>3. CASE CommitWriter(t)
  BY <1>3 DEF CommitWriter
<1>4. CASE RollbackWriter(t)
  <2>1. pending \subseteq Own(t)
    BY <1>4 DEF RollbackWriter, SerialInv, Surroundings, Inside
  <2> QED
    BY <1>4, <2>1 DEF RollbackWriter
<1>5. CASE Release(t) \/ CommitRelease(t) \/ SingleWrite(t) \/ SingleCommit(t)
  BY <1>5 DEF Release, CommitRelease, SingleWrite, SingleCommit
<1>6. CASE Enter(t) \/ Leave(t)
  BY <1>6 DEF Enter, Leave
<1>7. CASE Undo(t)
  <2>1. /\ t \in owns => pending \subseteq Own(t)
        /\ t \notin owns => pending \ Own(t) = marks[Len(marks)]
    BY <1>7 DEF Undo, SerialInv, Surroundings, Inside
  <2>2. t \notin owns /\ pending' = marks[Len(marks)] /\ UNCHANGED durable => Untouched(t)
    BY <2>1 DEF Untouched
  <2> QED
    BY <1>7, <2>1, <2>2 DEF Undo
<1>8. CASE OutboxFails(t)
  BY <1>8 DEF OutboxFails, RollbackAll, Undone
<1> QED
  BY <1>1, <1>2, <1>3, <1>4, <1>5, <1>6, <1>7, <1>8 DEF Step

\* A failed statement is never taken back, nor is a rollback of add_dirty_outbox.
LEMMA FaultsGrow ==
    ASSUME TypeOK, NEW t \in Tasks, Step(t)
    PROVE  faults \in Nat /\ faults' \in Nat /\ faults' >= faults /\ undone \subseteq undone'
BY ConnectionAssumption
DEF TypeOK, Works, Fails, Step, Begin, BeginImmediate, Statement, OutboxFails, CommitWriter, RollbackWriter,
    Release, CommitRelease, SingleWrite, SingleCommit, Enter, Leave, Undo

\* The task is kept alone, and the patch is held and undone.
LEMMA PatchKept ==
    ASSUME Serial, TypeOK, SerialInv, NEW t \in Tasks, Step(t)
    PROVE  OneAtATime' /\ PatchHeld' /\ CommitRestored'
<1>1. \A o \in Tasks \ {t} : ~UnderWay(o) /\ pc'[o] = pc[o]
  BY Others DEF SerialInv
<1>2. OneAtATime'
  BY <1>1 DEF OneAtATime, UnderWay
<1>3. \A o \in Tasks \ {t} : pc'[o] \in {"start", "ended"}
  BY <1>1 DEF UnderWay
<1>4. CASE Begin(t)
  <2>1. \A o \in Tasks : ~InWriterTx(o)
    BY <1>1, <1>4 DEF InWriterTx, UnderWay, Begin, MayStart
  <2>2. commit = "real"
    BY <2>1 DEF SerialInv, CommitRestored
  <2>3. saved' = "real" /\ commit' = "noop" /\ InWriterTx(t)'
    BY <1>4, <2>2 DEF Begin, Goto, TypeOK, InWriterTx
  <2> QED
    BY <1>2, <2>3 DEF PatchHeld, CommitRestored
<1>5. CASE \/ Restore /\ pc'[t] \in {"release", "rollback", "ended"}
           \/ UNCHANGED patch /\ ~InWriterTx(t) /\ ~InWriterTx(t)'
  <2>1. CASE Restore /\ pc'[t] \in {"release", "rollback", "ended"}
    BY <1>2, <1>3, <2>1 DEF Restore, PatchHeld, CommitRestored, SerialInv, Patched, Tasks
  <2>2. CASE UNCHANGED patch /\ ~InWriterTx(t) /\ ~InWriterTx(t)'
    <3>1. \A o \in Tasks : ~InWriterTx(o) /\ ~InWriterTx(o)'
      BY <1>1, <1>3, <2>2 DEF InWriterTx, UnderWay
    <3> QED
      BY <1>2, <2>2, <3>1 DEF patch, PatchHeld, CommitRestored, SerialInv, InWriterTx, Patched, Tasks
  <2> QED
    BY <1>5, <2>1, <2>2
<1>6. CASE UNCHANGED patch /\ InWriterTx(t) /\ pc[t] \in {"begin", "first", "second"}
           /\ InWriterTx(t)'
  BY <1>2, <1>3, <1>6 DEF patch, PatchHeld, CommitRestored, SerialInv, InWriterTx, Patched, Tasks
<1>7. CASE BeginImmediate(t) \/ Statement(t)
  <2>1. CASE t \in Patched
    BY <1>5, <1>6, <1>7, <2>1
    DEF BeginImmediate, Statement, GiveUp, Goto, End, TypeOK, InWriterTx
  <2>2. CASE t \notin Patched
    BY <1>5, <1>7, <2>2 DEF BeginImmediate, Statement, InWriterTx, SerialInv, Shape
  <2> QED
    BY <2>1, <2>2
<1>8. CASE CommitWriter(t) \/ RollbackWriter(t)
  BY <1>5, <1>8 DEF CommitWriter, RollbackWriter, GiveUp, Goto, End, TypeOK
<1>9. CASE Release(t) \/ CommitRelease(t)
  BY <1>5, <1>9 DEF Release, CommitRelease, Goto, End, TypeOK, InWriterTx
<1>10. CASE SingleWrite(t) \/ SingleCommit(t) \/ Enter(t) \/ Leave(t) \/ Undo(t)
  <2>1. t \notin Patched /\ UNCHANGED patch
    BY <1>10, ConnectionAssumption DEF SingleWrite, SingleCommit, Enter, Leave, Undo
  <2> QED
    BY <1>5, <2>1 DEF InWriterTx
<1>11. CASE OutboxFails(t)
  <2>1. CASE t \in Patched
    BY <1>6, <1>11, <2>1, ConnectionAssumption DEF OutboxFails, Goto, TypeOK, InWriterTx, Patched
  <2>2. CASE t \notin Patched
    BY <1>5, <1>11, <2>2 DEF OutboxFails, InWriterTx
  <2> QED
    BY <2>1, <2>2
<1> QED
  BY <1>4, <1>7, <1>8, <1>9, <1>10, <1>11 DEF Step

\* What the invariant says of the tasks that stand by survives a step of another one.
LEMMA OthersKept ==
    ASSUME Serial, TypeOK, SerialInv, NEW t \in Tasks, Step(t), NEW o \in Tasks \ {t}
    PROVE  /\ Shape(o)' /\ Fresh(o)' /\ Progress(o)' /\ Surroundings(o)' /\ Halves(o)'
           /\ \A w \in {"first", "second"} :
                told'[o] = "ok" /\ (o \in Singles => w = "first")
                    => <<o, w>> \in durable' \cup pending' \/ o \in undone'
<1>1. ~UnderWay(o) /\ pc'[o] = pc[o] /\ told'[o] = told[o]
  BY Others DEF SerialInv
<1>2. Untouched(t) \/ Committed(t) \/ Undone(t)
  BY StepSparesOthers
<1>3. \A w \in {"first", "second", "release"} : <<o, w>> \notin Own(t)
  BY DEF Own
<1>4. \/ \A w \in {"first", "second", "release"} :
            (<<o, w>> \in pending' <=> <<o, w>> \in pending)
            /\ (<<o, w>> \in durable' <=> <<o, w>> \in durable)
      \/ \A w \in {"first", "second", "release"} :
            <<o, w>> \notin pending'
            /\ (<<o, w>> \in durable' <=> <<o, w>> \in durable \cup pending)
      \/ \A w \in {"first", "second", "release"} :
            /\ <<o, w>> \notin pending' /\ (<<o, w>> \in durable' <=> <<o, w>> \in durable)
            /\ <<o, w>> \in pending => o \in undone'
  <2>1. CASE Untouched(t)
    BY <1>3, <2>1 DEF Untouched
  <2>2. CASE Committed(t)
    BY <1>3, <2>2 DEF Committed
  <2>3. CASE Undone(t)
    BY <2>3 DEF Undone
  <2> QED
    BY <1>2, <2>1, <2>2, <2>3
<1>5. Shape(o)' /\ Progress(o)' /\ Surroundings(o)'
  <2>1. pc[o] = "start" => (o \in owns' => o \in owns)
    BY DEF Step, Begin, BeginImmediate, Statement, OutboxFails, CommitWriter, RollbackWriter, Release,
           CommitRelease, SingleWrite, SingleCommit, Enter, Leave, Undo
  <2> QED
    BY <1>1, <2>1 DEF SerialInv, Shape, Progress, Surroundings, Inside, UnderWay
<1>6. Fresh(o)'
  BY <1>1, <1>4 DEF SerialInv, Fresh, UnderWay, Own
<1>7. Halves(o)'
  <2>1. ~Inside(o)
    BY <1>1 DEF Inside, UnderWay
  <2>2. o \notin Singles => /\ Half(o, durable) => faults > 1 \/ o \in undone
                            /\ Half(o, pending) => faults > 1 \/ o \in undone
    BY <2>1 DEF SerialInv, Halves
  <2>3. /\ Half(o, durable)' => Half(o, durable) \/ Half(o, pending)
        /\ Half(o, pending)' => Half(o, pending)
    BY <1>4 DEF Half
  <2> QED
    BY <2>2, <2>3, FaultsGrow DEF Halves
<1>8. \A w \in {"first", "second"} :
        told'[o] = "ok" /\ (o \in Singles => w = "first")
            => <<o, w>> \in durable' \cup pending' \/ o \in undone'
  BY <1>1, <1>4, FaultsGrow DEF SerialInv, AckedIsKept
<1> QED
  BY <1>5, <1>6, <1>7, <1>8

\* What the invariant says of one task.
Fine(t) ==
    /\ Shape(t) /\ Fresh(t) /\ Progress(t) /\ Surroundings(t) /\ Halves(t)
    /\ \A w \in {"first", "second"} :
         told[t] = "ok" /\ (t \in Singles => w = "first")
            => <<t, w>> \in durable \cup pending \/ t \in undone

\* The invariant, task by task.
LEMMA FineTasks == SerialInv <=> /\ OneAtATime /\ PatchHeld /\ CommitRestored
                                 /\ \A t \in Tasks : Fine(t)
BY DEF SerialInv, Fine, AckedIsKept

\* A task that stops inside nothing, and was told a failure, is fine when its halves are.
LEMMA EndedFine ==
    ASSUME NEW t \in Tasks, pc'[t] = "ended", told'[t] = "failed", Halves(t)'
    PROVE  Fine(t)'
BY DEF Fine, Shape, Fresh, Progress, Surroundings, Inside

\* Steps of the writer transactions keep what is said of their task.
LEMMA WriterFine ==
    ASSUME Serial, TypeOK, SerialInv, NEW t \in Tasks,
           \/ Begin(t) \/ BeginImmediate(t) \/ CommitWriter(t) \/ RollbackWriter(t)
           \/ Release(t) \/ CommitRelease(t)
    PROVE  Fine(t)'
<1>0. Fine(t) /\ faults \in Nat
  BY FineTasks, ConnectionAssumption DEF TypeOK
<1>1. CASE Begin(t)
  <2>1. pc[t] = "start" /\ pc'[t] = "begin" /\ told'[t] = told[t] /\ t \in Patched
        /\ UNCHANGED <<pending, durable, faults>>
    BY <1>1 DEF Begin, MayStart, Goto, TypeOK, trans
  <2> QED
    BY <1>0, <2>1, ConnectionAssumption
    DEF Fine, Shape, Fresh, Progress, Surroundings, Halves, Half, Inside, Own
<1>2. CASE BeginImmediate(t)
  <2>1. t \in Patched /\ t \notin Singles /\ UNCHANGED <<pending, durable>>
    BY <1>0, <1>2, ConnectionAssumption DEF BeginImmediate, Fine, Shape
  <2>2. ~Half(t, pending) /\ ~Half(t, durable)
    BY <1>0, <1>2 DEF BeginImmediate, Fine, Fresh, Half, Own
  <2>3. CASE pc'[t] = "first" /\ told'[t] = told[t] /\ ~open
    <3>1. pending = {}
      BY <2>3 DEF TypeOK
    <3> QED
      BY <1>0, <1>2, <2>1, <2>3, <3>1, ConnectionAssumption
      DEF BeginImmediate, Fine, Shape, Fresh, Progress, Surroundings, Halves, Inside, Own
  <2>4. CASE t \in Finalizers /\ pc'[t] = "release" /\ told'[t] = told[t]
    BY <1>0, <1>2, <2>1, <2>2, <2>4
    DEF BeginImmediate, Fine, Shape, Fresh, Progress, Surroundings, Halves, Half, Inside
  <2>5. CASE pc'[t] = "ended" /\ told'[t] = "failed"
    BY <2>1, <2>2, <2>5, EndedFine DEF Halves, Half
  <2> QED
    BY <1>2, <2>3, <2>4, <2>5 DEF BeginImmediate, GiveUp, Goto, End, TypeOK
<1>3. CASE CommitWriter(t)
  <2>1. /\ t \notin Singles /\ told[t] = "nothing"
        /\ t \in undone \/ (<<t, "first">> \in pending /\ <<t, "second">> \in pending)
        /\ <<t, "first">> \notin durable /\ <<t, "second">> \notin durable
        /\ UNCHANGED undone
    <3>1. t \notin Singles /\ told[t] = "nothing" /\ pc[t] = "commit" /\ UNCHANGED undone
      BY <1>0, <1>3, ConnectionAssumption DEF CommitWriter, Fine, Shape, TypeOK
    <3>2. t \in undone \/ (<<t, "first">> \in pending /\ <<t, "second">> \in pending)
      BY <1>0, <3>1 DEF Fine, Progress
    <3>3. <<t, "first">> \notin durable /\ <<t, "second">> \notin durable
      BY <1>0, <3>1 DEF Fine, Progress, Inside, Own
    <3> QED
      BY <3>1, <3>2, <3>3
  <2>2. CASE pc'[t] = "ended" /\ told'[t] = "ok" /\ CommitAll
    BY <2>1, <2>2
    DEF CommitAll, Fine, Shape, Fresh, Progress, Surroundings, Halves, Half, Inside
  <2>3. CASE UNCHANGED trans /\ told'[t] = told[t] /\ t \in Finalizers /\ pc'[t] = "release"
    BY <2>1, <2>3
    DEF trans, Fine, Shape, Fresh, Progress, Surroundings, Halves, Half, Inside
  <2>4. CASE UNCHANGED trans /\ told'[t] = told[t] /\ pc'[t] = "rollback" /\ UNCHANGED owns
    BY <1>0, <1>3, <2>1, <2>4, ConnectionAssumption
    DEF CommitWriter, trans, Fine, Shape, Fresh, Progress, Surroundings, Halves, Half, Inside
  <2> QED
    BY <1>3, <2>2, <2>3, <2>4 DEF CommitWriter, Goto, End, TypeOK
<1>4. CASE RollbackWriter(t)
  <2>1. /\ t \notin Singles /\ ~Half(t, durable) /\ UNCHANGED undone
        /\ Half(t, pending) => faults > 0 \/ t \in undone
    BY <1>0, <1>4, ConnectionAssumption DEF RollbackWriter, Fine, Progress, Inside, Own, Half
  <2>2. Halves(t)'
    <3>1. CASE Works /\ RollbackAll
      BY <2>1, <3>1 DEF RollbackAll, Halves, Half
    <3>2. CASE Fails /\ UNCHANGED trans
      <4>1. faults' = faults + 1 /\ UNCHANGED <<pending, durable>>
        BY <3>2 DEF Fails, trans
      <4>2. ~Half(t, durable)' /\ (Half(t, pending)' => faults' > 1 \/ t \in undone')
        BY <1>0, <2>1, <4>1 DEF Half
      <4> QED
        BY <4>2 DEF Halves
    <3> QED
      BY <1>4, <3>1, <3>2 DEF RollbackWriter
  <2>3. CASE t \in Finalizers /\ pc'[t] = "release" /\ told'[t] = told[t]
    BY <1>0, <1>4, <2>1, <2>2, <2>3
    DEF RollbackWriter, Fine, Shape, Fresh, Progress, Surroundings, Inside
  <2>4. CASE pc'[t] = "ended" /\ told'[t] = "failed"
    BY <2>2, <2>4, EndedFine
  <2> QED
    BY <1>4, <2>3, <2>4 DEF RollbackWriter, GiveUp, Goto, End, TypeOK
<1>5. CASE Release(t) \/ CommitRelease(t)
  <2>1. /\ t \notin Singles /\ t \in Finalizers /\ told[t] = "nothing"
        /\ Half(t, durable) => faults > 1 \/ t \in undone
        /\ Half(t, pending) => faults > 1 \/ t \in undone
    BY <1>0, <1>5, ConnectionAssumption
    DEF Release, CommitRelease, Fine, Shape, Halves, Inside, TypeOK
  <2>2. \/ \A w \in {"first", "second"} : (<<t, w>> \in pending' <=> <<t, w>> \in pending)
                                         /\ (<<t, w>> \in durable' <=> <<t, w>> \in durable)
        \/ \A w \in {"first", "second"} :
              <<t, w>> \notin pending' /\ (<<t, w>> \in durable' <=> <<t, w>> \in durable \cup pending)
    BY <1>5 DEF Release, CommitRelease, Write, CallCommit, CommitAll, trans
  <2>3. /\ Half(t, durable)' => Half(t, durable) \/ Half(t, pending)
        /\ Half(t, pending)' => Half(t, pending)
    BY <2>2 DEF Half
  <2>4. Halves(t)'
    BY <1>5, <2>1, <2>3, FaultsGrow DEF Halves, Step
  <2>5. CASE pc'[t] = "ended" /\ told'[t] = "failed"
    BY <2>4, <2>5, EndedFine
  <2>6. CASE pc'[t] = "commitRelease" /\ told'[t] = told[t]
    BY <2>1, <2>4, <2>6 DEF Fine, Shape, Fresh, Progress, Surroundings, Inside
  <2> QED
    BY <1>5, <2>5, <2>6 DEF Release, CommitRelease, Goto, End, TypeOK
<1> QED
  BY <1>1, <1>2, <1>3, <1>4, <1>5

\* A statement inside a transaction keeps what is said of its task.
LEMMA StatementFine ==
    ASSUME Serial, TypeOK, SerialInv, NEW t \in Tasks, Statement(t)
    PROVE  Fine(t)'
<1>0. Fine(t) /\ faults \in Nat /\ (t \in Patched => commit = "noop")
  BY FineTasks, ConnectionAssumption DEF TypeOK, Statement, PatchHeld
<1>1. /\ pc[t] \in {"first", "second"} /\ t \notin Singles /\ told[t] = "nothing"
      /\ Own(t) \cap durable = {} /\ UNCHANGED <<owns, undone>>
  BY <1>0 DEF Statement, Fine, Shape, Progress, Inside, TypeOK
<1>2. CASE Write(<<t, pc[t]>>) /\ Goto(t, IF pc[t] = "first" THEN "second" ELSE "commit")
  <2>1. /\ pending' = pending \cup {<<t, pc[t]>>} /\ open' = TRUE
        /\ UNCHANGED <<durable, marks, told>>
        /\ <<t, pc[t]>> \in Own(t)
        /\ pc'[t] = IF pc[t] = "first" THEN "second" ELSE "commit"
    BY <1>1, <1>2 DEF Write, Goto, TypeOK, Own
  <2>2. Progress(t)'
    BY <1>0, <1>1, <2>1 DEF Fine, Progress, Inside, Own
  <2>3. Surroundings(t)'
    BY <1>0, <1>1, <2>1 DEF Fine, Surroundings, Inside
  <2> QED
    BY <1>0, <1>1, <2>1, <2>2, <2>3 DEF Fine, Shape, Fresh, Halves, Inside
<1>3. CASE Fails /\ Goto(t, "rollback") /\ UNCHANGED trans
  <2>1. /\ pc'[t] = "rollback" /\ faults' = faults + 1
        /\ UNCHANGED <<pending, durable, open, marks, told>>
    BY <1>3 DEF Fails, Goto, trans, TypeOK
  <2>2. Progress(t)' /\ Surroundings(t)'
    BY <1>0, <1>1, <2>1 DEF Fine, Progress, Surroundings, Inside, Own
  <2> QED
    BY <1>0, <1>1, <2>1, <2>2 DEF Fine, Shape, Fresh, Halves, Inside
<1> QED
  BY <1>0, <1>2, <1>3 DEF Statement

\* The rollback of add_dirty_outbox keeps what is said of the task it happens to.
LEMMA OutboxFine ==
    ASSUME Serial, TypeOK, SerialInv, NEW t \in Tasks, OutboxFails(t)
    PROVE  Fine(t)'
<1>0. Fine(t) /\ t \in undone' /\ UNCHANGED <<owns, durable>>
  BY FineTasks DEF OutboxFails, RollbackAll, trans
<1>1. /\ told[t] = "nothing" /\ told' = told
      /\ \/ t \in Patched /\ pc[t] \in {"first", "second"} /\ pc'[t] \in {"second", "commit"}
         \/ t \in Singles /\ pc[t] = "start" /\ pc'[t] = "commit"
  BY <1>0 DEF OutboxFails, MayStart, Goto, Fine, Shape, TypeOK, Patched
<1>2. Own(t) \cap durable = {} /\ (pending' = {} \/ pending' = pending)
  BY <1>0, <1>1 DEF OutboxFails, RollbackAll, trans, Fine, Fresh, Progress, Inside
<1>3. Surroundings(t)'
  <2>1. CASE t \in Patched
    BY <1>0, <1>1, <1>2, <2>1, ConnectionAssumption DEF Fine, Surroundings, Inside
  <2>2. CASE t \in Singles
    BY <1>0, <2>2, ConnectionAssumption DEF Surroundings, TypeOK
  <2> QED
    BY <1>1, <2>1, <2>2
<1>4. Shape(t)' /\ Fresh(t)' /\ Progress(t)' /\ Halves(t)'
  BY <1>0, <1>1, <1>2, ConnectionAssumption DEF Fine, Shape, Fresh, Progress, Halves, Inside, TypeOK
<1> QED
  BY <1>0, <1>3, <1>4 DEF Fine

\* Methods that write once keep what is said of them.
LEMMA SingleFine ==
    ASSUME Serial, TypeOK, SerialInv, NEW t \in Tasks, SingleWrite(t) \/ SingleCommit(t)
    PROVE  Fine(t)'
<1>0. Fine(t) /\ t \in Singles /\ t \notin Patched /\ t \notin Units /\ owns \subseteq Units
  BY FineTasks, ConnectionAssumption DEF TypeOK, SingleWrite, SingleCommit
<1>1. Halves(t)'
  BY <1>0 DEF Halves
<1>2. CASE pc'[t] = "ended" /\ told'[t] = "failed"
  BY <1>1, <1>2, EndedFine
<1>3. CASE SingleWrite(t) /\ pc'[t] \in {"ended", "commit"} /\ Write(<<t, "first">>)
           /\ (pc'[t] = "commit" => told'[t] = told[t])
  <2>1. Own(t) \cap durable = {} /\ told[t] = "nothing" /\ <<t, "first">> \in pending'
        /\ UNCHANGED durable /\ UNCHANGED owns
    BY <1>0, <1>3 DEF SingleWrite, MayStart, Write, Fine, Fresh, Shape, TypeOK
  <2> QED
    BY <1>0, <1>1, <1>3, <2>1 DEF Fine, Shape, Fresh, Progress, Surroundings, Inside
<1>4. CASE SingleCommit(t) /\ CallCommit /\ pc'[t] = "ended"
  <2>1. <<t, "first">> \in pending \/ t \in undone'
    BY <1>0, <1>4 DEF SingleCommit, Fine, Progress
  <2>2. <<t, "first">> \in durable' \cup pending' \/ t \in undone'
    BY <1>4, <2>1 DEF CallCommit, CommitAll, trans
  <2> QED
    BY <1>0, <1>1, <1>4, <2>2 DEF Fine, Shape, Fresh, Progress, Surroundings, Inside
<1> QED
  BY <1>2, <1>3, <1>4 DEF SingleWrite, SingleCommit, Goto, End, TypeOK

\* The sequence of savepoints, when one is set and when one is released.
LEMMA TopMark ==
    ASSUME TypeOK
    PROVE  /\ Append(marks, pending) # <<>>
           /\ Append(marks, pending)[Len(Append(marks, pending))] = pending
BY AppendProperties DEF TypeOK

\* Steps of transaction() keep what is said of their task.
LEMMA UnitFine ==
    ASSUME Serial, TypeOK, SerialInv, NEW t \in Tasks, Enter(t) \/ Leave(t) \/ Undo(t)
    PROVE  Fine(t)'
<1>0. Fine(t) /\ t \in Units /\ t \notin Patched /\ t \notin Singles /\ faults \in Nat
  BY FineTasks, ConnectionAssumption DEF TypeOK, Enter, Leave, Undo
<1>1. CASE Enter(t)
  <2>1. Own(t) \cap (durable \cup pending) = {} /\ told[t] = "nothing"
        /\ UNCHANGED <<pending, durable>>
    BY <1>0, <1>1 DEF Enter, MayStart, Fine, Fresh, Shape, TypeOK
  <2>2. ~Half(t, durable)' /\ ~Half(t, pending)'
    BY <2>1 DEF Half, Own
  <2>3. CASE pc'[t] = "ended" /\ told'[t] = "failed"
    BY <2>2, <2>3, EndedFine DEF Halves
  <2>4. CASE open' = TRUE /\ pc'[t] = "first" /\ told'[t] = told[t] /\ open
             /\ marks' = Append(marks, pending) /\ UNCHANGED owns
    <3>1. pending' \ Own(t) = marks'[Len(marks')] /\ marks' # <<>>
      BY <2>1, <2>4, TopMark
    <3>2. t \in owns' => pending' \subseteq Own(t)
      BY <1>0, <1>1, <2>4 DEF Enter, MayStart, Fine, Shape
    <3> QED
      BY <1>0, <2>1, <2>2, <2>4, <3>1, <3>2
      DEF Fine, Shape, Fresh, Progress, Surroundings, Halves, Inside, Own
  <2>5. CASE pc'[t] = "first" /\ told'[t] = told[t] /\ ~open /\ owns' = owns \cup {t}
    <3>1. pending' = {}
      BY <2>1, <2>5 DEF TypeOK
    <3> QED
      BY <1>0, <2>1, <2>2, <2>5, <3>1
      DEF Fine, Shape, Fresh, Progress, Surroundings, Halves, Inside, Own
  <2> QED
    BY <1>1, <2>3, <2>4, <2>5 DEF Enter, Goto, End, TypeOK
<1>2. CASE Leave(t)
  <2>1. /\ told[t] = "nothing" /\ UNCHANGED undone
        /\ t \in undone \/ (<<t, "first">> \in pending /\ <<t, "second">> \in pending)
        /\ <<t, "first">> \notin durable /\ <<t, "second">> \notin durable
    <3>1. told[t] = "nothing" /\ pc[t] = "commit" /\ UNCHANGED undone
      BY <1>0, <1>2 DEF Leave, Fine, Shape, TypeOK
    <3>2. t \in undone \/ (<<t, "first">> \in pending /\ <<t, "second">> \in pending)
      BY <1>0, <3>1 DEF Fine, Progress
    <3>3. <<t, "first">> \notin durable /\ <<t, "second">> \notin durable
      BY <1>0, <3>1 DEF Fine, Progress, Inside, Own
    <3> QED
      BY <3>1, <3>2, <3>3
  <2>2. \/ t \in undone'
        \/ <<t, "first">> \in pending' /\ <<t, "second">> \in pending' /\ UNCHANGED durable
        \/ <<t, "first">> \in durable' /\ <<t, "second">> \in durable' /\ pending' = {}
    BY <1>2, <2>1 DEF Leave, CallCommit, CommitAll, trans
  <2>3. Halves(t)'
    BY <2>1, <2>2 DEF Halves, Half
  <2> QED
    BY <1>2, <2>2, <2>3, <1>0
    DEF Leave, End, TypeOK, Fine, Shape, Fresh, Progress, Surroundings, Inside
<1>3. CASE Undo(t)
  <2>1. /\ ~Half(t, durable) /\ UNCHANGED undone
        /\ Half(t, pending) => faults > 0 \/ t \in undone
    BY <1>0, <1>3 DEF Undo, Fine, Progress, Inside, Own, Half
  <2>2. t \notin owns => marks # <<>> /\ pending \ Own(t) = marks[Len(marks)]
    BY <1>0, <1>3 DEF Undo, Fine, Surroundings, Inside
  <2>3. CASE Works /\ RollbackAll
    BY <1>3, <2>1, <2>3, EndedFine DEF RollbackAll, Halves, Half, Undo, End, TypeOK
  <2>4. CASE t \notin owns /\ pending' = marks[Len(marks)] /\ UNCHANGED durable
    <3>1. ~Half(t, pending)' /\ ~Half(t, durable)'
      BY <2>1, <2>2, <2>4 DEF Half, Own
    <3> QED
      BY <1>3, <3>1, EndedFine DEF Halves, Undo, End, TypeOK
  <2>5. CASE Fails /\ UNCHANGED trans
    <3>1. faults' = faults + 1 /\ UNCHANGED <<pending, durable>>
      BY <2>5 DEF Fails, trans
    <3>2. ~Half(t, durable)' /\ (Half(t, pending)' => faults' > 1 \/ t \in undone')
      BY <1>0, <2>1, <3>1 DEF Half
    <3> QED
      BY <1>3, <3>2, EndedFine DEF Halves, Undo, End, TypeOK
  <2> QED
    BY <1>3, <2>2, <2>3, <2>4, <2>5 DEF Undo
<1> QED
  BY <1>1, <1>2, <1>3

\* Tasks that run one after another keep the invariant.
LEMMA StepKeeps ==
    ASSUME Serial, TypeOK, SerialInv, NEW t \in Tasks, Step(t)
    PROVE  SerialInv'
<1>1. OneAtATime' /\ PatchHeld' /\ CommitRestored'
  BY PatchKept
<1>2. Fine(t)'
  BY WriterFine, StatementFine, OutboxFine, SingleFine, UnitFine DEF Step
<1>3. \A o \in Tasks \ {t} : Fine(o)'
  BY OthersKept DEF Fine
<1> QED
  BY <1>1, <1>2, <1>3 DEF SerialInv, Fine, AckedIsKept

\* The invariant of tasks that run one after another.
THEOREM SerialInvariance ==
    ASSUME Serial
    PROVE  Spec => [](TypeOK /\ SerialInv)
<1>1. Init => SerialInv
  <2> SUFFICES ASSUME Init PROVE SerialInv
    OBVIOUS
  <2>1. /\ \A t \in Tasks : pc[t] = "start" /\ told[t] = "nothing" /\ t \notin owns
        /\ durable = {} /\ pending = {} /\ commit = "real" /\ saved = "real" /\ flag = FALSE
    BY DEF Init
  <2>2. OneAtATime /\ PatchHeld /\ CommitRestored /\ AckedIsKept
    BY <2>1 DEF OneAtATime, UnderWay, PatchHeld, CommitRestored, AckedIsKept, Patched, Tasks
  <2>3. \A t \in Tasks : Shape(t) /\ Fresh(t) /\ Progress(t) /\ Surroundings(t) /\ Halves(t)
    BY <2>1 DEF Shape, Fresh, Progress, Surroundings, Halves, Half, Inside
  <2> QED
    BY <2>2, <2>3 DEF SerialInv
<1>2. TypeOK /\ SerialInv /\ [Next]_vars => SerialInv'
  <2> SUFFICES ASSUME TypeOK, SerialInv, [Next]_vars PROVE SerialInv'
    OBVIOUS
  <2>1. CASE Next
    BY <2>1, StepKeeps DEF Next
  <2>2. CASE UNCHANGED vars
    BY <2>2
    DEF vars, patch, trans, SerialInv, OneAtATime, UnderWay, PatchHeld, CommitRestored, InWriterTx,
        AckedIsKept, Shape, Fresh, Progress, Surroundings, Halves, Half, Inside
  <2> QED
    BY <2>1, <2>2
<1> QED
  BY <1>1, <1>2, TypeCorrect, PTL DEF Spec

\* With one task at a time the no-op never stays behind, whatever fails.
THEOREM PatchIsUndone ==
    ASSUME Serial
    PROVE  Spec => []CommitRestored
<1>1. SerialInv => CommitRestored
  BY DEF SerialInv
<1> QED
  BY <1>1, SerialInvariance, PTL

\* With one task at a time what was acknowledged is never rolled back, but by
\* add_dirty_outbox.
THEOREM AcksAreKept ==
    ASSUME Serial
    PROVE  Spec => []AckedIsKept
<1>1. SerialInv => AckedIsKept
  BY DEF SerialInv
<1> QED
  BY <1>1, SerialInvariance, PTL

\* With one task at a time a half-written transaction takes a failure of
\* add_dirty_outbox, or two.
THEOREM HalvesAreExplained ==
    ASSUME Serial
    PROVE  Spec => []HalvesHaveCauses
<1>1. SerialInv => HalvesHaveCauses
  <2> SUFFICES ASSUME SerialInv, NEW t \in Tasks \ Singles, Half(t, durable)
               PROVE  t \in undone \/ faults > 1
    BY DEF HalvesHaveCauses, Half
  <2>1. CASE Inside(t)
    BY <2>1 DEF SerialInv, Progress, Own, Half
  <2>2. CASE ~Inside(t)
    BY <2>2 DEF SerialInv, Halves
  <2> QED
    BY <2>1, <2>2
<1> QED
  BY <1>1, SerialInvariance, PTL

=============================================================================
