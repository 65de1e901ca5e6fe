-------------------------- MODULE JobDeliveryProofs --------------------------
(***************************************************************************)
(* Proofs about JobDelivery, for every set of jobs and sending slots,      *)
(* every attempt limit and every bound on faults and crashes.              *)
(*                                                                         *)
(* That a done job was sent.  "done" is only the last link of a chain: a   *)
(* slot made a copy, told its receipts and the tracker, later attempts and *)
(* other slots believed one of them, a write was queued, db_writer         *)
(* executed it.  Each link is Evidence that a copy was made, and no step   *)
(* forges one.                                                             *)
(*                                                                         *)
(* That extra copies have causes.  Under a job id the right to try once    *)
(* more is handed from the row to a slot, from the slot to a queued retry, *)
(* from the retry to the row; Budget: copies made and tries to come are at *)
(* most one more than the causes.  That there is one copy as long as       *)
(* nothing fails, and that the receipts agree as long as no call fails,    *)
(* needs more: a slot is then Alone with its key, so nobody moves the two  *)
(* receipts behind its back (Receipted, OneCopy).                          *)
(***************************************************************************)
EXTENDS JobDelivery, FiniteSetTheorems, TLAPS

\* A slot at one of these steps holds, or has just looked up, a delivery.
Believing == {"skip", "verify", "confirm", "record", "finish"}

SentUnder(k) == sends[k] > 0

QueueEvidence ==
    \A i \in DOMAIN queue :
        queue[i].op = "done" => SentUnder(<<queue[i].job, queue[i].id>>)
ReceiptEvidence ==
    \A k \in Keys :
        delivery[k].status = "CONFIRMED" \/ effect[k].status = "completed" => SentUnder(k)
TrackerEvidence == \A k \in tracker : SentUnder(k)
SlotEvidence == \A s \in Slots : slot[s].pc \in Believing => SentUnder(Key(s))

Evidence ==
    QueueEvidence /\ ReceiptEvidence /\ TrackerEvidence /\ SlotEvidence

IInv == TypeOK /\ DoneWasSent /\ Evidence

-----------------------------------------------------------------------------
(* Operators.                                                              *)

\* The budget of faults is never exceeded.
LEMMA ChargeType ==
  ASSUME TypeOK, NEW ok, Charge(ok)
  PROVE  faults' \in 0..MaxFaults
BY DeliveryAssumption DEF Charge, TypeOK

\* A slot that works on something moves on, keeping its job, its snapshot of the
\* job and what it sent; the other slots are not touched.
LEMMA GotoMoves ==
  ASSUME TypeOK, NEW s \in Slots, slot[s].pc # "idle", NEW pc \in Steps, Goto(s, pc)
  PROVE  /\ slot' \in [Slots -> {Idle} \cup Task]
         /\ slot'[s].pc = pc /\ Key(s)' = Key(s)
         /\ \A t \in Slots : t # s => slot'[t] = slot[t]
<1>1. slot[s] \in Task
  BY DEF TypeOK, Idle
<1>2. [slot[s] EXCEPT !.pc = pc] \in Task
  BY <1>1 DEF Task
<1> QED
  BY <1>1, <1>2 DEF Goto, TypeOK, Task, Key

\* A slot that lets go of its job is idle; the others are not touched.
LEMMA ReleaseIdles ==
  ASSUME TypeOK, NEW s \in Slots, Release(s)
  PROVE  /\ slot' \in [Slots -> {Idle} \cup Task]
         /\ slot'[s].pc = "idle"
         /\ \A t \in Slots : t # s => slot'[t] = slot[t]
BY DEF Release, TypeOK, Idle

\* An appended write is the only new one.
LEMMA PushAppends ==
  ASSUME TypeOK, NEW w \in QueuedWrite, Push(w)
  PROVE  /\ queue' \in Seq(QueuedWrite)
         /\ \A i \in DOMAIN queue' :
                queue'[i] = w \/ \E k \in DOMAIN queue : queue'[i] = queue[k]
BY DEF Push, TypeOK

\* What is behind the head of the queue, or put back there, was in it before.
LEMMA TailOld ==
  ASSUME NEW q \in Seq(QueuedWrite), q # <<>>
  PROVE  /\ \A i \in DOMAIN Tail(q) : \E k \in DOMAIN q : Tail(q)[i] = q[k]
         /\ \A i \in DOMAIN Append(Tail(q), Head(q)) :
                \E k \in DOMAIN q : Append(Tail(q), Head(q))[i] = q[k]
<1>1. Tail(q) \in Seq(QueuedWrite) /\ Len(Tail(q)) = Len(q) - 1 /\ Len(q) \in Nat \ {0}
  OBVIOUS
<1>2. \A i \in DOMAIN Tail(q) : i + 1 \in DOMAIN q /\ Tail(q)[i] = q[i + 1]
  BY <1>1
<1>3. 1 \in DOMAIN q /\ Head(q) = q[1]
  BY <1>1
<1>4. \A i \in DOMAIN Append(Tail(q), Head(q)) :
        \/ i \in DOMAIN Tail(q) /\ Append(Tail(q), Head(q))[i] = Tail(q)[i]
        \/ Append(Tail(q), Head(q))[i] = Head(q)
  BY <1>1
<1> QED
  BY <1>2, <1>3, <1>4

\* A status change is a write about the slot's own job id.
LEMMA StatusIsWrite ==
  ASSUME TypeOK, NEW s \in Slots, slot[s].pc # "idle",
         NEW op \in {"done", "dead", "retry", "revive"}, NEW n \in Retries,
         PushStatus(s, op, n)
  PROVE  /\ queue' \in Seq(QueuedWrite)
         /\ \A i \in DOMAIN queue' :
                \/ queue'[i].op = op /\ <<queue'[i].job, queue'[i].id>> = Key(s)
                \/ \E k \in DOMAIN queue : queue'[i] = queue[k]
<1> DEFINE w == Write(op, slot[s].job, slot[s].id, n)
<1>1. slot[s] \in Task
  BY DEF TypeOK, Idle
<1>2. w \in QueuedWrite /\ w.op = op /\ <<w.job, w.id>> = Key(s)
  BY <1>1 DEF Task, Write, QueuedWrite, JobWrite, Key
<1>3. Push(w)
  BY DEF PushStatus
<1> HIDE DEF w
<1> QED
  BY <1>2, <1>3, PushAppends

\* Key(s) of a working slot is a key.
LEMMA KeyType ==
  ASSUME TypeOK, NEW s \in Slots, slot[s].pc # "idle"
  PROVE  Key(s) \in Keys /\ slot[s] \in Task
<1>1. slot[s] \in Task
  BY DEF TypeOK, Idle
<1> QED
  BY <1>1 DEF Task, Key, Keys

\* There is an attempt 0.
LEMMA ZeroRetries == 0 \in Retries
BY DeliveryAssumption DEF Retries

\* An executed write leaves a row of the right type.
LEMMA UpdatedType ==
  ASSUME NEW r \in Row, NEW w \in JobWrite
  PROVE  Updated(r, w) \in Row
<1>1. CASE w.op \in {"done", "dead"}
  <2>1. Updated(r, w) = [r EXCEPT !.status = w.op]
    BY <1>1 DEF Updated
  <2> QED
    BY <1>1, <2>1 DEF Row, JobStatus
<1>2. CASE w.op = "retry"
  <2>1. Updated(r, w) = [r EXCEPT !.status = "pending", !.retry = w.n]
    BY <1>2 DEF Updated
  <2> QED
    BY <2>1 DEF Row, JobStatus, JobWrite
<1>3. CASE w.op = "revive"
  <2>1. Updated(r, w) = [r EXCEPT !.status = "pending", !.retry = 0, !.revived = @ + 1]
    BY <1>3 DEF Updated
  <2>2. r.id \in Id /\ r.revived + 1 \in Nat
    BY DEF Row
  <2>3. Updated(r, w) = [id |-> r.id, status |-> "pending", retry |-> 0,
                         revived |-> r.revived + 1]
    BY <2>1 DEF Row
  <2> QED
    BY <2>2, <2>3, ZeroRetries DEF Row, JobStatus
<1> QED
  BY <1>1, <1>2, <1>3 DEF JobWrite

-----------------------------------------------------------------------------
(* Type correctness.                                                       *)

\* Every step keeps the types; retry counters stay below MaxRetry because the
\* last attempt of a job is buried, not retried.
LEMMA TypeStep == TypeOK /\ [Next]_vars => TypeOK'
<1> SUFFICES ASSUME TypeOK, [Next]_vars PROVE TypeOK'
  OBVIOUS
<1> USE DEF receipts
<1>1. ASSUME NEW j \in Jobs, Enqueue(j) PROVE TypeOK'
  BY <1>1 DEF Enqueue, TypeOK, Row, JobStatus
<1>2. ASSUME NEW j \in Jobs, AssignCrdbId(j) PROVE TypeOK'
  BY <1>2 DEF AssignCrdbId, TypeOK, Row, Id
<1>3. ASSUME NEW j \in Jobs, Reclaim(j) PROVE TypeOK'
  <2>1. faults' \in 0..MaxFaults
    BY <1>3, ChargeType DEF Reclaim
  <2> QED
    BY <1>3, <2>1 DEF Reclaim, TypeOK, Row, JobStatus
<1>4. ASSUME NEW j \in Jobs, ReviveDead(j) PROVE TypeOK'
  <2> DEFINE w == Write("revive", j, row[j].id, 0)
  <2>1. w \in QueuedWrite
    BY ZeroRetries DEF TypeOK, Row, Write, QueuedWrite, JobWrite
  <2>2. Push(w)
    BY <1>4 DEF ReviveDead
  <2>3. queue' \in Seq(QueuedWrite)
    BY <2>1, <2>2, PushAppends
  <2>4. faults' \in 0..MaxFaults
    BY <1>4, ChargeType DEF ReviveDead
  <2> QED
    BY <1>4, <2>3, <2>4 DEF ReviveDead, TypeOK
<1>5. CASE ApplyWrite
  <2> DEFINE w == Head(queue)
  <2>1. w \in QueuedWrite /\ queue' \in Seq(QueuedWrite)
    BY <1>5 DEF ApplyWrite, TypeOK
  <2>2. CASE w.op = "started"
    BY <1>5, <2>1, <2>2 DEF ApplyWrite, TypeOK
  <2>3. CASE w.op # "started"
    <3>1. w \in JobWrite
      BY <2>1, <2>3 DEF QueuedWrite, StartedWrite
    <3>2. Updated(row[w.job], w) \in Row /\ w.job \in Jobs
      BY <3>1, UpdatedType DEF TypeOK, JobWrite
    <3>3. row' = [row EXCEPT ![w.job] = Updated(@, w)] \/ row' = row
      BY <1>5, <2>3 DEF ApplyWrite
    <3>4. row' \in [Jobs -> Row]
      <4> HIDE DEF w
      <4> QED
        BY <3>2, <3>3 DEF TypeOK
    <3> QED
      BY <1>5, <2>1, <2>3, <3>4 DEF ApplyWrite, TypeOK
  <2> QED
    BY <2>2, <2>3
<1>6. CASE DelayWrite
  <2>1. faults' \in 0..MaxFaults
    BY <1>6, ChargeType DEF DelayWrite
  <2>2. Tail(queue) \in Seq(QueuedWrite) /\ Head(queue) \in QueuedWrite
    BY <1>6 DEF DelayWrite, TypeOK
  <2>3. queue' \in Seq(QueuedWrite)
    BY <1>6, <2>2 DEF DelayWrite
  <2> QED
    BY <1>6, <2>1, <2>3 DEF DelayWrite, TypeOK
<1>7. CASE SendStart
  <2>1. queue' \in Seq(QueuedWrite)
    BY <1>7, PushAppends DEF SendStart, QueuedWrite
  <2> QED
    BY <1>7, <2>1 DEF SendStart, TypeOK
<1>8. CASE ReactivateWaiting
  BY <1>8 DEF ReactivateWaiting, TypeOK, Row, JobStatus
<1>9. CASE Crash
  BY <1>9, DeliveryAssumption DEF Crash, TypeOK, Idle
<1>10. ASSUME NEW s \in Slots, ListPending(s) PROVE TypeOK'
  <2>1. PICK j \in Jobs :
          slot' = [slot EXCEPT ![s] = [pc |-> "listed", job |-> j, id |-> row[j].id,
                                       retry |-> row[j].retry, sent |-> 0]]
    BY <1>10 DEF ListPending
  <2>2. slot' \in [Slots -> {Idle} \cup Task]
    BY <2>1 DEF TypeOK, Row, Task, Steps
  <2> QED
    BY <1>10, <2>2 DEF ListPending, TypeOK
<1>11. ASSUME NEW s \in Slots, Claim(s) PROVE TypeOK'
  <2>1. slot' \in [Slots -> {Idle} \cup Task]
    BY <1>11, GotoMoves, ReleaseIdles DEF Claim, At, Steps
  <2>2. slot[s] \in Task
    BY <1>11, KeyType DEF Claim, At
  <2>3. row' = [row EXCEPT ![slot[s].job].status = "dispatched"] \/ row' = row
    BY <1>11 DEF Claim
  <2>4. [row[slot[s].job] EXCEPT !.status = "dispatched"] \in Row /\ slot[s].job \in Jobs
    BY <2>2 DEF TypeOK, Row, JobStatus, Task
  <2>5. row' \in [Jobs -> Row]
    BY <2>3, <2>4 DEF TypeOK
  <2> QED
    BY <1>11, <2>1, <2>5 DEF Claim, TypeOK
<1>12. ASSUME NEW s \in Slots, Begin(s) PROVE TypeOK'
  <2>1. slot' \in [Slots -> {Idle} \cup Task]
    BY <1>12, GotoMoves DEF Begin, At, Steps
  <2> QED
    BY <1>12, <2>1 DEF Begin, TypeOK
<1>13. ASSUME NEW s \in Slots, MarkWaiting(s) PROVE TypeOK'
  <2>1. slot' \in [Slots -> {Idle} \cup Task]
    BY <1>13, ReleaseIdles DEF MarkWaiting
  <2>2. slot[s].job \in Jobs
    BY <1>13, KeyType DEF MarkWaiting, At, Task
  <2>3. row' = [row EXCEPT ![slot[s].job].status = "waiting_start"] \/ row' = row
    BY <1>13 DEF MarkWaiting
  <2>4. [row[slot[s].job] EXCEPT !.status = "waiting_start"] \in Row
    BY <2>2 DEF TypeOK, Row, JobStatus
  <2>5. row' \in [Jobs -> Row]
    BY <2>2, <2>3, <2>4 DEF TypeOK
  <2> QED
    BY <1>13, <2>1, <2>5 DEF MarkWaiting, TypeOK
<1>14. ASSUME NEW s \in Slots, Skip(s) PROVE TypeOK'
  <2>1. slot' \in [Slots -> {Idle} \cup Task] /\ faults' \in 0..MaxFaults
    BY <1>14, ReleaseIdles, ChargeType DEF Skip
  <2>2. queue' \in Seq(QueuedWrite)
    BY <1>14, StatusIsWrite, ZeroRetries DEF Skip, At, TypeOK
  <2> QED
    BY <1>14, <2>1, <2>2 DEF Skip, TypeOK
<1>15. ASSUME NEW s \in Slots, ReadReceipts(s) PROVE TypeOK'
  <2>1. slot' \in [Slots -> {Idle} \cup Task] /\ faults' \in 0..MaxFaults
    BY <1>15, GotoMoves, ChargeType DEF ReadReceipts, At, Steps
  <2>2. tracker' \subseteq Keys
    BY <1>15, KeyType DEF ReadReceipts, At, TypeOK
  <2> QED
    BY <1>15, <2>1, <2>2 DEF ReadReceipts, TypeOK
<1>16. ASSUME NEW s \in Slots, UpsertPending(s) PROVE TypeOK'
  <2>1. slot' \in [Slots -> {Idle} \cup Task] /\ faults' \in 0..MaxFaults
    BY <1>16, GotoMoves, ChargeType DEF UpsertPending, At, Steps
  <2>2. \/ delivery' = [delivery EXCEPT ![Key(s)] = [status |-> "PENDING", sent |-> 0]]
        \/ delivery' = delivery
    BY <1>16 DEF UpsertPending
  <2>3. [status |-> "PENDING", sent |-> 0] \in Delivery
    BY DEF Delivery
  <2>4. delivery' \in [Keys -> Delivery]
    BY <2>2, <2>3 DEF TypeOK
  <2> QED
    BY <1>16, <2>1, <2>4 DEF UpsertPending, TypeOK
<1>17. ASSUME NEW s \in Slots, CheckReceipt(s) PROVE TypeOK'
  <2>1. slot' \in [Slots -> {Idle} \cup Task] /\ faults' \in 0..MaxFaults
    BY <1>17, GotoMoves, ChargeType DEF CheckReceipt, Raise, At, Steps
  <2> QED
    BY <1>17, <2>1 DEF CheckReceipt, TypeOK
<1>18. ASSUME NEW s \in Slots, VerifySkipped(s) PROVE TypeOK'
  <2>1. slot' \in [Slots -> {Idle} \cup Task] /\ faults' \in 0..MaxFaults
    BY <1>18, GotoMoves, ChargeType DEF VerifySkipped, At, Steps
  <2>2. tracker' \subseteq Keys
    BY <1>18, KeyType DEF VerifySkipped, At, TypeOK
  <2> QED
    BY <1>18, <2>1, <2>2 DEF VerifySkipped, TypeOK
<1>19. ASSUME NEW s \in Slots, RecordPending(s) PROVE TypeOK'
  <2>1. slot' \in [Slots -> {Idle} \cup Task] /\ faults' \in 0..MaxFaults
    BY <1>19, GotoMoves, ChargeType DEF RecordPending, Raise, At, Steps
  <2>2. effect' \in [Keys -> Effect]
    BY <1>19 DEF RecordPending, TypeOK, Effect
  <2> QED
    BY <1>19, <2>1, <2>2 DEF RecordPending, TypeOK
<1>20. ASSUME NEW s \in Slots, Send(s) PROVE TypeOK'
  <2>1. Key(s) \in Keys /\ slot[s] \in Task
    BY <1>20, KeyType DEF Send, At
  <2>2. CASE Goto(s, "failed") /\ UNCHANGED <<sends, tracker>>
    <3>1. slot' \in [Slots -> {Idle} \cup Task]
      BY <1>20, <2>2, GotoMoves DEF Send, At, Steps
    <3> QED
      BY <1>20, <2>2, <3>1 DEF Send, TypeOK
  <2>3. CASE /\ sends' = [sends EXCEPT ![Key(s)] = @ + 1]
             /\ slot' = [slot EXCEPT ![s].pc = "confirm", ![s].sent = sends[Key(s)] + 1]
             /\ tracker' = tracker \cup {Key(s)}
    <3>1. sends' \in [Keys -> Nat] /\ tracker' \subseteq Keys
      BY <2>1, <2>3 DEF TypeOK
    <3>2. sends[Key(s)] + 1 \in Nat
      BY <2>1 DEF TypeOK
    <3>3. slot' \in [Slots -> {Idle} \cup Task]
      BY <2>1, <2>3, <3>2 DEF TypeOK, Task, Steps
    <3> QED
      BY <1>20, <3>1, <3>3 DEF Send, TypeOK
  <2> QED
    BY <1>20, <2>2, <2>3 DEF Send
<1>21. ASSUME NEW s \in Slots, SendUnseen(s) PROVE TypeOK'
  <2>1. faults' \in 0..MaxFaults
    BY <1>21, ChargeType DEF SendUnseen
  <2>2. sends' \in [Keys -> Nat]
    BY <1>21, KeyType DEF SendUnseen, At, TypeOK
  <2> QED
    BY <1>21, <2>1, <2>2 DEF SendUnseen, TypeOK
<1>22. ASSUME NEW s \in Slots, SendRaises(s) PROVE TypeOK'
  <2>1. slot' \in [Slots -> {Idle} \cup Task] /\ faults' \in 0..MaxFaults
    BY <1>22, GotoMoves, ChargeType DEF SendRaises, Raise, At, Steps
  <2>2. effect' \in [Keys -> Effect]
    BY <1>22 DEF SendRaises, TypeOK, Effect
  <2> QED
    BY <1>22, <2>1, <2>2 DEF SendRaises, TypeOK
<1>23. ASSUME NEW s \in Slots, MarkFailed(s) PROVE TypeOK'
  <2>1. slot' \in [Slots -> {Idle} \cup Task] /\ faults' \in 0..MaxFaults
    BY <1>23, GotoMoves, ChargeType DEF MarkFailed, At, Steps
  <2>2. delivery' \in [Keys -> Delivery]
    BY <1>23 DEF MarkFailed, TypeOK, Delivery
  <2> QED
    BY <1>23, <2>1, <2>2 DEF MarkFailed, TypeOK
<1>24. ASSUME NEW s \in Slots, Confirm(s) PROVE TypeOK'
  <2>1. slot' \in [Slots -> {Idle} \cup Task] /\ faults' \in 0..MaxFaults
    BY <1>24, GotoMoves, ChargeType DEF Confirm, At, Steps
  <2>2. delivery' \in [Keys -> Delivery]
    BY <1>24, KeyType DEF Confirm, At, TypeOK, Delivery, Task
  <2> QED
    BY <1>24, <2>1, <2>2 DEF Confirm, TypeOK
<1>25. ASSUME NEW s \in Slots, RecordCompleted(s) PROVE TypeOK'
  <2>1. slot' \in [Slots -> {Idle} \cup Task] /\ faults' \in 0..MaxFaults
    BY <1>25, GotoMoves, ChargeType DEF RecordCompleted, Raise, At, Steps
  <2>2. \/ effect' = [effect EXCEPT ![Key(s)] = [status |-> "completed",
                                                  sent |-> slot[s].sent]]
        \/ effect' = effect
    BY <1>25 DEF RecordCompleted
  <2>3. slot[s].sent \in Nat
    BY <1>25, KeyType DEF RecordCompleted, At, Task
  <2>4. [status |-> "completed", sent |-> slot[s].sent] \in Effect
    BY <2>3 DEF Effect
  <2>5. effect' \in [Keys -> Effect]
    BY <2>2, <2>4 DEF TypeOK
  <2> QED
    BY <1>25, <2>1, <2>5 DEF RecordCompleted, TypeOK
<1>26. ASSUME NEW s \in Slots, Finish(s) PROVE TypeOK'
  <2>1. slot' \in [Slots -> {Idle} \cup Task] /\ faults' \in 0..MaxFaults
    BY <1>26, GotoMoves, ReleaseIdles, ChargeType DEF Finish, Raise, At, Steps
  <2>2. queue' \in Seq(QueuedWrite)
    BY <1>26, StatusIsWrite, ZeroRetries DEF Finish, At, TypeOK
  <2> QED
    BY <1>26, <2>1, <2>2 DEF Finish, TypeOK
<1>27. ASSUME NEW s \in Slots, Fail(s) PROVE TypeOK'
  <2> DEFINE last == slot[s].retry + 1 >= MaxRetry
  <2>1. slot' \in [Slots -> {Idle} \cup Task] /\ faults' \in 0..MaxFaults
    BY <1>27, ReleaseIdles, ChargeType DEF Fail
  <2>2. ~last => slot[s].retry + 1 \in Retries
    BY <1>27, KeyType, DeliveryAssumption DEF Fail, At, Task, Retries
  <2>3. queue' \in Seq(QueuedWrite)
    BY <1>27, <2>2, StatusIsWrite, ZeroRetries DEF Fail, At, TypeOK
  <2> QED
    BY <1>27, <2>1, <2>3 DEF Fail, TypeOK
<1>28. ASSUME NEW s \in Slots, Bury(s) PROVE TypeOK'
  <2>1. slot' \in [Slots -> {Idle} \cup Task] /\ faults' \in 0..MaxFaults
    BY <1>28, ReleaseIdles, ChargeType DEF Bury
  <2>2. queue' \in Seq(QueuedWrite)
    BY <1>28, StatusIsWrite, ZeroRetries DEF Bury, At, TypeOK
  <2> QED
    BY <1>28, <2>1, <2>2 DEF Bury, TypeOK
<1>29. CASE UNCHANGED vars
  BY <1>29 DEF vars, TypeOK
<1> QED
  BY <1>1, <1>2, <1>3, <1>4, <1>5, <1>6, <1>7, <1>8, <1>9, <1>10, <1>11, <1>12,
     <1>13, <1>14, <1>15, <1>16, <1>17, <1>18, <1>19, <1>20, <1>21, <1>22, <1>23,
     <1>24, <1>25, <1>26, <1>27, <1>28, <1>29 DEF Next, SlotStep

-----------------------------------------------------------------------------
(* Which steps touch what.                                                 *)

\* Only db_writer, /start, the hourly revival and the ends of an attempt touch
\* the queue.
LEMMA QueueFrame ==
  ASSUME [Next]_vars
  PROVE  \/ UNCHANGED queue
         \/ ApplyWrite \/ DelayWrite \/ SendStart
         \/ \E j \in Jobs : ReviveDead(j)
         \/ \E s \in Slots : Skip(s) \/ Finish(s) \/ Fail(s) \/ Bury(s)
BY DEF Next, SlotStep, vars, Enqueue, AssignCrdbId, Reclaim, ReactivateWaiting, Crash,
       ListPending, Claim, Begin, MarkWaiting, ReadReceipts, UpsertPending,
       CheckReceipt, VerifySkipped, RecordPending, Send, SendUnseen, SendRaises,
       MarkFailed, Confirm, RecordCompleted

\* Only five steps of an attempt touch the receipts.
LEMMA ReceiptFrame ==
  ASSUME [Next]_vars
  PROVE  \/ UNCHANGED receipts
         \/ \E s \in Slots : \/ UpsertPending(s) \/ RecordPending(s) \/ SendRaises(s)
                             \/ MarkFailed(s) \/ Confirm(s) \/ RecordCompleted(s)
BY DEF Next, SlotStep, vars, Enqueue, AssignCrdbId, ApplyWrite, DelayWrite, Reclaim,
       ReviveDead, SendStart, ReactivateWaiting, Crash, ListPending, Claim, Begin,
       MarkWaiting, Skip, ReadReceipts, CheckReceipt, VerifySkipped, Send, SendUnseen,
       Finish, Fail, Bury

\* Copies are only made by Send and SendUnseen, and never unmade.
LEMMA SendsGrow ==
  ASSUME TypeOK, [Next]_vars, NEW k \in Keys, SentUnder(k)
  PROVE  SentUnder(k)'
<1>1. \/ UNCHANGED sends
      \/ \E s \in Slots : Send(s) \/ SendUnseen(s)
  BY DEF Next, SlotStep, vars, Enqueue, AssignCrdbId, ApplyWrite, DelayWrite, Reclaim,
         ReviveDead, SendStart, ReactivateWaiting, Crash, ListPending, Claim, Begin,
         MarkWaiting, Skip, ReadReceipts, UpsertPending, CheckReceipt, VerifySkipped,
         RecordPending, SendRaises, MarkFailed, Confirm, RecordCompleted, Finish,
         Fail, Bury
<1>2. sends[k] \in Nat
  BY DEF TypeOK
<1>3. ASSUME NEW s \in Slots, Send(s) \/ SendUnseen(s)
      PROVE  sends' = sends \/ sends' = [sends EXCEPT ![Key(s)] = @ + 1]
  BY <1>3 DEF Send, SendUnseen
<1>4. sends'[k] = sends[k] \/ sends'[k] = sends[k] + 1
  BY <1>1, <1>3 DEF TypeOK
<1> QED
  BY <1>2, <1>4 DEF SentUnder

\* Only six steps of an attempt, and a crash, touch the tracker.
LEMMA TrackerFrame ==
  ASSUME [Next]_vars
  PROVE  \/ UNCHANGED tracker
         \/ Crash
         \/ \E s \in Slots : \/ Skip(s) \/ ReadReceipts(s) \/ VerifySkipped(s)
                             \/ Send(s) \/ Finish(s) \/ Fail(s) \/ Bury(s)
BY DEF Next, SlotStep, vars, Enqueue, AssignCrdbId, ApplyWrite, DelayWrite, Reclaim,
       ReviveDead, SendStart, ReactivateWaiting, ListPending, Claim, Begin,
       MarkWaiting, UpsertPending, CheckReceipt, RecordPending, SendUnseen, SendRaises,
       MarkFailed, Confirm, RecordCompleted

-----------------------------------------------------------------------------
(* No step forges evidence.                                                *)

\* A queued "done" is an old one, or comes from a slot that believes.
LEMMA QueueEvidenceStep == IInv /\ [Next]_vars => QueueEvidence'
<1> SUFFICES ASSUME IInv, [Next]_vars PROVE QueueEvidence'
  OBVIOUS
<1>1. TypeOK /\ TypeOK'
  BY TypeStep DEF IInv
<1>2. ASSUME \A i \in DOMAIN queue' :
                \/ queue'[i].op # "done"
                \/ \E k \in DOMAIN queue : queue'[i] = queue[k]
                \/ /\ <<queue'[i].job, queue'[i].id>> \in Keys
                   /\ SentUnder(<<queue'[i].job, queue'[i].id>>)
      PROVE  QueueEvidence'
  <2> SUFFICES ASSUME NEW i \in DOMAIN queue', queue'[i].op = "done"
               PROVE  sends'[<<queue'[i].job, queue'[i].id>>] > 0
    BY DEF QueueEvidence, SentUnder
  <2>1. <<queue'[i].job, queue'[i].id>> \in Keys
    BY <1>1 DEF TypeOK, QueuedWrite, JobWrite, StartedWrite, Keys
  <2>2. SentUnder(<<queue'[i].job, queue'[i].id>>)
    BY <1>2 DEF IInv, Evidence, QueueEvidence
  <2> DEFINE k == <<queue'[i].job, queue'[i].id>>
  <2>3. k \in Keys /\ SentUnder(k)
    BY <2>1, <2>2
  <2> HIDE DEF k
  <2>4. sends'[k] > 0
    BY <1>1, <2>3, SendsGrow DEF SentUnder
  <2> QED
    BY <2>4 DEF k
<1>3. CASE UNCHANGED queue
  BY <1>2, <1>3
<1>4. CASE ApplyWrite
  <2>1. \A i \in DOMAIN queue' : \E k \in DOMAIN queue : queue'[i] = queue[k]
    BY <1>1, <1>4, TailOld DEF ApplyWrite, TypeOK
  <2> QED
    BY <1>2, <2>1
<1>5. CASE DelayWrite
  <2>1. queue # <<>> /\ queue \in Seq(QueuedWrite)
    BY <1>1, <1>5 DEF DelayWrite, TypeOK
  <2>2. CASE queue' = Append(Tail(queue), Head(queue))
    <3> DEFINE q == Append(Tail(queue), Head(queue))
    <3>1. \A i \in DOMAIN q : \E k \in DOMAIN queue : q[i] = queue[k]
      BY <2>1, TailOld
    <3> HIDE DEF q
    <3> QED
      BY <1>2, <2>2, <3>1 DEF q
  <2>3. CASE queue' = Tail(queue)
    <3>1. \A i \in DOMAIN Tail(queue) : \E k \in DOMAIN queue : Tail(queue)[i] = queue[k]
      BY <2>1, TailOld
    <3> QED
      BY <1>2, <2>3, <3>1
  <2> QED
    BY <1>5, <2>2, <2>3 DEF DelayWrite
<1>6. CASE SendStart
  <2>1. \A i \in DOMAIN queue' :
          queue'[i] = StartedWrite \/ \E k \in DOMAIN queue : queue'[i] = queue[k]
    BY <1>1, <1>6, PushAppends DEF SendStart, QueuedWrite
  <2> QED
    BY <1>2, <2>1 DEF StartedWrite
<1>7. ASSUME NEW j \in Jobs, ReviveDead(j) PROVE QueueEvidence'
  <2> DEFINE w == Write("revive", j, row[j].id, 0)
  <2>1. w \in QueuedWrite /\ w.op # "done"
    BY <1>1, ZeroRetries DEF TypeOK, Row, Write, QueuedWrite, JobWrite
  <2>2. Push(w)
    BY <1>7 DEF ReviveDead
  <2>3. \A i \in DOMAIN queue' :
          queue'[i] = w \/ \E k \in DOMAIN queue : queue'[i] = queue[k]
    <3> HIDE DEF w
    <3> QED
      BY <1>1, <2>1, <2>2, PushAppends
  <2> QED
    BY <1>2, <2>1, <2>3
<1>8. ASSUME NEW s \in Slots, Skip(s) \/ Finish(s) PROVE QueueEvidence'
  <2>1. SentUnder(Key(s)) /\ Key(s) \in Keys /\ slot[s].pc # "idle"
    BY <1>1, <1>8, KeyType
    DEF Skip, Finish, At, IInv, Evidence, SlotEvidence, Believing
  <2>2. CASE UNCHANGED queue
    BY <1>2, <2>2
  <2>3. CASE PushStatus(s, "done", 0)
    BY <1>1, <1>2, <2>1, <2>3, StatusIsWrite, ZeroRetries
  <2> QED
    BY <1>8, <2>2, <2>3 DEF Skip, Finish
<1>9. ASSUME NEW s \in Slots, Fail(s) \/ Bury(s) PROVE QueueEvidence'
  <2>1. slot[s].pc # "idle" /\ slot[s] \in Task
    BY <1>1, <1>9, KeyType DEF Fail, Bury, At
  <2>2. slot[s].retry + 1 < MaxRetry => slot[s].retry + 1 \in Retries
    BY <2>1, DeliveryAssumption DEF Task, Retries
  <2>3. CASE UNCHANGED queue
    BY <1>2, <2>3
  <2>4. CASE PushStatus(s, "dead", 0)
    BY <1>1, <1>2, <2>1, <2>4, StatusIsWrite, ZeroRetries
  <2>5. CASE PushStatus(s, "retry", slot[s].retry + 1) /\ slot[s].retry + 1 < MaxRetry
    <3>1. \A i \in DOMAIN queue' :
            \/ queue'[i].op = "retry"
            \/ \E k \in DOMAIN queue : queue'[i] = queue[k]
      BY <1>1, <2>1, <2>2, <2>5, StatusIsWrite
    <3> QED
      BY <1>2, <3>1
  <2>6. ~(slot[s].retry + 1 >= MaxRetry) => slot[s].retry + 1 < MaxRetry
    BY <2>1, DeliveryAssumption DEF Task, Retries
  <2> QED
    BY <1>9, <2>3, <2>4, <2>5, <2>6 DEF Fail, Bury
<1> QED
  BY <1>3, <1>4, <1>5, <1>6, <1>7, <1>8, <1>9, QueueFrame

\* A receipt is only confirmed or completed by a slot that made the copy.
LEMMA ReceiptEvidenceStep == IInv /\ [Next]_vars => ReceiptEvidence'
<1> SUFFICES ASSUME IInv, [Next]_vars, NEW k \in Keys,
                    delivery'[k].status = "CONFIRMED" \/ effect'[k].status = "completed"
             PROVE  SentUnder(k)'
  BY DEF ReceiptEvidence
<1>1. TypeOK
  BY DEF IInv
<1>2. SUFFICES SentUnder(k)
  BY <1>1, SendsGrow
<1>3. SUFFICES ASSUME delivery[k].status # "CONFIRMED", effect[k].status # "completed"
               PROVE  SentUnder(k)
  BY DEF IInv, Evidence, ReceiptEvidence
<1>4. PICK s \in Slots : \/ UpsertPending(s) \/ RecordPending(s) \/ SendRaises(s)
                         \/ MarkFailed(s) \/ Confirm(s) \/ RecordCompleted(s)
  BY <1>3, ReceiptFrame DEF receipts
<1>5. delivery[k] \in Delivery /\ effect[k] \in Effect
  BY <1>1 DEF TypeOK
<1>6. CASE UpsertPending(s)
  BY <1>1, <1>3, <1>5, <1>6 DEF UpsertPending, TypeOK, Delivery
<1>7. CASE RecordPending(s)
  BY <1>1, <1>3, <1>5, <1>7 DEF RecordPending, TypeOK, Effect
<1>8. CASE SendRaises(s)
  BY <1>1, <1>3, <1>5, <1>8 DEF SendRaises, TypeOK, Effect
<1>9. CASE MarkFailed(s)
  BY <1>1, <1>3, <1>5, <1>9 DEF MarkFailed, TypeOK, Delivery
<1>10. CASE Confirm(s) \/ RecordCompleted(s)
  <2>1. SentUnder(Key(s))
    BY <1>10 DEF Confirm, RecordCompleted, At, IInv, Evidence, SlotEvidence, Believing
  <2>2. Key(s) # k => delivery'[k] = delivery[k] /\ effect'[k] = effect[k]
    BY <1>1, <1>10 DEF Confirm, RecordCompleted, TypeOK
  <2> QED
    BY <1>3, <2>1, <2>2
<1> QED
  BY <1>4, <1>6, <1>7, <1>8, <1>9, <1>10

\* The tracker learns of a key from a copy just made or from a believed receipt.
LEMMA TrackerEvidenceStep == IInv /\ [Next]_vars => TrackerEvidence'
<1> SUFFICES ASSUME IInv, [Next]_vars, NEW k \in tracker' PROVE SentUnder(k)'
  BY DEF TrackerEvidence
<1>1. TypeOK /\ TypeOK'
  BY TypeStep DEF IInv
<1>2. k \in Keys
  BY <1>1 DEF TypeOK
<1>3. CASE SentUnder(k)
  BY <1>1, <1>2, <1>3, SendsGrow
<1>4. CASE k \in tracker
  BY <1>3, <1>4 DEF IInv, Evidence, TrackerEvidence
<1>5. CASE k \notin tracker
  <2>1. PICK s \in Slots : ReadReceipts(s) \/ VerifySkipped(s) \/ Send(s)
    BY <1>5, TrackerFrame DEF Crash, Skip, Finish, Fail, Bury
  <2>2. k = Key(s)
    BY <1>5, <2>1 DEF ReadReceipts, VerifySkipped, Send
  <2>3. CASE ReadReceipts(s)
    <3>1. delivery[k].status = "CONFIRMED"
      BY <1>5, <2>2, <2>3 DEF ReadReceipts
    <3> QED
      BY <1>2, <1>3, <3>1 DEF IInv, Evidence, ReceiptEvidence
  <2>4. CASE VerifySkipped(s)
    BY <1>3, <2>2, <2>4
    DEF VerifySkipped, At, IInv, Evidence, SlotEvidence, Believing
  <2>5. CASE Send(s)
    <3>1. sends' = [sends EXCEPT ![k] = @ + 1]
      BY <1>5, <2>2, <2>5 DEF Send
    <3>2. sends[k] \in Nat
      BY <1>1, <1>2 DEF TypeOK
    <3> QED
      BY <1>1, <1>2, <3>1, <3>2 DEF SentUnder, TypeOK
  <2> QED
    BY <2>1, <2>3, <2>4, <2>5
<1> QED
  BY <1>4, <1>5


\* A slot comes to believe only what the tracker or a receipt says, or what it
\* has just sent.
LEMMA SlotEvidenceStep == IInv /\ [Next]_vars => SlotEvidence'
<1> SUFFICES ASSUME IInv, [Next]_vars, NEW t \in Slots, slot'[t].pc \in Believing
             PROVE  sends'[Key(t)'] > 0
  BY DEF SlotEvidence, SentUnder
<1>1. TypeOK /\ TypeOK'
  BY TypeStep DEF IInv
<1>2. Key(t)' \in Keys
  <2>1. slot'[t] \in Task
    BY <1>1 DEF TypeOK, Idle, Believing
  <2> QED
    BY <2>1 DEF Task, Key, Keys
<1>3. ASSUME NEW k \in Keys, k = Key(t)', SentUnder(k) PROVE sends'[Key(t)'] > 0
  BY <1>1, <1>3, SendsGrow DEF SentUnder
<1>4. CASE slot'[t] = slot[t]
  <2>1. Key(t)' = Key(t)
    BY <1>4 DEF Key
  <2>2. SentUnder(Key(t))
    BY <1>4 DEF IInv, Evidence, SlotEvidence
  <2> QED
    BY <1>2, <1>3, <2>1, <2>2
<1>5. CASE SlotStep(t) \/ SendUnseen(t) \/ SendRaises(t)
  <2>1. CASE Send(t)
    <3>1. slot[t] \in Task /\ Key(t) \in Keys
      BY <1>1, <2>1, KeyType DEF Send, At
    <3>2. CASE Goto(t, "failed")
      BY <3>1, <3>2, <1>1 DEF Goto, TypeOK, Believing, Task
    <3>3. CASE /\ sends' = [sends EXCEPT ![Key(t)] = @ + 1]
               /\ slot' = [slot EXCEPT ![t].pc = "confirm", ![t].sent = sends[Key(t)] + 1]
      <4>1. Key(t)' = Key(t)
        BY <1>1, <3>1, <3>3 DEF Key, TypeOK, Task
      <4>2. sends'[Key(t)] = sends[Key(t)] + 1 /\ sends[Key(t)] \in Nat
        BY <1>1, <3>1, <3>3 DEF TypeOK
      <4> QED
        BY <4>1, <4>2
    <3> QED
      BY <2>1, <3>2, <3>3 DEF Send
  <2>2. CASE \E pc \in Steps \ Believing : slot[t].pc # "idle" /\ Goto(t, pc)
    BY <1>1, <2>2, GotoMoves
  <2>3. CASE Release(t)
    BY <1>1, <2>3, ReleaseIdles DEF Believing
  <2>4. CASE ListPending(t)
    <3>1. PICK j \in Jobs :
            slot' = [slot EXCEPT ![t] = [pc |-> "listed", job |-> j, id |-> row[j].id,
                                         retry |-> row[j].retry, sent |-> 0]]
      BY <2>4 DEF ListPending
    <3> QED
      BY <1>1, <3>1 DEF TypeOK, Believing
  <2>5. CASE slot[t].pc # "idle" /\ SentUnder(Key(t)) /\ \E pc \in Steps : Goto(t, pc)
    <3>1. Key(t)' = Key(t)
      BY <1>1, <2>5, GotoMoves
    <3> QED
      BY <1>2, <1>3, <2>5, <3>1
  <2>6. slot[t].pc # "idle" => Key(t) \in Keys
    BY <1>1, KeyType
  <2>7. CASE Claim(t)
    BY <2>2, <2>3, <2>7 DEF Claim, At, Steps, Believing
  <2>8. CASE Begin(t)
    <3>1. CASE Key(t) \in tracker /\ Goto(t, "skip")
      BY <2>5, <2>8, <3>1 DEF Begin, At, Steps, IInv, Evidence, TrackerEvidence
    <3>2. CASE \E pc \in {"bury", "wait", "read", "fail"} : Goto(t, pc)
      BY <2>2, <2>8, <3>2 DEF Begin, At, Steps, Believing
    <3> QED
      BY <2>8, <3>1, <3>2 DEF Begin
  <2>9. CASE ReadReceipts(t)
    <3>1. CASE delivery[Key(t)].status = "CONFIRMED" /\ Goto(t, "finish")
      BY <2>5, <2>6, <2>9, <3>1
      DEF ReadReceipts, At, Steps, IInv, Evidence, ReceiptEvidence
    <3>2. CASE Goto(t, "pend")
      BY <2>2, <2>9, <3>2 DEF ReadReceipts, At, Steps, Believing
    <3> QED
      BY <2>9, <3>1, <3>2 DEF ReadReceipts
  <2>10. CASE CheckReceipt(t)
    <3>1. CASE effect[Key(t)].status = "completed" /\ Goto(t, "verify")
      BY <2>5, <2>6, <2>10, <3>1
      DEF CheckReceipt, At, Steps, IInv, Evidence, ReceiptEvidence
    <3>2. CASE \E pc \in {"claim", "bury", "fail"} : Goto(t, pc)
      BY <2>2, <2>10, <3>2 DEF CheckReceipt, At, Steps, Believing
    <3> QED
      BY <2>10, <3>1, <3>2 DEF CheckReceipt, Raise
  <2>11. CASE VerifySkipped(t) \/ Confirm(t) \/ RecordCompleted(t) \/ Finish(t)
    <3>1. SentUnder(Key(t)) /\ slot[t].pc # "idle"
      BY <2>11 DEF VerifySkipped, Confirm, RecordCompleted, Finish, At, IInv,
                   Evidence, SlotEvidence, Believing
    <3> QED
      BY <2>3, <2>5, <2>11, <3>1
      DEF VerifySkipped, Confirm, RecordCompleted, Finish, Raise, Steps
  <2>12. CASE UpsertPending(t) \/ RecordPending(t) \/ SendRaises(t) \/ MarkFailed(t)
    BY <2>2, <2>12
    DEF UpsertPending, RecordPending, SendRaises, MarkFailed, Raise, At, Steps, Believing
  <2>13. CASE MarkWaiting(t) \/ Skip(t) \/ Fail(t) \/ Bury(t)
    BY <2>3, <2>13 DEF MarkWaiting, Skip, Fail, Bury
  <2>14. CASE SendUnseen(t)
    BY <1>4, <2>14 DEF SendUnseen
  <2> QED
    BY <1>5, <2>1, <2>4, <2>7, <2>8, <2>9, <2>10, <2>11, <2>12, <2>13, <2>14
    DEF SlotStep
<1>6. ASSUME NEW s \in Slots, s # t, SlotStep(s) \/ SendUnseen(s) \/ SendRaises(s)
      PROVE  slot'[t] = slot[t]
  BY <1>1, <1>6 DEF SlotStep, SendUnseen, SendRaises, ListPending, Claim, Begin, MarkWaiting,
     Skip, ReadReceipts, UpsertPending, CheckReceipt, VerifySkipped, RecordPending, Send,
     MarkFailed, Confirm, RecordCompleted, Finish, Fail, Bury, Goto, Release, Raise, TypeOK
<1>7. CASE Crash
  BY <1>7 DEF Crash, Idle, Believing
<1>8. CASE \/ \E j \in Jobs : Enqueue(j) \/ AssignCrdbId(j) \/ Reclaim(j) \/ ReviveDead(j)
           \/ ApplyWrite \/ DelayWrite \/ SendStart \/ ReactivateWaiting
           \/ UNCHANGED vars
  BY <1>4, <1>8 DEF Enqueue, AssignCrdbId, Reclaim, ReviveDead, ApplyWrite, DelayWrite,
     SendStart, ReactivateWaiting, vars
<1> QED
  BY <1>4, <1>5, <1>6, <1>7, <1>8 DEF Next

\* A row turns "done" only by a queued "done" for the id the row has.
LEMMA DoneStep == IInv /\ [Next]_vars => DoneWasSent'
<1> SUFFICES ASSUME IInv, [Next]_vars, NEW j \in Jobs, row'[j].status = "done"
             PROVE  sends'[<<j, "local">>] + sends'[<<j, "crdb">>] > 0
  BY DEF DoneWasSent
<1>1. TypeOK /\ TypeOK'
  BY TypeStep DEF IInv
<1>2. <<j, "local">> \in Keys /\ <<j, "crdb">> \in Keys
  BY DEF Keys, Id
<1>3. /\ sends[<<j, "local">>] \in Nat /\ sends[<<j, "crdb">>] \in Nat
      /\ sends'[<<j, "local">>] \in Nat /\ sends'[<<j, "crdb">>] \in Nat
  BY <1>1, <1>2 DEF TypeOK
<1>4. SUFFICES sends[<<j, "local">>] > 0 \/ sends[<<j, "crdb">>] > 0
  BY <1>1, <1>2, <1>3, SendsGrow DEF SentUnder
<1>5. CASE row[j].status = "done"
  BY <1>3, <1>5 DEF IInv, DoneWasSent
<1>6. CASE row[j].status # "done"
  <2>1. row[j] \in Row /\ row \in [Jobs -> Row]
    BY <1>1 DEF TypeOK
  <2>2. ApplyWrite
    <3>1. ASSUME NEW i \in Jobs, Enqueue(i) \/ AssignCrdbId(i) \/ Reclaim(i) PROVE FALSE
      BY <1>6, <2>1, <3>1 DEF Enqueue, AssignCrdbId, Reclaim, Row
    <3>2. ASSUME ReactivateWaiting PROVE FALSE
      BY <1>6, <2>1, <3>2 DEF ReactivateWaiting, Row
    <3>3. ASSUME NEW s \in Slots, Claim(s) \/ MarkWaiting(s) PROVE FALSE
      BY <1>6, <2>1, <3>3 DEF Claim, MarkWaiting, Row
    <3>4. \/ UNCHANGED row \/ ApplyWrite \/ ReactivateWaiting
          \/ \E i \in Jobs : Enqueue(i) \/ AssignCrdbId(i) \/ Reclaim(i)
          \/ \E s \in Slots : Claim(s) \/ MarkWaiting(s)
      BY DEF Next, SlotStep, vars, DelayWrite, ReviveDead, SendStart, Crash, ListPending,
             Begin, Skip, ReadReceipts, UpsertPending, CheckReceipt, VerifySkipped,
             RecordPending, Send, SendUnseen, SendRaises, MarkFailed, Confirm,
             RecordCompleted, Finish, Fail, Bury
    <3> QED
      BY <1>6, <3>1, <3>2, <3>3, <3>4
  <2> DEFINE w == Head(queue)
  <2>3. queue # <<>> /\ 1 \in DOMAIN queue /\ w = queue[1] /\ w \in QueuedWrite
    BY <1>1, <2>2 DEF ApplyWrite, TypeOK
  <2>4. w.op # "started" /\ row[w.job].id = w.id /\ row' = [row EXCEPT ![w.job] = Updated(@, w)]
    BY <1>6, <2>2 DEF ApplyWrite
  <2> HIDE DEF w
  <2>5. w \in JobWrite
    BY <2>3, <2>4 DEF QueuedWrite, StartedWrite
  <2>6. w.job = j /\ Updated(row[j], w).status = "done"
    BY <1>6, <2>1, <2>4, <2>5 DEF JobWrite
  <2>7. w.op = "done"
    <3>1. CASE w.op = "dead"
      BY <2>1, <2>6, <3>1 DEF Updated, Row
    <3>2. CASE w.op = "retry"
      BY <2>1, <2>6, <3>2 DEF Updated, Row
    <3>3. CASE w.op = "revive"
      BY <2>1, <2>6, <3>3 DEF Updated, Row
    <3> QED
      BY <2>5, <3>1, <3>2, <3>3 DEF JobWrite
  <2>8. SentUnder(<<w.job, w.id>>)
    BY <2>3, <2>7 DEF IInv, Evidence, QueueEvidence
  <2> QED
    BY <2>5, <2>6, <2>8 DEF JobWrite, Id, SentUnder
<1> QED
  BY <1>5, <1>6


-----------------------------------------------------------------------------
(* The theorems.                                                           *)

\* Types, DoneWasSent and the evidence behind it are an inductive invariant.
THEOREM Invariance == Spec => []IInv
<1>1. Init => IInv
  <2> SUFFICES ASSUME Init PROVE IInv
    OBVIOUS
  <2>1. TypeOK
    BY ZeroRetries, DeliveryAssumption
    DEF Init, TypeOK, Row, JobStatus, Id, Delivery, Effect, Idle
  <2>2. DoneWasSent
    BY DEF Init, DoneWasSent
  <2>3. Evidence
    BY DEF Init, Evidence, QueueEvidence, ReceiptEvidence, TrackerEvidence,
           SlotEvidence, Idle, Believing
  <2> QED
    BY <2>1, <2>2, <2>3 DEF IInv
<1>2. IInv /\ [Next]_vars => IInv'
  BY TypeStep, DoneStep, QueueEvidenceStep, ReceiptEvidenceStep, TrackerEvidenceStep,
     SlotEvidenceStep DEF IInv, Evidence
<1> QED
  BY <1>1, <1>2, PTL DEF Spec

\* TypeOK: in particular no job is ever retried MaxRetry times.
THEOREM TypeCorrect == Spec => []TypeOK
<1>1. IInv => TypeOK
  BY DEF IInv
<1> QED
  BY <1>1, Invariance, PTL

\* DoneWasSent: whatever is skipped, reclaimed, revived, reordered or lost, a job
\* marked done has had a copy delivered to its user.
THEOREM DoneImpliesSent == Spec => []DoneWasSent
<1>1. IInv => DoneWasSent
  BY DEF IInv
<1> QED
  BY <1>1, Invariance, PTL

\* CompletedIsFinal: a completed effect receipt never changes again.
THEOREM CompletedStays == Spec => CompletedIsFinal
<1>1. TypeOK /\ [Next]_vars =>
        [\A k \in Keys : effect[k].status = "completed" => effect'[k] = effect[k]]_vars
  <2> SUFFICES ASSUME TypeOK, [Next]_vars, NEW k \in Keys,
                      effect[k].status = "completed", effect'[k] # effect[k]
               PROVE  FALSE
    OBVIOUS
  <2>1. PICK s \in Slots : RecordPending(s) \/ SendRaises(s) \/ RecordCompleted(s)
    BY ReceiptFrame DEF receipts, UpsertPending, MarkFailed, Confirm
  <2>2. effect \in [Keys -> Effect]
    BY DEF TypeOK
  <2> QED
    BY <2>1, <2>2 DEF RecordPending, SendRaises, RecordCompleted
<1> QED
  BY <1>1, TypeCorrect, PTL DEF Spec, CompletedIsFinal

-----------------------------------------------------------------------------
(* Who may still send.  Under one job id an attempt to send is a right that *)
(* the row hands to a slot, the slot to a queued retry and the retry to the *)
(* row again.                                                              *)

Bit(b) == IF b THEN 1 ELSE 0

OnKey(w, k) == w.op # "started" /\ <<w.job, w.id>> = k
LateOn(k)   == \E i \in DOMAIN queue : OnKey(queue[i], k)

Working(s)   == slot[s].pc \notin {"idle", "listed"}
BusyOn(s, k) == Working(s) /\ Key(s) = k

\* A dispatched row in this state is what a slot left behind.
Orphaned(k) == ~LateOn(k) /\ \A s \in Slots : ~BusyOn(s, k)

\* The steps from which a slot does not send any more.
Spent == {"skip", "finish", "confirm", "record", "bury"}

Trying(k) == {s \in Slots : BusyOn(s, k) /\ slot[s].pc \notin Spent}

Is(w, k, op)      == OnKey(w, k) /\ w.op = op
Among(q, k, op)   == {i \in DOMAIN q : Is(q[i], k, op)}
Queued(k, op)     == Cardinality(Among(queue, k, op))
Retrying(k)       == Queued(k, "retry")

\* An attempt the row will allow or, under a CRDB id still to come, may allow.
RowTry(k) ==
    LET r == row[k[1]]
    IN  IF r.id # k[2] THEN Bit(k[2] = "crdb")
        ELSE Bit(\/ r.status \in {"none", "pending", "waiting_start"}
                 \/ r.status = "dispatched" /\ Orphaned(k))

Causes(k) == faults + crashes + row[k[1]].revived

\* Copies made and attempts to come are never more than the causes allow.
Budget(k) ==
    /\ IsFiniteSet(Trying(k))
    /\ sends[k] + RowTry(k) + Cardinality(Trying(k)) + Retrying(k) <= 1 + Causes(k)

\* The queued writes of one operation under one key: with a new write, and without
\* the head.
LEMMA WritesOfAppend ==
  ASSUME NEW q \in Seq(QueuedWrite), NEW w \in QueuedWrite, NEW k, NEW op
  PROVE  /\ IsFiniteSet(Among(q, k, op)) /\ Cardinality(Among(q, k, op)) \in Nat
         /\ Cardinality(Among(Append(q, w), k, op))
               = Cardinality(Among(q, k, op)) + Bit(Is(w, k, op))
<1>1. IsFiniteSet(Among(q, k, op))
  <2>1. Among(q, k, op) \in SUBSET (1..Len(q)) /\ Len(q) \in Int
    BY DEF Among
  <2> QED  BY <2>1, FS_Interval, FS_Subset
<1>2. Cardinality(Among(q, k, op)) \in Nat
  BY <1>1, FS_CardinalityType
<1>3. /\ DOMAIN Append(q, w) = DOMAIN q \cup {Len(q) + 1}
      /\ Len(q) + 1 \notin DOMAIN q
      /\ \A i \in DOMAIN q : Append(q, w)[i] = q[i]
      /\ Append(q, w)[Len(q) + 1] = w
  OBVIOUS
<1>4. CASE Is(w, k, op)
  <2>1. Among(Append(q, w), k, op) = Among(q, k, op) \cup {Len(q) + 1}
    BY <1>3, <1>4 DEF Among
  <2>2. Len(q) + 1 \notin Among(q, k, op)
    BY <1>3 DEF Among
  <2> QED  BY <1>1, <1>2, <1>4, <2>1, <2>2, FS_AddElement DEF Bit
<1>5. CASE ~Is(w, k, op)
  <2>1. Among(Append(q, w), k, op) = Among(q, k, op)
    BY <1>3, <1>5 DEF Among
  <2> QED  BY <1>1, <1>2, <1>5, <2>1 DEF Bit
<1> QED  BY <1>4, <1>5

LEMMA WritesOfTail ==
  ASSUME NEW q \in Seq(QueuedWrite), q # <<>>, NEW k, NEW op
  PROVE  /\ IsFiniteSet(Among(Tail(q), k, op)) /\ Cardinality(Among(Tail(q), k, op)) \in Nat
         /\ Cardinality(Among(q, k, op)) \in Nat
         /\ Cardinality(Among(Tail(q), k, op)) + Bit(Is(Head(q), k, op))
               <= Cardinality(Among(q, k, op))
<1>1. /\ Tail(q) \in Seq(QueuedWrite) /\ Len(q) \in Nat \ {0}
      /\ DOMAIN q = 1..Len(q) /\ DOMAIN Tail(q) = 1..(Len(q) - 1)
      /\ \A i \in DOMAIN Tail(q) : Tail(q)[i] = q[i + 1]
      /\ Head(q) = q[1]
  OBVIOUS
<1>2. /\ IsFiniteSet(Among(q, k, op)) /\ Cardinality(Among(q, k, op)) \in Nat
      /\ IsFiniteSet(Among(Tail(q), k, op)) /\ Cardinality(Among(Tail(q), k, op)) \in Nat
  <2>1. Among(q, k, op) \in SUBSET (1..Len(q)) /\ Among(Tail(q), k, op) \in SUBSET (1..Len(q))
    BY <1>1 DEF Among
  <2>2. IsFiniteSet(1..Len(q))
    BY <1>1, FS_Interval
  <2>3. IsFiniteSet(Among(q, k, op)) /\ IsFiniteSet(Among(Tail(q), k, op))
    BY <2>1, <2>2, FS_Subset
  <2> QED  BY <2>3, FS_CardinalityType
<1> DEFINE Others == Among(q, k, op) \ {1}
           shift == [i \in Among(Tail(q), k, op) |-> i + 1]
<1>3. IsFiniteSet(Others)
      /\ Cardinality(Others) = Cardinality(Among(q, k, op)) - Bit(Is(Head(q), k, op))
  <2>1. 1 \in Among(q, k, op) <=> Is(Head(q), k, op)
    BY <1>1 DEF Among
  <2> QED  BY <1>2, <2>1, FS_RemoveElement DEF Bit
<1>4. shift \in Injection(Among(Tail(q), k, op), Others)
  <2>1. \A i \in Among(Tail(q), k, op) : i \in Nat \ {0} /\ i + 1 \in Others
    BY <1>1 DEF Among
  <2>2. shift \in [Among(Tail(q), k, op) -> Others]
    BY <2>1
  <2>3. \A i, j \in Among(Tail(q), k, op) : shift[i] = shift[j] => i = j
    BY <2>1
  <2> HIDE DEF shift, Others
  <2> QED  BY <2>2, <2>3 DEF Injection, IsInjective
<1> HIDE DEF shift, Others
<1>5. Cardinality(Among(Tail(q), k, op)) <= Cardinality(Others)
  BY <1>3, <1>4, FS_Injection
<1>6. Bit(Is(Head(q), k, op)) \in {0, 1}
  BY DEF Bit
<1> QED  BY <1>2, <1>3, <1>5, <1>6

\* What is late after a new write, and after the head is taken.
LEMMA OnKeyOfAppend ==
  ASSUME NEW q \in Seq(QueuedWrite), NEW w \in QueuedWrite, NEW k
  PROVE  (\E i \in DOMAIN Append(q, w) : OnKey(Append(q, w)[i], k))
            <=> (\E i \in DOMAIN q : OnKey(q[i], k)) \/ OnKey(w, k)
<1>1. /\ DOMAIN Append(q, w) = DOMAIN q \cup {Len(q) + 1}
      /\ \A i \in DOMAIN q : Append(q, w)[i] = q[i] /\ i # Len(q) + 1
      /\ Append(q, w)[Len(q) + 1] = w
  OBVIOUS
<1> QED  BY <1>1

LEMMA OnKeyOfTail ==
  ASSUME NEW q \in Seq(QueuedWrite), q # <<>>, NEW k
  PROVE  (\E i \in DOMAIN q : OnKey(q[i], k))
            <=> (\E i \in DOMAIN Tail(q) : OnKey(Tail(q)[i], k)) \/ OnKey(Head(q), k)
<1>1. /\ Len(q) \in Nat \ {0}
      /\ DOMAIN q = 1..Len(q) /\ DOMAIN Tail(q) = 1..(Len(q) - 1)
      /\ \A i \in DOMAIN Tail(q) : Tail(q)[i] = q[i + 1]
      /\ Head(q) = q[1]
  OBVIOUS
<1>2. \A i \in DOMAIN q : i = 1 \/ (i - 1 \in DOMAIN Tail(q) /\ Tail(q)[i - 1] = q[i])
  BY <1>1
<1>3. \A i \in DOMAIN Tail(q) : i + 1 \in DOMAIN q
  BY <1>1
<1>4. ASSUME NEW i \in DOMAIN q, OnKey(q[i], k)
      PROVE  (\E j \in DOMAIN Tail(q) : OnKey(Tail(q)[j], k)) \/ OnKey(Head(q), k)
  BY <1>1, <1>2, <1>4
<1>5. ASSUME NEW i \in DOMAIN Tail(q), OnKey(Tail(q)[i], k)
      PROVE  \E j \in DOMAIN q : OnKey(q[j], k)
  BY <1>1, <1>3, <1>5
<1>6. 1 \in DOMAIN q
  BY <1>1
<1> QED  BY <1>1, <1>4, <1>5, <1>6

\* A slot takes a step of its attempt, or lets its job go; no other slot moves.
OnTheJob(s) ==
    /\ Working(s) /\ Working(s)' /\ Key(s)' = Key(s)
    /\ \A t \in Slots \ {s} : slot'[t] = slot[t]
    /\ UNCHANGED <<row, queue, crashes>>

LetsGo(s) ==
    /\ Working(s) /\ slot'[s].pc = "idle"
    /\ \A t \in Slots \ {s} : slot'[t] = slot[t]
    /\ UNCHANGED <<sends, crashes>>

\* A step of an attempt that goes on.
Attempt(s) ==
    \/ Begin(s) \/ ReadReceipts(s) \/ UpsertPending(s) \/ CheckReceipt(s)
    \/ VerifySkipped(s) \/ RecordPending(s) \/ Send(s) \/ SendUnseen(s)
    \/ SendRaises(s) \/ MarkFailed(s) \/ Confirm(s) \/ RecordCompleted(s)
    \/ Finish(s) /\ ~Release(s)

\* An attempt keeps its key and its slot.
LEMMA AttemptKeeps ==
  ASSUME TypeOK, NEW s \in Slots, Attempt(s)
  PROVE  OnTheJob(s)
<1>0. UNCHANGED <<row, queue, crashes>>
  BY DEF Attempt, Begin, ReadReceipts, UpsertPending, CheckReceipt, VerifySkipped,
     RecordPending, Send, SendUnseen, SendRaises, MarkFailed, Confirm, RecordCompleted,
     Finish
<1>1. /\ slot[s].pc \in {"begin", "read", "pend", "check", "verify", "claim", "send",
                         "failed", "confirm", "record", "finish"}
      /\ slot[s].pc # "idle" /\ Working(s)
  BY DEF Attempt, Begin, ReadReceipts, UpsertPending, CheckReceipt, VerifySkipped,
     RecordPending, Send, SendUnseen, SendRaises, MarkFailed, Confirm, RecordCompleted,
     Finish, At, Working
<1>2. ASSUME \E pc \in Steps \ {"listed"} : Goto(s, pc) PROVE OnTheJob(s)
  <2> PICK pc \in Steps \ {"listed"} : Goto(s, pc)  BY <1>2
  <2>1. /\ slot'[s].pc = pc /\ Key(s)' = Key(s)
        /\ \A t \in Slots : t # s => slot'[t] = slot[t]
    BY <1>1, GotoMoves
  <2> QED  BY <1>0, <1>1, <2>1 DEF OnTheJob, Working, Steps
<1>3. ASSUME Raise(s) PROVE OnTheJob(s)
  BY <1>2, <1>3 DEF Raise, Steps
<1>4. CASE Send(s) \/ SendUnseen(s)
  <2>1. \/ slot' = slot
        \/ Goto(s, "failed")
        \/ slot' = [slot EXCEPT ![s].pc = "confirm", ![s].sent = sends[Key(s)] + 1]
    BY <1>4 DEF Send, SendUnseen
  <2>2. CASE slot' = slot
    BY <1>0, <1>1, <2>2 DEF OnTheJob, Working, Key
  <2>3. CASE Goto(s, "failed")
    BY <1>2, <2>3 DEF Steps
  <2>4. CASE slot' = [slot EXCEPT ![s].pc = "confirm", ![s].sent = sends[Key(s)] + 1]
    <3>1. slot[s] \in Task /\ slot \in [Slots -> {Idle} \cup Task]
      BY <1>1, KeyType DEF TypeOK
    <3>2. /\ slot'[s].pc = "confirm" /\ slot'[s].job = slot[s].job
          /\ slot'[s].id = slot[s].id
          /\ \A t \in Slots \ {s} : slot'[t] = slot[t]
      BY <2>4, <3>1 DEF Task
    <3> QED  BY <1>0, <1>1, <3>2 DEF OnTheJob, Working, Key
  <2> QED  BY <2>1, <2>2, <2>3, <2>4
<1>5. CASE Begin(s) \/ UpsertPending(s) \/ MarkFailed(s) \/ Confirm(s)
  BY <1>2, <1>5 DEF Begin, UpsertPending, MarkFailed, Confirm, Steps
<1>6. CASE ReadReceipts(s)
  BY <1>2, <1>6 DEF ReadReceipts, Steps
<1>7. CASE VerifySkipped(s)
  BY <1>2, <1>7 DEF VerifySkipped, Steps
<1>8. CASE CheckReceipt(s)
  BY <1>2, <1>3, <1>8 DEF CheckReceipt, Steps
<1>9. CASE RecordPending(s)
  BY <1>2, <1>3, <1>9 DEF RecordPending, Steps
<1>10. CASE RecordCompleted(s)
  BY <1>2, <1>3, <1>10 DEF RecordCompleted, Steps
<1>11. CASE SendRaises(s) \/ (Finish(s) /\ ~Release(s))
  BY <1>3, <1>11 DEF SendRaises, Finish
<1> QED
  BY <1>4, <1>5, <1>6, <1>7, <1>8, <1>9, <1>10, <1>11 DEF Attempt

\* What an attempt sends it sends for the try it had, or at the cost of a fault.
LEMMA AttemptPays ==
  ASSUME TypeOK, NEW s \in Slots, Attempt(s)
  PROVE  /\ faults \in Nat /\ faults' \in Nat /\ faults' >= faults
         /\ Key(s) \in Keys
         /\ \A k \in Keys : k # Key(s) => sends'[k] = sends[k]
         /\ sends'[Key(s)] + Bit(slot'[s].pc \notin Spent) + faults
               <= sends[Key(s)] + Bit(slot[s].pc \notin Spent) + faults'
<1>1. slot[s].pc # "idle" /\ Key(s) \in Keys
  BY AttemptKeeps, KeyType DEF OnTheJob, Working
<1>2. /\ sends \in [Keys -> Nat] /\ sends[Key(s)] \in Nat /\ faults \in Nat
      /\ Bit(slot[s].pc \notin Spent) \in {0, 1}
      /\ Bit(slot'[s].pc \notin Spent) \in {0, 1}
  BY <1>1 DEF TypeOK, Bit
<1>3. CASE Send(s)
  <2>1. slot[s].pc = "send" /\ faults' = faults
    BY <1>3 DEF Send, At
  <2>2. CASE Goto(s, "failed") /\ UNCHANGED sends
    <3>1. slot'[s].pc = "failed"
      BY <1>1, <2>2, GotoMoves DEF Steps
    <3> QED  BY <1>1, <1>2, <2>1, <2>2, <3>1 DEF Bit, Spent
  <2>3. CASE /\ sends' = [sends EXCEPT ![Key(s)] = @ + 1]
             /\ slot' = [slot EXCEPT ![s].pc = "confirm", ![s].sent = sends[Key(s)] + 1]
    <3>1. slot'[s].pc = "confirm"
      BY <1>1, <2>3, KeyType DEF TypeOK, Task
    <3>2. /\ sends'[Key(s)] = sends[Key(s)] + 1
          /\ \A k \in Keys : k # Key(s) => sends'[k] = sends[k]
      BY <1>1, <1>2, <2>3
    <3> QED  BY <1>1, <1>2, <2>1, <3>1, <3>2 DEF Bit, Spent
  <2> QED  BY <1>3, <2>2, <2>3 DEF Send
<1>4. CASE SendUnseen(s)
  <2>1. faults' = faults + 1 /\ slot' = slot
    BY <1>2, <1>4 DEF SendUnseen, Charge
  <2>2. /\ sends'[Key(s)] = sends[Key(s)] + 1
        /\ \A k \in Keys : k # Key(s) => sends'[k] = sends[k]
    BY <1>1, <1>2, <1>4 DEF SendUnseen
  <2> QED  BY <1>1, <1>2, <2>1, <2>2
<1>5. ASSUME UNCHANGED sends, faults' \in {faults, faults + 1},
             faults' = faults => slot'[s].pc \in Spent \/ slot[s].pc \notin Spent
      PROVE  /\ faults' \in Nat /\ faults' >= faults
             /\ \A k \in Keys : k # Key(s) => sends'[k] = sends[k]
             /\ sends'[Key(s)] + Bit(slot'[s].pc \notin Spent) + faults
                   <= sends[Key(s)] + Bit(slot[s].pc \notin Spent) + faults'
  BY <1>1, <1>2, <1>5 DEF Bit
<1>6. CASE \/ Begin(s) \/ ReadReceipts(s) \/ UpsertPending(s) \/ CheckReceipt(s)
           \/ VerifySkipped(s) \/ RecordPending(s) \/ SendRaises(s) \/ MarkFailed(s)
  <2>1. slot[s].pc \notin Spent /\ UNCHANGED sends
    BY <1>6 DEF Begin, ReadReceipts, UpsertPending, CheckReceipt, VerifySkipped,
       RecordPending, SendRaises, MarkFailed, At, Spent
  <2>2. faults' \in {faults, faults + 1}
    BY <1>6 DEF Begin, ReadReceipts, UpsertPending, CheckReceipt, VerifySkipped,
       RecordPending, SendRaises, MarkFailed, Charge
  <2> QED  BY <1>1, <1>2, <1>5, <2>1, <2>2
<1>7. CASE Confirm(s)
  <2>1. faults' \in {faults, faults + 1} /\ UNCHANGED sends
    BY <1>7 DEF Confirm, Charge
  <2>2. slot'[s].pc = "record"
    BY <1>1, <1>7, GotoMoves DEF Confirm, Steps
  <2> QED  BY <1>1, <1>2, <1>5, <2>1, <2>2 DEF Spent
<1>8. CASE RecordCompleted(s)
  <2>1. faults' \in {faults, faults + 1} /\ UNCHANGED sends
    BY <1>8 DEF RecordCompleted, Charge
  <2>2. faults' = faults => Goto(s, "bury") \/ Goto(s, "finish")
    BY <1>2, <1>8 DEF RecordCompleted, Charge
  <2>3. faults' = faults => slot'[s].pc \in Spent
    BY <1>1, <2>2, GotoMoves DEF Steps, Spent
  <2> QED  BY <1>1, <1>2, <1>5, <2>1, <2>3
<1>9. CASE Finish(s) /\ ~Release(s)
  <2>1. faults' = faults + 1 /\ UNCHANGED sends
    BY <1>2, <1>9 DEF Finish, Charge
  <2> QED  BY <1>1, <1>2, <1>5, <2>1
<1> QED
  BY <1>1, <1>2, <1>3, <1>4, <1>6, <1>7, <1>8, <1>9 DEF Attempt

\* An attempt that ends puts the job aside for the user, writes one status change
\* about its own key, or has lost that write to a fault; only an attempt that
\* might still have sent asks for a retry.
Ends(s) == MarkWaiting(s) \/ Skip(s) \/ (Finish(s) /\ Release(s)) \/ Fail(s) \/ Bury(s)

EndsWith(s, w) ==
    /\ queue' = Append(queue, w) /\ OnKey(w, Key(s))
    /\ w.op \in {"done", "dead", "retry"}
    /\ w.op = "retry" => slot[s].pc \notin Spent

LEMMA EndLetsGo ==
  ASSUME TypeOK, NEW s \in Slots, Ends(s)
  PROVE  /\ LetsGo(s)
         /\ \/ MarkWaiting(s)
            \/ faults' = faults + 1 /\ UNCHANGED <<row, queue>>
            \/ /\ UNCHANGED <<row, faults>>
               /\ \E w \in JobWrite : EndsWith(s, w)
<1>1. slot[s].pc \in {"wait", "skip", "finish", "fail", "bury"} /\ Release(s)
  BY DEF Ends, MarkWaiting, Skip, Finish, Fail, Bury, At
<1>2. LetsGo(s)
  <2>1. UNCHANGED <<sends, crashes>>
    BY DEF Ends, MarkWaiting, Skip, Finish, Fail, Bury
  <2> QED  BY <1>1, <2>1, ReleaseIdles DEF LetsGo, Working
<1>3. slot[s] \in Task /\ slot[s].job \in Jobs /\ slot[s].id \in Id /\ slot[s].retry \in Retries
  BY <1>1, KeyType DEF Task
<1>4. ASSUME NEW op \in {"done", "dead"}, PushStatus(s, op, 0)
      PROVE  \E w \in JobWrite : EndsWith(s, w)
  <2> DEFINE w == Write(op, slot[s].job, slot[s].id, 0)
  <2>1. w \in JobWrite /\ w.op = op /\ OnKey(w, Key(s))
    BY <1>3, ZeroRetries DEF Write, JobWrite, OnKey, Key
  <2>2. queue' = Append(queue, w)
    BY <1>4 DEF PushStatus, Push
  <2> HIDE DEF w
  <2> QED  BY <2>1, <2>2 DEF EndsWith
<1>5. CASE Skip(s) \/ (Finish(s) /\ Release(s)) \/ Bury(s)
  <2>1. UNCHANGED row
    BY <1>5 DEF Skip, Finish, Bury
  <2>2. CASE Skip(s) \/ Bury(s)
    <3>1. \/ faults' = faults + 1 /\ UNCHANGED queue
          \/ UNCHANGED faults /\ \E op \in {"done", "dead"} : PushStatus(s, op, 0)
      BY <2>2 DEF Skip, Bury, Charge
    <3> QED  BY <1>2, <1>4, <2>1, <3>1
  <2>3. CASE Finish(s) /\ Release(s)
    <3>1. PICK ok \in BOOLEAN :
            /\ Charge(ok)
            /\ IF ok
               THEN PushStatus(s, "done", 0) /\ tracker' = tracker \ {Key(s)} /\ Release(s)
               ELSE Raise(s) /\ UNCHANGED <<queue, tracker>>
      BY <2>3 DEF Finish
    <3>2. CASE ok
      <4>1. UNCHANGED faults /\ PushStatus(s, "done", 0)
        BY <3>1, <3>2 DEF Charge
      <4> QED  BY <1>2, <1>4, <2>1, <4>1
    <3>3. CASE ~ok
      <4>1. faults' = faults + 1 /\ UNCHANGED queue
        BY <3>1, <3>3 DEF Charge
      <4> QED  BY <1>2, <2>1, <4>1
    <3> QED  BY <3>2, <3>3
  <2> QED  BY <1>5, <2>2, <2>3
<1>6. CASE Fail(s)
  <2> DEFINE last == slot[s].retry + 1 >= MaxRetry
  <2>0. UNCHANGED row /\ slot[s].pc = "fail"
    BY <1>6 DEF Fail, At
  <2>1. PICK ok \in BOOLEAN :
          /\ Charge(ok)
          /\ CASE ~ok       -> UNCHANGED queue
               [] ok /\ last  -> PushStatus(s, "dead", 0)
               [] ok /\ ~last -> PushStatus(s, "retry", slot[s].retry + 1)
    BY <1>6 DEF Fail
  <2>2. CASE ~ok
    <3>1. faults' = faults + 1 /\ UNCHANGED queue
      BY <2>1, <2>2 DEF Charge
    <3> QED  BY <1>2, <2>0, <3>1
  <2>3. CASE ok /\ last
    <3>1. UNCHANGED faults /\ PushStatus(s, "dead", 0)
      BY <2>1, <2>3 DEF Charge
    <3> QED  BY <1>2, <1>4, <2>0, <3>1
  <2>4. CASE ok /\ ~last
    <3>1. UNCHANGED faults /\ PushStatus(s, "retry", slot[s].retry + 1)
      BY <2>1, <2>4 DEF Charge
    <3>2. slot[s].retry + 1 \in Retries
      BY <1>3, <2>4, DeliveryAssumption DEF Retries
    <3> DEFINE w == Write("retry", slot[s].job, slot[s].id, slot[s].retry + 1)
    <3>3. w \in JobWrite /\ w.op = "retry" /\ OnKey(w, Key(s))
      BY <1>3, <3>2 DEF Write, JobWrite, OnKey, Key
    <3>4. queue' = Append(queue, w)
      BY <3>1 DEF PushStatus, Push
    <3> HIDE DEF w
    <3>5. EndsWith(s, w)
      BY <2>0, <3>3, <3>4 DEF EndsWith, Spent
    <3> QED  BY <1>2, <2>0, <3>1, <3>3, <3>5
  <2> QED  BY <2>2, <2>3, <2>4
<1> QED  BY <1>2, <1>5, <1>6 DEF Ends

-----------------------------------------------------------------------------
(* The budget, step by step.                                               *)

\* The size of a set in which one element at most comes.
LEMMA OneComes ==
  ASSUME NEW H, NEW G, NEW x, IsFiniteSet(H), G \ {x} \subseteq H
  PROVE  /\ IsFiniteSet(G)
         /\ Cardinality(G) \in Nat /\ Cardinality(H) \in Nat
         /\ Cardinality(G) <= Cardinality(H) + Bit(x \in G) - Bit(x \in H)
<1>1. /\ IsFiniteSet(H \cup {x}) /\ IsFiniteSet(H \ {x})
      /\ Cardinality(H \cup {x}) = IF x \in H THEN Cardinality(H) ELSE Cardinality(H) + 1
      /\ Cardinality(H \ {x}) = IF x \in H THEN Cardinality(H) - 1 ELSE Cardinality(H)
  BY FS_AddElement, FS_RemoveElement
<1>2. Cardinality(H) \in Nat
  BY FS_CardinalityType
<1>3. CASE x \in G
  <2>1. G \in SUBSET (H \cup {x})
    BY <1>3
  <2>2. IsFiniteSet(G) /\ Cardinality(G) <= Cardinality(H \cup {x})
    BY <1>1, <2>1, FS_Subset
  <2>3. Cardinality(G) \in Nat
    BY <2>2, FS_CardinalityType
  <2> QED  BY <1>1, <1>2, <1>3, <2>2, <2>3 DEF Bit
<1>4. CASE x \notin G
  <2>1. G \in SUBSET (H \ {x})
    BY <1>4
  <2>2. IsFiniteSet(G) /\ Cardinality(G) <= Cardinality(H \ {x})
    BY <1>1, <2>1, FS_Subset
  <2>3. Cardinality(G) \in Nat
    BY <2>2, FS_CardinalityType
  <2> QED  BY <1>1, <1>2, <1>4, <2>2, <2>3 DEF Bit
<1> QED  BY <1>3, <1>4

\* A key names a job and an id of it.
LEMMA KeyParts ==
  ASSUME NEW k \in Keys
  PROVE  k[1] \in Jobs /\ k[2] \in Id /\ k = <<k[1], k[2]>>
BY DEF Keys

LEMMA Numbers ==
  ASSUME TypeOK, NEW k \in Keys
  PROVE  /\ sends[k] \in Nat /\ Causes(k) \in Nat /\ faults \in Nat /\ crashes \in Nat
         /\ RowTry(k) \in {0, 1} /\ Retrying(k) \in Nat
<1>1. Retrying(k) \in Nat
  <2>1. queue \in Seq(QueuedWrite) /\ StartedWrite \in QueuedWrite
    BY DEF TypeOK, QueuedWrite
  <2> QED  BY <2>1, WritesOfAppend DEF Retrying, Queued
<1> QED
  BY <1>1, KeyParts, DeliveryAssumption DEF TypeOK, Causes, Row, RowTry, Bit

\* What a step in which at most one slot comes to try adds to copies and tries it
\* adds to the causes.
LEMMA BudgetKept ==
  ASSUME TypeOK, TypeOK', NEW k \in Keys, Budget(k),
         NEW s, Trying(k)' \ {s} \subseteq Trying(k),
         sends'[k] + RowTry(k)' + Bit(s \in Trying(k)') + Retrying(k)' + Causes(k)
            <= sends[k] + RowTry(k) + Bit(s \in Trying(k)) + Retrying(k) + Causes(k)'
  PROVE  Budget(k)'
<1>1. /\ sends[k] \in Nat /\ Causes(k) \in Nat /\ RowTry(k) \in Nat /\ Retrying(k) \in Nat
  BY Numbers
<1>2. /\ sends'[k] \in Nat /\ Causes(k)' \in Nat /\ RowTry(k)' \in Nat /\ Retrying(k)' \in Nat
  <2>1. queue' \in Seq(QueuedWrite) /\ StartedWrite \in QueuedWrite
    BY DEF TypeOK, QueuedWrite
  <2>2. Retrying(k)' \in Nat
    BY <2>1, WritesOfAppend DEF Retrying, Queued
  <2>3. RowTry(k)' \in Nat
    BY DEF RowTry, Bit
  <2>4. /\ sends' \in [Keys -> Nat] /\ row' \in [Jobs -> Row]
        /\ faults' \in Nat /\ crashes' \in Nat
    BY DeliveryAssumption DEF TypeOK
  <2>5. row'[k[1]] \in Row
    BY <2>4, KeyParts
  <2>6. sends'[k] \in Nat /\ row'[k[1]].revived \in Nat
    BY <2>4, <2>5 DEF Row
  <2> QED
    BY <2>2, <2>3, <2>4, <2>6 DEF Causes
<1>3. /\ IsFiniteSet(Trying(k)')
      /\ Cardinality(Trying(k)') \in Nat /\ Cardinality(Trying(k)) \in Nat
      /\ Cardinality(Trying(k)')
            <= Cardinality(Trying(k)) + Bit(s \in Trying(k)') - Bit(s \in Trying(k))
  <2>1. IsFiniteSet(Trying(k))
    BY DEF Budget
  <2> QED  BY <2>1, OneComes
<1>4. Bit(s \in Trying(k)') \in {0, 1} /\ Bit(s \in Trying(k)) \in {0, 1}
  BY DEF Bit
<1>5. sends[k] + RowTry(k) + Cardinality(Trying(k)) + Retrying(k) <= 1 + Causes(k)
  BY DEF Budget
<1>6. sends'[k] + RowTry(k)' + Cardinality(Trying(k)') + Retrying(k)' <= 1 + Causes(k)'
  BY <1>1, <1>2, <1>3, <1>4, <1>5
<1> QED  BY <1>3, <1>6 DEF Budget

\* A row that is not written, when no slot lets go of the key and no write of it is taken.
LEMMA RowTryKept ==
  ASSUME NEW k, row'[k[1]] = row[k[1]]
  PROVE  /\ RowTry(k) \in {0, 1} /\ RowTry(k)' \in {0, 1}
         /\ (Orphaned(k)' => Orphaned(k)) => RowTry(k)' <= RowTry(k)
<1>1. /\ RowTry(k) = LET r == row[k[1]]
                     IN  IF r.id # k[2] THEN Bit(k[2] = "crdb")
                         ELSE Bit(\/ r.status \in {"none", "pending", "waiting_start"}
                                  \/ r.status = "dispatched" /\ Orphaned(k))
      /\ RowTry(k)' = LET r == row[k[1]]
                      IN  IF r.id # k[2] THEN Bit(k[2] = "crdb")
                          ELSE Bit(\/ r.status \in {"none", "pending", "waiting_start"}
                                   \/ r.status = "dispatched" /\ Orphaned(k)')
  BY DEF RowTry
<1>2. CASE Orphaned(k)
  BY <1>1, <1>2 DEF Bit
<1>3. CASE ~Orphaned(k)
  <2>1. CASE Orphaned(k)'
    BY <1>1, <1>3, <2>1 DEF Bit
  <2>2. CASE ~Orphaned(k)'
    BY <1>1, <1>3, <2>2 DEF Bit
  <2> QED  BY <2>1, <2>2
<1> QED  BY <1>2, <1>3

LEMMA AttemptBudget ==
  ASSUME TypeOK, TypeOK', NEW s \in Slots, Attempt(s), NEW k \in Keys, Budget(k)
  PROVE  Budget(k)'
<1>1. OnTheJob(s)
  BY AttemptKeeps
<1>2. /\ faults \in Nat /\ faults' \in Nat /\ faults' >= faults
      /\ k # Key(s) => sends'[k] = sends[k]
      /\ sends'[Key(s)] + Bit(slot'[s].pc \notin Spent) + faults
            <= sends[Key(s)] + Bit(slot[s].pc \notin Spent) + faults'
  BY AttemptPays
<1>3. \A t \in Slots : BusyOn(t, k)' <=> BusyOn(t, k)
  BY <1>1 DEF OnTheJob, BusyOn, Working, Key
<1>4. Trying(k)' \ {s} \subseteq Trying(k)
  BY <1>1, <1>3 DEF OnTheJob, Trying
<1>5. RowTry(k)' <= RowTry(k) /\ RowTry(k) \in {0, 1} /\ RowTry(k)' \in {0, 1}
  <2>1. Orphaned(k)' => Orphaned(k)
    BY <1>1, <1>3 DEF OnTheJob, Orphaned, LateOn
  <2> QED  BY <1>1, <2>1, RowTryKept DEF OnTheJob
<1>6. Retrying(k)' = Retrying(k) /\ Causes(k)' + faults = Causes(k) + faults'
  <2>1. row[k[1]].revived \in Nat /\ crashes \in Nat
    BY KeyParts DEF TypeOK, Row
  <2> QED  BY <1>1, <1>2, <2>1 DEF OnTheJob, Retrying, Queued, Causes
<1>7. sends'[k] + Bit(s \in Trying(k)') + faults <= sends[k] + Bit(s \in Trying(k)) + faults'
  <2>1. CASE k = Key(s)
    <3>1. /\ s \in Trying(k)' <=> slot'[s].pc \notin Spent
          /\ s \in Trying(k) <=> slot[s].pc \notin Spent
      BY <1>1, <2>1 DEF OnTheJob, Trying, BusyOn
    <3> QED  BY <1>2, <2>1, <3>1 DEF Bit
  <2>2. CASE k # Key(s)
    <3>1. s \notin Trying(k)' /\ s \notin Trying(k)
      BY <1>1, <2>2 DEF OnTheJob, Trying, BusyOn
    <3>2. sends[k] \in Nat
      BY Numbers
    <3> QED  BY <1>2, <2>2, <3>1, <3>2 DEF Bit
  <2> QED  BY <2>1, <2>2
<1>8. /\ sends[k] \in Nat /\ sends'[k] \in Nat /\ Retrying(k) \in Nat
      /\ Causes(k) \in Nat /\ Causes(k)' \in Int
  <2>1. sends[k] \in Nat /\ Retrying(k) \in Nat /\ Causes(k) \in Nat
    BY Numbers
  <2>2. sends' \in [Keys -> Nat] /\ sends'[k] \in Nat
    BY DEF TypeOK
  <2>3. Causes(k)' \in Int
    <3>1. row'[k[1]].revived \in Nat /\ crashes' \in Nat
      BY <1>1, KeyParts, DeliveryAssumption DEF OnTheJob, TypeOK, Row
    <3> QED  BY <1>2, <3>1 DEF Causes
  <2> QED  BY <2>1, <2>2, <2>3
<1>9. Bit(s \in Trying(k)') \in {0, 1} /\ Bit(s \in Trying(k)) \in {0, 1}
  BY DEF Bit
<1>10. sends'[k] + RowTry(k)' + Bit(s \in Trying(k)') + Retrying(k)' + Causes(k)
            <= sends[k] + RowTry(k) + Bit(s \in Trying(k)) + Retrying(k) + Causes(k)'
  BY <1>2, <1>5, <1>6, <1>7, <1>8, <1>9
<1> QED  BY <1>4, <1>10, BudgetKept

\* A slot lets its job go: what it tried the row or a queued retry tries.
LEMMA EndBudget ==
  ASSUME TypeOK, TypeOK', NEW s \in Slots, Ends(s), NEW k \in Keys, Budget(k)
  PROVE  Budget(k)'
<1>1. LetsGo(s)
  BY EndLetsGo
<1>2. Trying(k)' \ {s} \subseteq Trying(k) /\ s \notin Trying(k)'
  BY <1>1 DEF LetsGo, Trying, BusyOn, Working, Key
<1>3. \A t \in Slots \ {s} : BusyOn(t, k)' <=> BusyOn(t, k)
  BY <1>1 DEF LetsGo, BusyOn, Working, Key
<1>4. BusyOn(s, k) <=> k = Key(s)
  BY <1>1 DEF LetsGo, BusyOn
<1>5. /\ sends[k] \in Nat /\ Causes(k) \in Nat /\ faults \in Nat /\ crashes \in Nat
      /\ RowTry(k) \in {0, 1} /\ Retrying(k) \in Nat
  BY Numbers
<1>6. sends'[k] = sends[k] /\ crashes' = crashes /\ row[k[1]].revived \in Nat
  BY <1>1, KeyParts DEF LetsGo, TypeOK, Row
<1>7. SUFFICES RowTry(k)' + Retrying(k)' + Causes(k)
                  <= RowTry(k) + Bit(s \in Trying(k)) + Retrying(k) + Causes(k)'
  <2>1. Bit(s \in Trying(k)') = 0 /\ Bit(s \in Trying(k)) \in {0, 1}
    BY <1>2 DEF Bit
  <2>2. RowTry(k)' \in Nat /\ Retrying(k)' \in Nat /\ Causes(k)' \in Nat
    <3>1. queue' \in Seq(QueuedWrite) /\ StartedWrite \in QueuedWrite
      BY DEF TypeOK, QueuedWrite
    <3>2. Retrying(k)' \in Nat
      BY <3>1, WritesOfAppend DEF Retrying, Queued
    <3>3. RowTry(k)' \in Nat
      BY DEF RowTry, Bit
    <3>4. row'[k[1]] \in Row /\ faults' \in Nat /\ crashes' \in Nat
      BY KeyParts, DeliveryAssumption DEF TypeOK
    <3>5. Causes(k)' \in Nat
      BY <3>4 DEF Causes, Row
    <3> QED  BY <3>2, <3>3, <3>5
  <2>3. sends'[k] + RowTry(k)' + Bit(s \in Trying(k)') + Retrying(k)' + Causes(k)
            <= sends[k] + RowTry(k) + Bit(s \in Trying(k)) + Retrying(k) + Causes(k)'
    BY <1>5, <1>6, <1>7, <2>1, <2>2
  <2> QED  BY <1>2, <2>3, BudgetKept
<1>8. Bit(s \in Trying(k)) \in {0, 1}
  BY DEF Bit
<1>9. CASE MarkWaiting(s)
  <2>1. /\ queue' = queue /\ faults' = faults
        /\ row' = IF row[slot[s].job].id = slot[s].id
                  THEN [row EXCEPT ![slot[s].job].status = "waiting_start"] ELSE row
        /\ slot[s].pc = "wait"
    BY <1>9 DEF MarkWaiting, At
  <2>2. slot[s].job \in Jobs /\ row[k[1]] \in Row /\ row \in [Jobs -> Row]
    BY <1>1, KeyType, KeyParts DEF LetsGo, Working, Task, TypeOK
  <2>3. Causes(k)' = Causes(k) /\ Retrying(k)' = Retrying(k)
    BY <1>6, <2>1, <2>2, KeyParts DEF Causes, Retrying, Queued, Row
  <2>4. CASE k = Key(s)
    <3>1. s \in Trying(k)
      BY <1>4, <2>1, <2>4 DEF Trying, Spent
    <3>2. RowTry(k)' \in {0, 1}
      BY DEF RowTry, Bit
    <3> QED  BY <1>5, <2>3, <3>1, <3>2 DEF Bit
  <2>5. CASE k # Key(s)
    <3>1. RowTry(k)' <= RowTry(k) /\ RowTry(k)' \in {0, 1}
      <4>1. CASE row'[k[1]] = row[k[1]]
        <5>1. Orphaned(k)' => Orphaned(k)
          BY <1>3, <1>4, <2>1, <2>5 DEF Orphaned, LateOn
        <5> QED  BY <4>1, <5>1, RowTryKept
      <4>2. CASE row'[k[1]] # row[k[1]]
        <5>1. /\ k[1] = slot[s].job /\ row[k[1]].id = slot[s].id
              /\ row'[k[1]].id = row[k[1]].id
          BY <2>1, <2>2, <4>2 DEF Row
        <5>2. row[k[1]].id # k[2]
          BY <2>5, <5>1, KeyParts DEF Key
        <5> QED  BY <5>1, <5>2 DEF RowTry, Bit
      <4> QED  BY <4>1, <4>2
    <3> QED  BY <1>5, <1>8, <2>3, <3>1
  <2> QED  BY <2>4, <2>5
<1>10. CASE faults' = faults + 1 /\ UNCHANGED <<row, queue>>
  <2>1. Causes(k)' = Causes(k) + 1 /\ Retrying(k)' = Retrying(k)
    BY <1>5, <1>6, <1>10 DEF Causes, Retrying, Queued
  <2>2. RowTry(k)' \in {0, 1}
    BY DEF RowTry, Bit
  <2> QED  BY <1>5, <1>8, <2>1, <2>2
<1>11. ASSUME UNCHANGED <<row, faults>>, NEW w \in JobWrite, EndsWith(s, w)
       PROVE  RowTry(k)' + Retrying(k)' + Causes(k)
                  <= RowTry(k) + Bit(s \in Trying(k)) + Retrying(k) + Causes(k)'
  <2>1. queue' = Append(queue, w) /\ queue \in Seq(QueuedWrite) /\ w \in QueuedWrite
    BY <1>11 DEF EndsWith, TypeOK, QueuedWrite
  <2>2. Retrying(k)' = Retrying(k) + Bit(Is(w, k, "retry")) /\ Bit(Is(w, k, "retry")) \in {0, 1}
    BY <2>1, WritesOfAppend DEF Retrying, Queued, Bit
  <2>3. LateOn(k)' <=> LateOn(k) \/ OnKey(w, k)
    BY <2>1, OnKeyOfAppend DEF LateOn
  <2>4. OnKey(w, k) <=> k = Key(s)
    BY <1>11 DEF EndsWith, OnKey
  <2>5. Orphaned(k)' => Orphaned(k)
    BY <1>3, <1>4, <2>3, <2>4 DEF Orphaned
  <2>6. RowTry(k)' <= RowTry(k) /\ RowTry(k)' \in {0, 1}
    BY <1>11, <2>5, RowTryKept
  <2>7. Bit(Is(w, k, "retry")) <= Bit(s \in Trying(k))
    BY <1>4, <1>11, <2>4 DEF EndsWith, Is, Trying, Bit
  <2>8. Causes(k)' = Causes(k)
    BY <1>6, <1>11 DEF Causes
  <2> QED  BY <1>5, <1>8, <2>2, <2>6, <2>7, <2>8
<1> QED  BY <1>9, <1>10, <1>11, EndLetsGo

\* A slot lists a job, or claims it: the row's try becomes the slot's.
LEMMA ClaimBudget ==
  ASSUME TypeOK, TypeOK', NEW s \in Slots, ListPending(s) \/ Claim(s), NEW k \in Keys,
         Budget(k)
  PROVE  Budget(k)'
<1>0. /\ slot \in [Slots -> {Idle} \cup Task] /\ row \in [Jobs -> Row]
      /\ ~Working(s) /\ UNCHANGED <<queue, sends, faults, crashes>>
  BY DEF ListPending, Claim, At, Working, TypeOK
<1>1. \A t \in Slots \ {s} : slot'[t] = slot[t]
  <2>1. CASE ListPending(s)
    BY <1>0, <2>1 DEF ListPending
  <2>2. CASE Claim(s)
    BY <1>0, <2>2 DEF Claim, Goto, Release
  <2> QED  BY <2>1, <2>2
<1>2. \A t \in Slots \ {s} : BusyOn(t, k)' <=> BusyOn(t, k)
  BY <1>1 DEF BusyOn, Working, Key
<1>3. Trying(k)' \ {s} \subseteq Trying(k) /\ s \notin Trying(k) /\ ~BusyOn(s, k)
  BY <1>0, <1>1, <1>2 DEF Trying, BusyOn
<1>4. /\ sends[k] \in Nat /\ Causes(k) \in Nat /\ RowTry(k) \in {0, 1} /\ Retrying(k) \in Nat
      /\ Retrying(k)' = Retrying(k) /\ sends'[k] = sends[k]
  BY <1>0, Numbers DEF Retrying, Queued
<1>5. Orphaned(k)' => Orphaned(k)
  BY <1>0, <1>2, <1>3 DEF Orphaned, LateOn
<1>6. SUFFICES /\ RowTry(k)' + Bit(s \in Trying(k)') <= RowTry(k)
               /\ Causes(k)' = Causes(k)
  <2>1. Bit(s \in Trying(k)) = 0 /\ Bit(s \in Trying(k)') \in {0, 1}
    BY <1>3 DEF Bit
  <2>2. RowTry(k)' \in Nat
    BY DEF RowTry, Bit
  <2>3. sends'[k] + RowTry(k)' + Bit(s \in Trying(k)') + Retrying(k)' + Causes(k)
            <= sends[k] + RowTry(k) + Bit(s \in Trying(k)) + Retrying(k) + Causes(k)'
    BY <1>4, <1>6, <2>1, <2>2
  <2> QED  BY <1>3, <2>3, BudgetKept
<1>7. ASSUME UNCHANGED row, ~Working(s)'
      PROVE  /\ RowTry(k)' + Bit(s \in Trying(k)') <= RowTry(k)
             /\ Causes(k)' = Causes(k)
  <2>1. RowTry(k)' <= RowTry(k) /\ RowTry(k)' \in {0, 1}
    BY <1>5, <1>7, RowTryKept
  <2>2. Bit(s \in Trying(k)') = 0
    BY <1>7 DEF Trying, BusyOn, Bit
  <2> QED  BY <1>0, <1>4, <1>7, <2>1, <2>2 DEF Causes
<1>8. CASE ListPending(s)
  <2>1. UNCHANGED row /\ slot'[s].pc = "listed"
    BY <1>0, <1>8 DEF ListPending
  <2> QED  BY <1>7, <2>1 DEF Working
<1>9. CASE Claim(s)
  <2> DEFINE j == slot[s].job
  <2>1. slot[s].pc = "listed" /\ slot[s] \in Task /\ j \in Jobs /\ slot[s].id \in Id
    BY <1>0, <1>9 DEF Claim, At, Idle, Task
  <2>2. CASE row[j].status = "pending" /\ row[j].id = slot[s].id
    <3>1. row' = [row EXCEPT ![j].status = "dispatched"] /\ Goto(s, "begin")
      BY <1>9, <2>2 DEF Claim
    <3>2. /\ row'[j].status = "dispatched" /\ row'[j].id = row[j].id
          /\ \A i \in Jobs : row'[i].revived = row[i].revived
          /\ \A i \in Jobs \ {j} : row'[i] = row[i]
      BY <1>0, <2>1, <3>1 DEF Row
    <3>3. slot'[s].pc = "begin" /\ Key(s)' = Key(s)
      BY <2>1, <3>1, GotoMoves DEF Steps
    <3>4. Causes(k)' = Causes(k)
      BY <1>0, <3>2, KeyParts DEF Causes
    <3>5. CASE k = Key(s)
      <4>1. k[1] = j /\ k[2] = row[j].id
        BY <2>2, <3>5 DEF Key
      <4>2. RowTry(k) = 1
        BY <2>2, <4>1 DEF RowTry, Bit
      <4>3. BusyOn(s, k)'
        BY <3>3, <3>5 DEF BusyOn, Working
      <4>4. ~Orphaned(k)'
        BY <4>3 DEF Orphaned
      <4>5. RowTry(k)' = 0
        BY <3>2, <4>1, <4>4 DEF RowTry, Bit
      <4> QED  BY <3>4, <4>2, <4>5 DEF Bit
    <3>6. CASE k # Key(s)
      <4>1. Bit(s \in Trying(k)') = 0
        BY <3>3, <3>6 DEF Trying, BusyOn, Bit
      <4>2. RowTry(k)' <= RowTry(k) /\ RowTry(k)' \in {0, 1}
        <5>1. CASE k[1] # j
          <6>1. row'[k[1]] = row[k[1]]
            BY <3>2, <5>1, KeyParts
          <6> QED  BY <1>5, <6>1, RowTryKept
        <5>2. CASE k[1] = j
          <6>1. row[j].id # k[2]
            BY <2>2, <3>6, <5>2, KeyParts DEF Key
          <6> QED  BY <3>2, <5>2, <6>1 DEF RowTry, Bit
        <5> QED  BY <5>1, <5>2
      <4> QED  BY <1>4, <3>4, <4>1, <4>2
    <3> QED  BY <3>5, <3>6
  <2>3. CASE ~(row[j].status = "pending" /\ row[j].id = slot[s].id)
    <3>1. UNCHANGED row /\ Release(s)
      BY <1>9, <2>3 DEF Claim
    <3>2. ~Working(s)'
      BY <3>1, ReleaseIdles DEF Working
    <3> QED  BY <1>7, <3>1, <3>2
  <2> QED  BY <2>2, <2>3
<1> QED  BY <1>8, <1>9

\* No slot moves: what the row and the queue gain is a cause.
LEMMA RestBudget ==
  ASSUME TypeOK, TypeOK', UNCHANGED <<slot, sends>>, NEW k \in Keys, Budget(k),
         RowTry(k)' + Retrying(k)' + Causes(k) <= RowTry(k) + Retrying(k) + Causes(k)'
  PROVE  Budget(k)'
<1>1. Trying(k)' = Trying(k)
  BY DEF Trying, BusyOn, Working, Key
<1>2. /\ sends[k] \in Nat /\ Causes(k) \in Nat /\ RowTry(k) \in Nat /\ Retrying(k) \in Nat
      /\ sends'[k] = sends[k]
  BY Numbers
<1>3. RowTry(k)' \in Nat /\ Retrying(k)' \in Nat /\ Causes(k)' \in Nat
  <2>1. queue' \in Seq(QueuedWrite) /\ StartedWrite \in QueuedWrite
    BY DEF TypeOK, QueuedWrite
  <2>2. Retrying(k)' \in Nat
    BY <2>1, WritesOfAppend DEF Retrying, Queued
  <2>3. RowTry(k)' \in Nat
    BY DEF RowTry, Bit
  <2>4. row'[k[1]] \in Row /\ faults' \in Nat /\ crashes' \in Nat
    BY KeyParts, DeliveryAssumption DEF TypeOK
  <2>5. Causes(k)' \in Nat
    BY <2>4 DEF Causes, Row
  <2> QED  BY <2>2, <2>3, <2>5
<1>4. k \in Trying(k)' <=> k \in Trying(k)
  BY <1>1
<1>5. Bit(k \in Trying(k)') = Bit(k \in Trying(k)) /\ Bit(k \in Trying(k)) \in {0, 1}
  BY <1>4 DEF Bit
<1>6. sends'[k] + RowTry(k)' + Bit(k \in Trying(k)') + Retrying(k)' + Causes(k)
            <= sends[k] + RowTry(k) + Bit(k \in Trying(k)) + Retrying(k) + Causes(k)'
  BY <1>2, <1>3, <1>5
<1> QED  BY <1>1, <1>6, BudgetKept

\* Whoever is late or busy, when neither slots nor the queue move.
LEMMA OrphanedKept ==
  ASSUME UNCHANGED <<slot, queue>>, NEW k
  PROVE  Orphaned(k)' <=> Orphaned(k)
BY DEF Orphaned, LateOn, BusyOn, Working, Key

\* Steps of the rows: nothing is tried more often, unless the reclaim is early.
LEMMA RowBudget ==
  ASSUME TypeOK, TypeOK', NEW k \in Keys, Budget(k),
         \/ \E j \in Jobs : Enqueue(j) \/ AssignCrdbId(j) \/ Reclaim(j)
         \/ ReactivateWaiting
  PROVE  Budget(k)'
<1>0. /\ row \in [Jobs -> Row] /\ UNCHANGED <<slot, queue, sends, crashes>>
      /\ k[1] \in Jobs /\ k[2] \in Id /\ row[k[1]] \in Row
      /\ faults \in Nat /\ crashes \in Nat /\ RowTry(k) \in {0, 1} /\ Retrying(k) \in Nat
  BY Numbers, KeyParts DEF TypeOK, Enqueue, AssignCrdbId, Reclaim, ReactivateWaiting
<1>1. Retrying(k)' = Retrying(k) /\ (Orphaned(k)' <=> Orphaned(k))
  BY <1>0, OrphanedKept DEF Retrying, Queued
<1>2. RowTry(k)' \in {0, 1}
  BY DEF RowTry, Bit
<1>3. ASSUME row'[k[1]].revived = row[k[1]].revived,
             \/ faults' = faults /\ RowTry(k)' <= RowTry(k)
             \/ faults' = faults + 1
      PROVE  Budget(k)'
  <2>1. /\ Causes(k) \in Nat
        /\ \/ Causes(k)' = Causes(k) /\ RowTry(k)' <= RowTry(k)
           \/ Causes(k)' = Causes(k) + 1
    BY <1>0, <1>3 DEF Causes, Row
  <2>2. RowTry(k)' + Retrying(k)' + Causes(k) <= RowTry(k) + Retrying(k) + Causes(k)'
    BY <1>0, <1>1, <1>2, <2>1
  <2> QED  BY <1>0, <2>2, RestBudget
<1>4. CASE row'[k[1]] = row[k[1]] /\ faults' = faults
  <2>1. RowTry(k)' <= RowTry(k)
    BY <1>1, <1>4, RowTryKept
  <2> QED  BY <1>3, <1>4, <2>1
<1>5. ASSUME NEW j \in Jobs, Enqueue(j) PROVE Budget(k)'
  <2>1. CASE k[1] # j
    BY <1>0, <1>4, <1>5, <2>1 DEF Enqueue
  <2>2. CASE k[1] = j
    <3>1. /\ row'[j].id = row[j].id /\ row'[j].revived = row[j].revived
          /\ row'[j].status = "pending" /\ row[j].status = "none" /\ faults' = faults
      BY <1>0, <1>5, <2>2 DEF Enqueue, Row
    <3>2. RowTry(k)' <= RowTry(k)
      BY <2>2, <3>1 DEF RowTry, Bit
    <3> QED  BY <1>3, <2>2, <3>1, <3>2
  <2> QED  BY <2>1, <2>2
<1>6. ASSUME NEW j \in Jobs, AssignCrdbId(j) PROVE Budget(k)'
  <2>1. CASE k[1] # j
    BY <1>0, <1>4, <1>6, <2>1 DEF AssignCrdbId
  <2>2. CASE k[1] = j
    <3>1. /\ row'[j].id = "crdb" /\ row[j].id = "local"
          /\ row'[j].revived = row[j].revived /\ faults' = faults
      BY <1>0, <1>6, <2>2 DEF AssignCrdbId, Row
    <3>2. RowTry(k)' <= RowTry(k)
      <4>1. CASE k[2] = "local"
        <5>1. RowTry(k)' = 0
          BY <2>2, <3>1, <4>1 DEF RowTry, Bit
        <5> QED  BY <1>0, <5>1
      <4>2. CASE k[2] = "crdb"
        <5>1. RowTry(k) = 1
          BY <2>2, <3>1, <4>2 DEF RowTry, Bit
        <5> QED  BY <1>2, <5>1
      <4> QED  BY <1>0, <4>1, <4>2 DEF Id
    <3> QED  BY <1>3, <2>2, <3>1, <3>2
  <2> QED  BY <2>1, <2>2
<1>7. ASSUME NEW j \in Jobs, Reclaim(j) PROVE Budget(k)'
  <2>0. Charge(~Busy(j) /\ ~Late(j))
    BY <1>7 DEF Reclaim
  <2>1. /\ row'[k[1]].revived = row[k[1]].revived /\ row'[k[1]].id = row[k[1]].id
        /\ k[1] # j => row'[k[1]] = row[k[1]]
        /\ k[1] = j => row'[k[1]].status = "pending" /\ row[k[1]].status = "dispatched"
    BY <1>0, <1>7 DEF Reclaim, Row
  <2>2. CASE Busy(j) \/ Late(j)
    <3>1. faults' = faults + 1
      BY <2>0, <2>2 DEF Charge
    <3> QED  BY <1>3, <2>1, <3>1
  <2>3. CASE ~Busy(j) /\ ~Late(j)
    <3>1. faults' = faults
      BY <2>0, <2>3 DEF Charge
    <3>2. CASE k[1] # j
      BY <1>4, <2>1, <3>1, <3>2
    <3>3. CASE k[1] = j
      <4>1. ~LateOn(k)
        BY <2>3, <3>3 DEF Late, LateOn, OnKey
      <4>2. \A s \in Slots : ~BusyOn(s, k)
        BY <2>3, <3>3 DEF Busy, BusyOn, Working, Key, At
      <4>3. Orphaned(k)
        BY <4>1, <4>2 DEF Orphaned
      <4>4. RowTry(k)' <= RowTry(k)
        BY <2>1, <3>3, <4>3 DEF RowTry, Bit
      <4> QED  BY <1>3, <2>1, <3>1, <4>4
    <3> QED  BY <3>2, <3>3
  <2> QED  BY <2>2, <2>3
<1>8. CASE ReactivateWaiting
  <2>1. faults' = faults
    BY <1>8 DEF ReactivateWaiting
  <2>2. \/ row'[k[1]] = row[k[1]]
        \/ /\ row[k[1]].status = "waiting_start"
           /\ row'[k[1]] = [row[k[1]] EXCEPT !.status = "pending"]
    BY <1>0, <1>8 DEF ReactivateWaiting
  <2>3. CASE row[k[1]].status = "waiting_start"
             /\ row'[k[1]] = [row[k[1]] EXCEPT !.status = "pending"]
    <3>1. /\ row'[k[1]].id = row[k[1]].id /\ row'[k[1]].revived = row[k[1]].revived
          /\ row'[k[1]].status = "pending"
      BY <1>0, <2>3 DEF Row
    <3>2. RowTry(k)' <= RowTry(k)
      BY <2>3, <3>1 DEF RowTry, Bit
    <3> QED  BY <1>3, <2>1, <3>1, <3>2
  <2> QED  BY <1>4, <2>1, <2>2, <2>3
<1> QED  BY <1>5, <1>6, <1>7, <1>8

\* What an executed write does to the row of a key: what its operation says if the
\* write and the row are both of that key, else nothing, or not to this key.
LEMMA ExecutedOn ==
  ASSUME TypeOK, ApplyWrite, NEW k \in Keys
  PROVE  /\ queue # <<>> /\ queue' = Tail(queue) /\ Head(queue) \in QueuedWrite
         /\ UNCHANGED <<slot, sends, receipts, faults, crashes>>
         /\ row[k[1]] \in Row /\ row'[k[1]].id = row[k[1]].id
         /\ row'[k[1]].revived \in Nat /\ row'[k[1]].revived >= row[k[1]].revived
         /\ IF OnKey(Head(queue), k) /\ row[k[1]].id = k[2]
            THEN /\ Head(queue).op \in {"done", "dead", "retry", "revive"}
                 /\ row'[k[1]] = Updated(row[k[1]], Head(queue))
            ELSE row'[k[1]] = row[k[1]] \/ row[k[1]].id # k[2]
<1> DEFINE w == Head(queue)
<1>1. /\ queue # <<>> /\ queue' = Tail(queue) /\ w \in QueuedWrite
      /\ UNCHANGED <<slot, sends, receipts, faults, crashes>>
      /\ k[1] \in Jobs /\ row[k[1]] \in Row /\ row \in [Jobs -> Row]
      /\ row[k[1]].revived \in Nat
  BY KeyParts DEF ApplyWrite, TypeOK, Row
<1>2. CASE w.op = "started"
  <2>1. row' = row
    BY <1>2 DEF ApplyWrite
  <2> QED  BY <1>1, <1>2, <2>1 DEF OnKey
<1>3. CASE w.op # "started"
  <2>1. w \in JobWrite
    BY <1>1, <1>3 DEF QueuedWrite, StartedWrite
  <2>2. row' = IF row[w.job].id = w.id THEN [row EXCEPT ![w.job] = Updated(@, w)] ELSE row
    BY <1>3 DEF ApplyWrite
  <2>3. w.job \in Jobs /\ w.op \in {"done", "dead", "retry", "revive"}
    BY <2>1 DEF JobWrite
  <2>4. OnKey(w, k) <=> w.job = k[1] /\ w.id = k[2]
    BY <1>3, KeyParts DEF OnKey
  <2>5. CASE w.job = k[1] /\ row[k[1]].id = w.id
    <3>1. row'[k[1]] = Updated(row[k[1]], w)
      BY <1>1, <2>2, <2>5
    <3>2. /\ Updated(row[k[1]], w).id = row[k[1]].id
          /\ Updated(row[k[1]], w).revived \in Nat
          /\ Updated(row[k[1]], w).revived >= row[k[1]].revived
      <4>1. CASE w.op \in {"done", "dead"}
        BY <1>1, <4>1 DEF Updated, Row
      <4>2. CASE w.op = "retry"
        BY <1>1, <4>2 DEF Updated, Row
      <4>3. CASE w.op = "revive"
        BY <1>1, <4>3 DEF Updated, Row
      <4> QED  BY <2>3, <4>1, <4>2, <4>3
    <3> QED  BY <1>1, <2>3, <2>4, <2>5, <3>1, <3>2
  <2>6. CASE ~(w.job = k[1] /\ row[k[1]].id = w.id)
    <3>1. row'[k[1]] = row[k[1]]
      BY <1>1, <2>2, <2>3, <2>6
    <3> QED  BY <1>1, <2>4, <2>6, <3>1
  <2> QED  BY <2>5, <2>6
<1> QED  BY <1>2, <1>3

\* Steps of the queue: an executed retry gives its try back to the row, a revival and a
\* delayed or lost write are causes.
LEMMA QueueBudget ==
  ASSUME TypeOK, TypeOK', NEW k \in Keys, Budget(k),
         ApplyWrite \/ DelayWrite \/ SendStart \/ \E j \in Jobs : ReviveDead(j)
  PROVE  Budget(k)'
<1>0. /\ row[k[1]] \in Row /\ queue \in Seq(QueuedWrite) /\ row[k[1]].revived \in Nat
      /\ faults \in Nat /\ crashes \in Nat /\ Causes(k) \in Nat
      /\ RowTry(k) \in {0, 1} /\ Retrying(k) \in Nat
      /\ UNCHANGED <<slot, sends, crashes>>
  BY Numbers, KeyParts
  DEF TypeOK, Row, ApplyWrite, DelayWrite, SendStart, ReviveDead
<1>1. RowTry(k)' \in {0, 1}
  BY DEF RowTry, Bit
<1>2. \A t \in Slots : BusyOn(t, k)' <=> BusyOn(t, k)
  BY <1>0 DEF BusyOn, Working, Key
<1>3. CASE ApplyWrite
  <2> DEFINE w == Head(queue)
  <2>0. /\ queue # <<>> /\ queue' = Tail(queue) /\ w \in QueuedWrite
        /\ UNCHANGED faults
    BY <1>3, ExecutedOn
  <2>1. /\ Retrying(k)' \in Nat /\ Bit(Is(w, k, "retry")) \in {0, 1}
        /\ Retrying(k)' + Bit(Is(w, k, "retry")) <= Retrying(k)
    BY <1>0, <2>0, WritesOfTail DEF Retrying, Queued, Bit
  <2>2. /\ Causes(k)' \in Nat /\ Causes(k)' >= Causes(k)
        /\ row'[k[1]].revived = row[k[1]].revived + 1 => Causes(k)' = Causes(k) + 1
    <3>1. row'[k[1]].revived \in Nat /\ row'[k[1]].revived >= row[k[1]].revived
      BY <1>3, ExecutedOn
    <3> QED  BY <1>0, <2>0, <3>1 DEF Causes
  <2>3. RowTry(k)' + Retrying(k)' + Causes(k) <= RowTry(k) + Retrying(k) + Causes(k)'
    <3>1. CASE OnKey(w, k) /\ row[k[1]].id = k[2]
      <4>1. /\ row'[k[1]] = Updated(row[k[1]], w)
            /\ w.op \in {"done", "dead", "retry", "revive"}
        BY <1>3, <3>1, ExecutedOn
      <4>2. CASE w.op \in {"done", "dead"}
        <5>1. row'[k[1]].status \in {"done", "dead"} /\ row'[k[1]].id = k[2]
          BY <1>0, <3>1, <4>1, <4>2 DEF Updated, Row
        <5>2. RowTry(k)' = 0
          BY <5>1 DEF RowTry, Bit
        <5> QED  BY <1>0, <2>1, <2>2, <5>2
      <4>3. CASE w.op = "retry"
        <5>1. Bit(Is(w, k, "retry")) = 1
          BY <3>1, <4>3 DEF Is, Bit
        <5> QED  BY <1>0, <1>1, <2>1, <2>2, <5>1
      <4>4. CASE w.op = "revive"
        <5>1. row'[k[1]].revived = row[k[1]].revived + 1
          BY <1>0, <4>1, <4>4 DEF Updated, Row
        <5> QED  BY <1>0, <1>1, <2>1, <2>2, <5>1
      <4> QED  BY <4>1, <4>2, <4>3, <4>4
    <3>2. CASE row[k[1]].id # k[2]
      <4>1. row'[k[1]].id = row[k[1]].id
        BY <1>3, ExecutedOn
      <4>2. RowTry(k)' = RowTry(k)
        BY <3>2, <4>1 DEF RowTry
      <4> QED  BY <1>0, <1>1, <2>1, <2>2, <4>2
    <3>3. CASE ~OnKey(w, k) /\ row[k[1]].id = k[2]
      <4>1. row'[k[1]] = row[k[1]]
        BY <1>3, <3>3, ExecutedOn
      <4>2. LateOn(k) => LateOn(k)'
        BY <1>0, <2>0, <3>3, OnKeyOfTail DEF LateOn
      <4>3. Orphaned(k)' => Orphaned(k)
        BY <1>2, <4>2 DEF Orphaned
      <4>4. RowTry(k)' <= RowTry(k)
        BY <4>1, <4>3, RowTryKept
      <4> QED  BY <1>0, <1>1, <2>1, <2>2, <4>4
    <3> QED  BY <3>1, <3>2, <3>3
  <2> QED  BY <1>0, <2>3, RestBudget
<1>4. CASE DelayWrite
  <2>1. /\ queue # <<>> /\ faults' = faults + 1 /\ row' = row
        /\ queue' \in {Append(Tail(queue), Head(queue)), Tail(queue)}
    BY <1>4 DEF DelayWrite, Charge
  <2>2. Tail(queue) \in Seq(QueuedWrite) /\ Head(queue) \in QueuedWrite
    BY <1>0, <2>1
  <2>3. /\ Cardinality(Among(Tail(queue), k, "retry")) \in Nat
        /\ Bit(Is(Head(queue), k, "retry")) \in {0, 1}
        /\ Cardinality(Among(Tail(queue), k, "retry")) + Bit(Is(Head(queue), k, "retry"))
              <= Cardinality(Among(queue, k, "retry"))
    BY <1>0, <2>1, WritesOfTail DEF Bit
  <2>4. Cardinality(Among(Append(Tail(queue), Head(queue)), k, "retry"))
           = Cardinality(Among(Tail(queue), k, "retry")) + Bit(Is(Head(queue), k, "retry"))
    BY <2>2, WritesOfAppend
  <2>5. Retrying(k)' \in Nat /\ Retrying(k)' <= Retrying(k)
    <3>1. /\ Retrying(k) = Cardinality(Among(queue, k, "retry"))
          /\ Retrying(k)' = Cardinality(Among(queue', k, "retry"))
      BY DEF Retrying, Queued, Among
    <3>2. CASE queue' = Append(Tail(queue), Head(queue))
      BY <2>3, <2>4, <3>1, <3>2
    <3>3. CASE queue' = Tail(queue)
      BY <1>0, <2>3, <3>1, <3>3
    <3> QED  BY <2>1, <3>2, <3>3
  <2>6. Causes(k)' = Causes(k) + 1
    BY <1>0, <2>1 DEF Causes
  <2>7. RowTry(k)' + Retrying(k)' + Causes(k) <= RowTry(k) + Retrying(k) + Causes(k)'
    BY <1>0, <1>1, <2>5, <2>6
  <2> QED  BY <1>0, <2>7, RestBudget
<1>5. CASE SendStart \/ \E j \in Jobs : ReviveDead(j)
  <2>1. /\ row' = row /\ faults' \in {faults, faults + 1}
        /\ \E w \in QueuedWrite : queue' = Append(queue, w) /\ w.op # "retry"
    <3>1. CASE SendStart
      BY <3>1 DEF SendStart, Push, QueuedWrite, StartedWrite
    <3>2. ASSUME NEW j \in Jobs, ReviveDead(j)
          PROVE  /\ row' = row /\ faults' \in {faults, faults + 1}
                 /\ \E w \in QueuedWrite : queue' = Append(queue, w) /\ w.op # "retry"
      <4>1. row[j].id \in Id
        BY DEF TypeOK, Row
      <4>2. Write("revive", j, row[j].id, 0) \in QueuedWrite
        BY <4>1, ZeroRetries DEF Write, QueuedWrite, JobWrite
      <4>3. Write("revive", j, row[j].id, 0).op # "retry"
        BY DEF Write
      <4> QED  BY <3>2, <4>2, <4>3 DEF ReviveDead, Push, Charge
    <3> QED  BY <1>5, <3>1, <3>2
  <2> PICK w \in QueuedWrite : queue' = Append(queue, w) /\ w.op # "retry"
    BY <2>1
  <2>2. Retrying(k)' = Retrying(k)
    BY <1>0, WritesOfAppend DEF Retrying, Queued, Is, Bit
  <2>3. LateOn(k) => LateOn(k)'
    BY <1>0, OnKeyOfAppend DEF LateOn
  <2>4. RowTry(k)' <= RowTry(k)
    <3>1. Orphaned(k)' => Orphaned(k)
      BY <1>2, <2>3 DEF Orphaned
    <3> QED  BY <2>1, <3>1, RowTryKept
  <2>5. Causes(k)' \in {Causes(k), Causes(k) + 1}
    BY <1>0, <2>1 DEF Causes
  <2>6. RowTry(k)' + Retrying(k)' + Causes(k) <= RowTry(k) + Retrying(k) + Causes(k)'
    BY <1>0, <1>1, <2>2, <2>4, <2>5
  <2> QED  BY <1>0, <2>6, RestBudget
<1> QED  BY <1>3, <1>4, <1>5

\* A crash takes every try of the slots; what it orphans is one more cause.
LEMMA CrashBudget ==
  ASSUME TypeOK, Crash, NEW k \in Keys, Budget(k)
  PROVE  Budget(k)'
<1>1. /\ UNCHANGED <<row, queue, sends, faults>> /\ crashes' = crashes + 1
      /\ \A s \in Slots : slot'[s].pc = "idle"
  BY DEF Crash, Idle
<1>2. Trying(k)' = {}
  BY <1>1 DEF Trying, BusyOn, Working
<1>3. IsFiniteSet(Trying(k)) /\ Cardinality(Trying(k)) \in Nat
  BY FS_CardinalityType DEF Budget
<1>4. IsFiniteSet(Trying(k)') /\ Cardinality(Trying(k)') = 0
  BY <1>2, FS_EmptySet
<1>5. /\ sends[k] \in Nat /\ Causes(k) \in Nat /\ faults \in Nat /\ crashes \in Nat
      /\ RowTry(k) \in {0, 1} /\ Retrying(k) \in Nat /\ row[k[1]].revived \in Nat
  BY Numbers, KeyParts DEF TypeOK, Row
<1>6. /\ Retrying(k)' = Retrying(k) /\ sends'[k] = sends[k] /\ Causes(k)' = Causes(k) + 1
      /\ RowTry(k)' \in {0, 1}
  BY <1>1, <1>5 DEF Retrying, Queued, Causes, RowTry, Bit
<1>7. sends[k] + RowTry(k) + Cardinality(Trying(k)) + Retrying(k) <= 1 + Causes(k)
  BY DEF Budget
<1>8. sends'[k] + RowTry(k)' + Cardinality(Trying(k)') + Retrying(k)' <= 1 + Causes(k)'
  BY <1>3, <1>4, <1>5, <1>6, <1>7
<1> QED  BY <1>4, <1>8 DEF Budget

\* Nothing that Budget speaks of moves when the variables do not.
LEMMA StutterBudget ==
  ASSUME UNCHANGED vars, NEW k, Budget(k)
  PROVE  Budget(k)'
BY DEF vars, Budget, RowTry, Orphaned, LateOn, Trying, BusyOn, Working, Key, Retrying, Queued,
       Among, Causes

LEMMA BudgetStep ==
  ASSUME TypeOK, TypeOK', [Next]_vars, NEW k \in Keys, Budget(k)
  PROVE  Budget(k)'
<1>1. CASE UNCHANGED vars
  BY <1>1, StutterBudget
<1>2. CASE ApplyWrite \/ DelayWrite \/ SendStart \/ ReactivateWaiting \/ Crash
  BY <1>2, QueueBudget, RowBudget, CrashBudget
<1>3. CASE \E j \in Jobs : Enqueue(j) \/ AssignCrdbId(j) \/ Reclaim(j) \/ ReviveDead(j)
  BY <1>3, QueueBudget, RowBudget
<1>4. ASSUME NEW s \in Slots, SlotStep(s) \/ SendUnseen(s) \/ SendRaises(s)
      PROVE  Budget(k)'
  <2>1. (ListPending(s) \/ Claim(s)) \/ Attempt(s) \/ Ends(s)
    BY <1>4 DEF SlotStep, Attempt, Ends
  <2> QED  BY <2>1, ClaimBudget, AttemptBudget, EndBudget
<1> QED  BY <1>1, <1>2, <1>3, <1>4 DEF Next

LEMMA BudgetInit ==
  ASSUME Init, NEW k \in Keys
  PROVE  Budget(k)
<1>1. Trying(k) = {} /\ Among(queue, k, "retry") = {} /\ sends[k] = 0
  BY DEF Init, Trying, BusyOn, Working, Idle, Among
<1>2. RowTry(k) \in {0, 1}
  BY DEF RowTry, Bit
<1>3. Causes(k) = 0
  BY KeyParts DEF Init, Causes
<1>4. IsFiniteSet({}) /\ Cardinality({}) = 0
  BY FS_EmptySet
<1> QED  BY <1>1, <1>2, <1>3, <1>4 DEF Budget, Retrying, Queued

-----------------------------------------------------------------------------
(* One holder of a key.  As long as no call failed, a slot that works under *)
(* a job id is the only one, and no write under that id is queued: a claim *)
(* needs a pending row, and a row is pending only when nobody holds it.    *)

LoneIn(q, k) == \A i, j \in DOMAIN q : OnKey(q[i], k) /\ OnKey(q[j], k) => i = j

Alone(k) ==
    LET r == row[k[1]]
    IN  /\ \A s, t \in Slots : BusyOn(s, k) /\ BusyOn(t, k) => s = t
        /\ LoneIn(queue, k)
        /\ \A s \in Slots : BusyOn(s, k) =>
              ~LateOn(k) /\ (r.id = k[2] => r.status = "dispatched")
        /\ LateOn(k) /\ r.id = k[2] => r.status \in {"dispatched", "dead"}
        /\ k[2] = "crdb" /\ r.id = "local" => Orphaned(k)

LEMMA LoneOfAppend ==
  ASSUME NEW q \in Seq(QueuedWrite), NEW w \in QueuedWrite, NEW k, LoneIn(q, k),
         OnKey(w, k) => \A i \in DOMAIN q : ~OnKey(q[i], k)
  PROVE  LoneIn(Append(q, w), k)
<1>1. /\ DOMAIN Append(q, w) = DOMAIN q \cup {Len(q) + 1}
      /\ \A i \in DOMAIN q : Append(q, w)[i] = q[i]
      /\ Append(q, w)[Len(q) + 1] = w
  OBVIOUS
<1> QED  BY <1>1 DEF LoneIn

LEMMA LoneOfTail ==
  ASSUME NEW q \in Seq(QueuedWrite), q # <<>>, NEW k, LoneIn(q, k)
  PROVE  /\ LoneIn(Tail(q), k)
         /\ OnKey(Head(q), k) => \A i \in DOMAIN Tail(q) : ~OnKey(Tail(q)[i], k)
<1>1. /\ Len(q) \in Nat \ {0} /\ Head(q) = q[1] /\ 1 \in DOMAIN q
      /\ \A i \in DOMAIN Tail(q) :
            i \in Nat \ {0} /\ i + 1 \in DOMAIN q /\ Tail(q)[i] = q[i + 1]
  OBVIOUS
<1>2. ASSUME NEW i \in DOMAIN Tail(q), NEW j \in DOMAIN Tail(q),
             OnKey(Tail(q)[i], k), OnKey(Tail(q)[j], k)
      PROVE  i = j
  <2>1. i + 1 = j + 1
    BY <1>1, <1>2 DEF LoneIn
  <2> QED  BY <1>1, <2>1
<1>3. ASSUME OnKey(Head(q), k), NEW i \in DOMAIN Tail(q), OnKey(Tail(q)[i], k)
      PROVE  FALSE
  <2>1. i + 1 = 1
    BY <1>1, <1>3 DEF LoneIn
  <2> QED  BY <1>1, <2>1
<1> QED  BY <1>2, <1>3 DEF LoneIn

\* An orphaned key is nobody's, whatever its row says.
LEMMA OrphanAlone ==
  ASSUME NEW k, Orphaned(k)
  PROVE  Alone(k)
BY DEF Orphaned, Alone, LoneIn, LateOn

\* Who holds a key that is not held more than before, under a row that is not written.
LEMMA AloneKept ==
  ASSUME NEW k, Alone(k), row'[k[1]] = row[k[1]],
         \A t \in Slots : BusyOn(t, k)' => BusyOn(t, k),
         LateOn(k)' => LateOn(k), LoneIn(queue', k)
  PROVE  Alone(k)'
<1>1. \A s, t \in Slots : BusyOn(s, k)' /\ BusyOn(t, k)' => s = t
  BY DEF Alone
<1>2. LoneIn(queue, k)'
  BY DEF LoneIn
<1>3. \A s \in Slots : BusyOn(s, k)' =>
         ~LateOn(k)' /\ (row'[k[1]].id = k[2] => row'[k[1]].status = "dispatched")
  BY DEF Alone
<1>4. LateOn(k)' /\ row'[k[1]].id = k[2] => row'[k[1]].status \in {"dispatched", "dead"}
  BY DEF Alone
<1>5. k[2] = "crdb" /\ row'[k[1]].id = "local" => Orphaned(k)'
  BY DEF Alone, Orphaned
<1> QED  BY <1>1, <1>2, <1>3, <1>4, <1>5 DEF Alone

\* A row that is under the other id before and after holds nothing against the key.
LEMMA AloneElsewhere ==
  ASSUME NEW k, Alone(k), row'[k[1]].id = row[k[1]].id, row[k[1]].id # k[2],
         \A t \in Slots : BusyOn(t, k)' => BusyOn(t, k),
         LateOn(k)' => LateOn(k), LoneIn(queue', k)
  PROVE  Alone(k)'
<1>1. \A s, t \in Slots : BusyOn(s, k)' /\ BusyOn(t, k)' => s = t
  BY DEF Alone
<1>2. LoneIn(queue, k)'
  BY DEF LoneIn
<1>3. \A s \in Slots : BusyOn(s, k)' => ~LateOn(k)'
  BY DEF Alone
<1>4. k[2] = "crdb" /\ row'[k[1]].id = "local" => Orphaned(k)'
  BY DEF Alone, Orphaned
<1> QED  BY <1>1, <1>2, <1>3, <1>4 DEF Alone

LEMMA AttemptAlone ==
  ASSUME TypeOK, NEW s \in Slots, Attempt(s), NEW k \in Keys, Alone(k)
  PROVE  Alone(k)'
<1>1. OnTheJob(s)
  BY AttemptKeeps
<1>2. \A t \in Slots : BusyOn(t, k)' <=> BusyOn(t, k)
  BY <1>1 DEF OnTheJob, BusyOn, Working, Key
<1>3. /\ LateOn(k)' <=> LateOn(k)
      /\ LoneIn(queue', k) /\ row'[k[1]] = row[k[1]]
  BY <1>1 DEF OnTheJob, LateOn, Alone
<1> QED  BY <1>2, <1>3, AloneKept

LEMMA ClaimAlone ==
  ASSUME TypeOK, NEW s \in Slots, ListPending(s) \/ Claim(s), NEW k \in Keys, Alone(k)
  PROVE  Alone(k)'
<1>0. /\ slot \in [Slots -> {Idle} \cup Task] /\ row \in [Jobs -> Row]
      /\ ~Working(s) /\ UNCHANGED queue /\ LoneIn(queue', k)
  BY DEF ListPending, Claim, At, Working, TypeOK, Alone
<1>1. \A t \in Slots \ {s} : slot'[t] = slot[t]
  <2>1. CASE ListPending(s)
    BY <1>0, <2>1 DEF ListPending
  <2>2. CASE Claim(s)
    BY <1>0, <2>2 DEF Claim, Goto, Release
  <2> QED  BY <2>1, <2>2
<1>2. /\ \A t \in Slots \ {s} : BusyOn(t, k)' <=> BusyOn(t, k)
      /\ ~BusyOn(s, k) /\ (LateOn(k)' <=> LateOn(k))
  BY <1>0, <1>1 DEF BusyOn, Working, Key, LateOn
<1>3. CASE UNCHANGED row /\ ~BusyOn(s, k)'
  BY <1>0, <1>2, <1>3, AloneKept
<1>4. CASE ListPending(s)
  <2>1. UNCHANGED row /\ slot'[s].pc = "listed"
    BY <1>0, <1>4 DEF ListPending
  <2> QED  BY <1>3, <2>1 DEF BusyOn, Working
<1>5. CASE Claim(s)
  <2> DEFINE j == slot[s].job
  <2>1. slot[s].pc = "listed" /\ slot[s] \in Task /\ j \in Jobs
    BY <1>0, <1>5 DEF Claim, At, Idle, Task
  <2>2. CASE row[j].status = "pending" /\ row[j].id = slot[s].id
    <3>1. row' = [row EXCEPT ![j].status = "dispatched"] /\ Goto(s, "begin")
      BY <1>5, <2>2 DEF Claim
    <3>2. /\ row'[j].status = "dispatched" /\ row'[j].id = row[j].id
          /\ \A i \in Jobs \ {j} : row'[i] = row[i]
      BY <1>0, <2>1, <3>1 DEF Row
    <3>3. slot'[s].pc = "begin" /\ Key(s)' = Key(s)
      BY <2>1, <3>1, GotoMoves DEF Steps
    <3>4. CASE k = Key(s)
      <4>1. k[1] = j /\ k[2] = row[j].id
        BY <2>2, <3>4 DEF Key
      <4>2. ~LateOn(k) /\ \A t \in Slots : ~BusyOn(t, k)
        BY <2>2, <4>1 DEF Alone
      <4>3. ~LateOn(k)' /\ \A t \in Slots : BusyOn(t, k)' => t = s
        BY <1>2, <4>2
      <4>4. LoneIn(queue, k)'
        BY <1>0 DEF LoneIn
      <4>5. k[2] # "crdb" \/ row'[k[1]].id # "local"
        BY <3>2, <4>1
      <4> QED  BY <3>2, <4>1, <4>3, <4>4, <4>5 DEF Alone
    <3>5. CASE k # Key(s)
      <4>1. ~BusyOn(s, k)'
        BY <3>3, <3>5 DEF BusyOn
      <4>2. \/ row'[k[1]] = row[k[1]]
            \/ row'[k[1]].id = row[k[1]].id /\ row[k[1]].id # k[2]
        BY <2>2, <3>2, <3>5, KeyParts DEF Key
      <4> QED  BY <1>0, <1>2, <4>1, <4>2, AloneKept, AloneElsewhere
    <3> QED  BY <3>4, <3>5
  <2>3. CASE ~(row[j].status = "pending" /\ row[j].id = slot[s].id)
    <3>1. UNCHANGED row /\ Release(s)
      BY <1>5, <2>3 DEF Claim
    <3>2. ~BusyOn(s, k)'
      BY <3>1, ReleaseIdles DEF BusyOn, Working
    <3> QED  BY <1>3, <3>1, <3>2
  <2> QED  BY <2>2, <2>3
<1> QED  BY <1>4, <1>5

\* The slot that lets go was alone: its write, if it made one, is alone after it.
LEMMA EndAlone ==
  ASSUME TypeOK, faults' = 0, NEW s \in Slots, Ends(s), NEW k \in Keys, Alone(k)
  PROVE  Alone(k)'
<1>1. LetsGo(s)
  BY EndLetsGo
<1>2. /\ \A t \in Slots \ {s} : BusyOn(t, k)' <=> BusyOn(t, k)
      /\ ~BusyOn(s, k)' /\ (BusyOn(s, k) <=> k = Key(s))
  BY <1>1 DEF LetsGo, BusyOn, Working, Key
<1>3. LoneIn(queue, k) /\ queue \in Seq(QueuedWrite) /\ faults \in Nat
      /\ row \in [Jobs -> Row]
  BY DEF Alone, TypeOK
<1>4. CASE MarkWaiting(s)
  <2> DEFINE j == slot[s].job
  <2>1. /\ UNCHANGED queue /\ slot[s].pc = "wait"
        /\ row' = IF row[j].id = slot[s].id
                  THEN [row EXCEPT ![j].status = "waiting_start"] ELSE row
    BY <1>4 DEF MarkWaiting, At
  <2>2. j \in Jobs
    BY <2>1, KeyType DEF Task
  <2>3. (LateOn(k)' <=> LateOn(k)) /\ LoneIn(queue', k)
    BY <1>3, <2>1 DEF LateOn
  <2>4. CASE k = Key(s)
    <3>1. ~LateOn(k) /\ \A t \in Slots \ {s} : ~BusyOn(t, k)
      BY <1>2, <2>4 DEF Alone
    <3>2. Orphaned(k)'
      BY <1>2, <2>3, <3>1 DEF Orphaned
    <3> QED  BY <3>2 DEF Orphaned, Alone, LoneIn, LateOn
  <2>5. CASE k # Key(s)
    <3>1. \/ row'[k[1]] = row[k[1]]
          \/ row'[k[1]].id = row[k[1]].id /\ row[k[1]].id # k[2]
      BY <1>3, <2>1, <2>2, <2>5, KeyParts DEF Key, Row
    <3> QED  BY <1>2, <2>3, <2>5, <3>1, AloneKept, AloneElsewhere
  <2> QED  BY <2>4, <2>5
<1>5. CASE UNCHANGED row /\ \E w \in JobWrite : EndsWith(s, w)
  <2> PICK w \in JobWrite : EndsWith(s, w)
    BY <1>5
  <2>1. /\ queue' = Append(queue, w) /\ OnKey(w, Key(s)) /\ w \in QueuedWrite
        /\ row'[k[1]] = row[k[1]]
    BY <1>5 DEF EndsWith, QueuedWrite
  <2>2. OnKey(w, k) <=> k = Key(s)
    BY <2>1 DEF OnKey
  <2>3. LateOn(k)' <=> LateOn(k) \/ OnKey(w, k)
    BY <1>3, <2>1, OnKeyOfAppend DEF LateOn
  <2>4. OnKey(w, k) => \A i \in DOMAIN queue : ~OnKey(queue[i], k)
    BY <1>2, <2>2 DEF Alone, LateOn
  <2>5. LoneIn(queue', k)
    BY <1>3, <2>1, <2>4, LoneOfAppend
  <2>6. CASE k = Key(s)
    <3>1. \A t \in Slots : ~BusyOn(t, k)'
      BY <1>2, <2>6 DEF Alone
    <3>2. /\ row'[k[1]].id = k[2] => row'[k[1]].status = "dispatched"
          /\ ~(k[2] = "crdb" /\ row'[k[1]].id = "local")
      BY <1>2, <2>1, <2>6 DEF Alone, Orphaned
    <3>3. LoneIn(queue, k)'
      BY <2>5 DEF LoneIn
    <3> QED  BY <3>1, <3>2, <3>3 DEF Alone
  <2>7. CASE k # Key(s)
    BY <1>2, <2>1, <2>2, <2>3, <2>5, <2>7, AloneKept
  <2> QED  BY <2>6, <2>7
<1> QED  BY <1>3, <1>4, <1>5, EndLetsGo

\* No slot moves, no fault: rows change only where nobody holds the key.
LEMMA RowAlone ==
  ASSUME TypeOK, faults' = 0, NEW k \in Keys, Alone(k),
         \/ \E j \in Jobs : Enqueue(j) \/ AssignCrdbId(j) \/ Reclaim(j)
         \/ ReactivateWaiting
  PROVE  Alone(k)'
<1>0. /\ row \in [Jobs -> Row] /\ UNCHANGED <<slot, queue>> /\ faults \in Nat
      /\ k[1] \in Jobs /\ k[2] \in Id /\ row[k[1]] \in Row
  BY KeyParts DEF TypeOK, Enqueue, AssignCrdbId, Reclaim, ReactivateWaiting
<1>1. /\ \A t \in Slots : BusyOn(t, k)' <=> BusyOn(t, k)
      /\ LateOn(k)' <=> LateOn(k)
      /\ LoneIn(queue', k)
      /\ Orphaned(k)' <=> Orphaned(k)
  BY <1>0, OrphanedKept DEF BusyOn, Working, Key, LateOn, Alone
<1>2. ASSUME Orphaned(k) PROVE Alone(k)'
  BY <1>1, <1>2 DEF Orphaned, Alone, LoneIn, LateOn
<1>3. CASE row'[k[1]] = row[k[1]]
  BY <1>1, <1>3, AloneKept
<1>4. CASE row'[k[1]].id = row[k[1]].id /\ row[k[1]].id # k[2]
  BY <1>1, <1>4, AloneElsewhere
<1>5. CASE row[k[1]].id = k[2] /\ row[k[1]].status \notin {"dispatched", "dead"}
  <2>1. Orphaned(k)
    BY <1>5 DEF Alone, Orphaned
  <2> QED  BY <1>2, <2>1
<1>6. ASSUME NEW j \in Jobs, Enqueue(j) PROVE Alone(k)'
  <2>1. \/ row'[k[1]] = row[k[1]]
        \/ row[k[1]].status = "none" /\ row'[k[1]].id = row[k[1]].id
    BY <1>0, <1>6 DEF Enqueue, Row
  <2> QED  BY <1>3, <1>4, <1>5, <2>1
<1>7. ASSUME NEW j \in Jobs, AssignCrdbId(j) PROVE Alone(k)'
  <2>1. \/ row'[k[1]] = row[k[1]]
        \/ row[k[1]].id = "local" /\ row'[k[1]].id = "crdb"
    BY <1>0, <1>7 DEF AssignCrdbId, Row
  <2>2. CASE row[k[1]].id = "local" /\ row'[k[1]].id = "crdb" /\ k[2] = "crdb"
    BY <1>2, <2>2 DEF Alone
  <2>3. CASE row[k[1]].id = "local" /\ row'[k[1]].id = "crdb" /\ k[2] = "local"
    <3>1. \A s, t \in Slots : BusyOn(s, k)' /\ BusyOn(t, k)' => s = t
      BY <1>1 DEF Alone
    <3>2. LoneIn(queue, k)'
      BY <1>1 DEF LoneIn
    <3>3. \A s \in Slots : BusyOn(s, k)' => ~LateOn(k)'
      BY <1>1 DEF Alone
    <3>4. row'[k[1]].id # k[2] /\ k[2] # "crdb"
      BY <2>3
    <3> QED  BY <3>1, <3>2, <3>3, <3>4 DEF Alone
  <2> QED  BY <1>0, <1>3, <2>1, <2>2, <2>3 DEF Id
<1>8. ASSUME NEW j \in Jobs, Reclaim(j) PROVE Alone(k)'
  <2>1. ~Busy(j) /\ ~Late(j)
    BY <1>0, <1>8 DEF Reclaim, Charge
  <2>2. CASE k[1] # j
    BY <1>0, <1>3, <1>8, <2>2 DEF Reclaim
  <2>3. CASE k[1] = j
    <3>1. ~LateOn(k)
      BY <2>1, <2>3 DEF Late, LateOn, OnKey
    <3>2. \A s \in Slots : ~BusyOn(s, k)
      BY <2>1, <2>3 DEF Busy, BusyOn, Working, Key, At
    <3> QED  BY <1>2, <3>1, <3>2 DEF Orphaned
  <2> QED  BY <2>2, <2>3
<1>9. CASE ReactivateWaiting
  <2>1. \/ row'[k[1]] = row[k[1]]
        \/ /\ row[k[1]].status = "waiting_start"
           /\ row'[k[1]] = [row[k[1]] EXCEPT !.status = "pending"]
    BY <1>0, <1>9 DEF ReactivateWaiting
  <2>2. \/ row'[k[1]] = row[k[1]]
        \/ row[k[1]].status = "waiting_start" /\ row'[k[1]].id = row[k[1]].id
    BY <1>0, <2>1 DEF Row
  <2> QED  BY <1>3, <1>4, <1>5, <2>2
<1> QED  BY <1>6, <1>7, <1>8, <1>9

\* The write that is executed was the only one; a revival finds nobody.
LEMMA QueueAlone ==
  ASSUME TypeOK, faults' = 0, NEW k \in Keys, Alone(k),
         ApplyWrite \/ DelayWrite \/ SendStart \/ \E j \in Jobs : ReviveDead(j)
  PROVE  Alone(k)'
<1>0. /\ row \in [Jobs -> Row] /\ UNCHANGED slot /\ faults \in Nat
      /\ queue \in Seq(QueuedWrite) /\ LoneIn(queue, k)
      /\ k[1] \in Jobs /\ k[2] \in Id /\ row[k[1]] \in Row
  <2>1. UNCHANGED slot
    BY DEF ApplyWrite, DelayWrite, SendStart, ReviveDead
  <2>2. LoneIn(queue, k)
    BY DEF Alone
  <2> QED  BY <2>1, <2>2, KeyParts DEF TypeOK
<1>1. \A t \in Slots : BusyOn(t, k)' <=> BusyOn(t, k)
  BY <1>0 DEF BusyOn, Working, Key
<1>2. ~DelayWrite
  BY <1>0 DEF DelayWrite, Charge
<1>3. CASE ApplyWrite
  <2> DEFINE w == Head(queue)
  <2>0. queue # <<>> /\ queue' = Tail(queue) /\ row'[k[1]].id = row[k[1]].id
    BY <1>3, ExecutedOn
  <2>1. /\ LateOn(k) <=> LateOn(k)' \/ OnKey(w, k)
        /\ LoneIn(queue', k) /\ (OnKey(w, k) => ~LateOn(k)')
    BY <1>0, <2>0, OnKeyOfTail, LoneOfTail DEF LateOn
  <2>2. CASE OnKey(w, k) /\ row[k[1]].id = k[2]
    <3>1. Orphaned(k)'
      BY <1>1, <2>1, <2>2 DEF Orphaned, Alone
    <3> QED  BY <3>1 DEF Orphaned, Alone, LoneIn, LateOn
  <2>3. CASE ~(OnKey(w, k) /\ row[k[1]].id = k[2])
    <3>1. row'[k[1]] = row[k[1]] \/ row[k[1]].id # k[2]
      BY <1>3, <2>3, ExecutedOn
    <3> QED  BY <1>1, <2>0, <2>1, <3>1, AloneKept, AloneElsewhere
  <2> QED  BY <2>2, <2>3
<1>4. CASE SendStart
  <2>1. /\ queue' = Append(queue, StartedWrite) /\ row' = row
        /\ StartedWrite \in QueuedWrite /\ ~OnKey(StartedWrite, k)
    BY <1>4 DEF SendStart, Push, QueuedWrite, StartedWrite, OnKey
  <2>2. (LateOn(k)' <=> LateOn(k)) /\ LoneIn(queue', k)
    BY <1>0, <2>1, OnKeyOfAppend, LoneOfAppend DEF LateOn
  <2> QED  BY <1>1, <2>1, <2>2, AloneKept
<1>5. ASSUME NEW j \in Jobs, ReviveDead(j) PROVE Alone(k)'
  <2> DEFINE w == Write("revive", j, row[j].id, 0)
  <2>1. /\ queue' = Append(queue, w) /\ row' = row /\ row[j].status = "dead" /\ ~Late(j)
    BY <1>0, <1>5 DEF ReviveDead, Push, Charge
  <2>2. w \in QueuedWrite
    BY <1>0, ZeroRetries DEF Write, QueuedWrite, JobWrite, Row
  <2>3. OnKey(w, k) => k[1] = j /\ k[2] = row[j].id
    BY DEF OnKey, Write
  <2> HIDE DEF w
  <2>4. k[1] = j => ~LateOn(k)
    BY <2>1 DEF Late, LateOn, OnKey
  <2>5. LateOn(k)' <=> LateOn(k) \/ OnKey(w, k)
    BY <1>0, <2>1, <2>2, OnKeyOfAppend DEF LateOn
  <2>6. LoneIn(queue', k)
    BY <1>0, <2>1, <2>2, <2>3, <2>4, LoneOfAppend DEF LateOn
  <2>7. CASE OnKey(w, k)
    <3>1. \A t \in Slots : ~BusyOn(t, k)'
      BY <1>1, <2>1, <2>3, <2>7 DEF Alone
    <3>2. /\ row'[k[1]].status = "dead"
          /\ ~(k[2] = "crdb" /\ row'[k[1]].id = "local")
      BY <2>1, <2>3, <2>7
    <3>3. LoneIn(queue, k)'
      BY <2>6 DEF LoneIn
    <3> QED  BY <3>1, <3>2, <3>3 DEF Alone
  <2>8. CASE ~OnKey(w, k)
    BY <1>1, <2>1, <2>5, <2>6, <2>8, AloneKept
  <2> QED  BY <2>7, <2>8
<1> QED  BY <1>2, <1>3, <1>4, <1>5

LEMMA CrashAlone ==
  ASSUME Crash, NEW k, Alone(k)
  PROVE  Alone(k)'
<1>1. UNCHANGED <<row, queue>> /\ \A s \in Slots : slot'[s].pc = "idle"
  BY DEF Crash, Idle
<1>2. /\ \A t \in Slots : BusyOn(t, k)' => BusyOn(t, k)
      /\ LateOn(k)' => LateOn(k)
      /\ LoneIn(queue', k)
  BY <1>1 DEF BusyOn, Working, LateOn, Alone
<1> QED  BY <1>1, <1>2, AloneKept

LEMMA AloneStep ==
  ASSUME TypeOK, [Next]_vars, faults' = 0, NEW k \in Keys, Alone(k)
  PROVE  Alone(k)'
<1>1. CASE UNCHANGED vars
  BY <1>1 DEF vars, Alone, Orphaned, LoneIn, LateOn, BusyOn, Working, Key
<1>2. CASE ApplyWrite \/ DelayWrite \/ SendStart \/ ReactivateWaiting \/ Crash
  BY <1>2, QueueAlone, RowAlone, CrashAlone
<1>3. CASE \E j \in Jobs : Enqueue(j) \/ AssignCrdbId(j) \/ Reclaim(j) \/ ReviveDead(j)
  BY <1>3, QueueAlone, RowAlone
<1>4. ASSUME NEW s \in Slots, SlotStep(s) \/ SendUnseen(s) \/ SendRaises(s)
      PROVE  Alone(k)'
  <2>1. (ListPending(s) \/ Claim(s)) \/ Attempt(s) \/ Ends(s)
    BY <1>4 DEF SlotStep, Attempt, Ends
  <2> QED  BY <2>1, ClaimAlone, AttemptAlone, EndAlone
<1> QED  BY <1>1, <1>2, <1>3, <1>4 DEF Next

-----------------------------------------------------------------------------
(* What the receipts say while nothing failed, and what a single copy is   *)
(* the evidence of.                                                        *)

\* A completed effect receipt and its delivery receipt name the same copy; the
\* slot that works under the key knows how far the two have come.
Receipted(k) ==
    /\ effect[k].status = "completed" =>
          delivery[k] = [status |-> "CONFIRMED", sent |-> effect[k].sent]
    /\ \A s \in Slots : BusyOn(s, k) =>
          /\ slot[s].pc \in {"pend", "check", "verify", "claim", "send", "failed",
                             "confirm", "record"} => effect[k].status # "completed"
          /\ slot[s].pc \in {"check", "claim", "send", "failed", "confirm"} =>
                delivery[k].status # "none"
          /\ slot[s].pc \in {"send", "confirm", "record"} => effect[k].status = "pending"
          /\ slot[s].pc = "record" =>
                delivery[k] = [status |-> "CONFIRMED", sent |-> slot[s].sent]

\* One copy was made at most, and then its receipt is complete or being completed.
Recording(s, k) == BusyOn(s, k) /\ slot[s].pc \in {"confirm", "record"}
OneCopy(k) ==
    \/ sends[k] = 0
    \/ /\ sends[k] = 1
       /\ effect[k].status = "completed" \/ \E s \in Slots : Recording(s, k)

\* Without an attempt on the key nothing of it moves, except that slots come to it
\* and leave it.
Untouched(k) ==
    /\ UNCHANGED <<delivery[k], effect[k], sends[k]>>
    /\ \A t \in Slots : BusyOn(t, k)' =>
          slot'[t].pc = "begin" \/ (BusyOn(t, k) /\ slot'[t] = slot[t])
    /\ \A t \in Slots : Recording(t, k) => Recording(t, k)' \/ crashes' > crashes

\* An attempt writes no receipt but its own.
LEMMA AttemptWritesOwn ==
  ASSUME TypeOK, NEW s \in Slots, Attempt(s), NEW k \in Keys, k # Key(s)
  PROVE  UNCHANGED <<delivery[k], effect[k], sends[k]>>
<1>1. sends'[k] = sends[k]
  BY AttemptPays
<1>2. delivery \in [Keys -> Delivery] /\ effect \in [Keys -> Effect]
  BY DEF TypeOK
<1>3. delivery'[k] = delivery[k]
  <2>1. UNCHANGED delivery \/ UpsertPending(s) \/ MarkFailed(s) \/ Confirm(s)
    BY DEF Attempt, Begin, ReadReceipts, CheckReceipt, VerifySkipped, RecordPending,
       Send, SendUnseen, SendRaises, RecordCompleted, Finish, receipts
  <2> QED  BY <1>2, <2>1 DEF UpsertPending, MarkFailed, Confirm
<1>4. effect'[k] = effect[k]
  <2>1. UNCHANGED effect \/ RecordPending(s) \/ SendRaises(s) \/ RecordCompleted(s)
    BY DEF Attempt, Begin, ReadReceipts, UpsertPending, CheckReceipt, VerifySkipped,
       Send, SendUnseen, MarkFailed, Confirm, Finish, receipts
  <2> QED  BY <1>2, <2>1 DEF RecordPending, SendRaises, RecordCompleted
<1> QED  BY <1>1, <1>3, <1>4

LEMMA OthersLeave ==
  ASSUME TypeOK, [Next]_vars, NEW k \in Keys,
         \A s \in Slots : Attempt(s) => k # Key(s)
  PROVE  Untouched(k)
<1> USE DEF Untouched, Recording
<1>0. slot \in [Slots -> {Idle} \cup Task] /\ crashes \in Nat
  BY DeliveryAssumption DEF TypeOK
<1>1. ASSUME UNCHANGED <<slot, receipts, sends>> PROVE Untouched(k)
  BY <1>1 DEF receipts, BusyOn, Working, Key
<1>2. ASSUME NEW s \in Slots, Attempt(s) PROVE Untouched(k)
  <2>1. k # Key(s) /\ OnTheJob(s)
    BY <1>2, AttemptKeeps
  <2>2. UNCHANGED <<delivery[k], effect[k], sends[k]>>
    BY <1>2, <2>1, AttemptWritesOwn
  <2>3. ~BusyOn(s, k) /\ ~BusyOn(s, k)'
    BY <2>1 DEF BusyOn, OnTheJob
  <2>4. \A t \in Slots \ {s} : slot'[t] = slot[t] /\ (BusyOn(t, k)' <=> BusyOn(t, k))
    BY <2>1 DEF OnTheJob, BusyOn, Working, Key
  <2> QED  BY <2>2, <2>3, <2>4
<1>3. ASSUME NEW s \in Slots, ListPending(s) \/ Claim(s) PROVE Untouched(k)
  <2>1. /\ UNCHANGED <<delivery[k], effect[k], sends[k]>> /\ ~BusyOn(s, k)
    BY <1>3 DEF ListPending, Claim, receipts, At, BusyOn, Working
  <2>2. \A t \in Slots \ {s} : slot'[t] = slot[t]
    BY <1>0, <1>3 DEF ListPending, Claim, Goto, Release
  <2>3. slot'[s].pc \in {"listed", "begin", "idle"}
    <3>1. CASE ListPending(s)
      BY <1>0, <3>1 DEF ListPending
    <3>2. CASE Claim(s)
      <4>1. slot[s].pc # "idle" /\ (Goto(s, "begin") \/ Release(s))
        BY <3>2 DEF Claim, At
      <4> QED  BY <4>1, GotoMoves, ReleaseIdles DEF Steps
    <3> QED  BY <1>3, <3>1, <3>2
  <2>4. \A t \in Slots \ {s} : BusyOn(t, k)' <=> BusyOn(t, k)
    BY <2>2 DEF BusyOn, Working, Key
  <2> QED  BY <2>1, <2>2, <2>3, <2>4 DEF BusyOn, Working
<1>4. ASSUME NEW s \in Slots, Ends(s) PROVE Untouched(k)
  <2>1. LetsGo(s)
    BY <1>4, EndLetsGo
  <2>2. UNCHANGED <<delivery[k], effect[k], sends[k]>>
    BY <1>4 DEF Ends, MarkWaiting, Skip, Finish, Fail, Bury, receipts
  <2>3. ~BusyOn(s, k)' /\ slot[s].pc \notin {"confirm", "record"}
    BY <1>4, <2>1 DEF LetsGo, BusyOn, Working, Ends, MarkWaiting, Skip, Finish, Fail,
       Bury, At
  <2>4. \A t \in Slots \ {s} : slot'[t] = slot[t] /\ (BusyOn(t, k)' <=> BusyOn(t, k))
    BY <2>1 DEF LetsGo, BusyOn, Working, Key
  <2> QED  BY <2>2, <2>3, <2>4
<1>5. CASE Crash
  <2>1. /\ UNCHANGED <<delivery[k], effect[k], sends[k]>> /\ crashes' > crashes
        /\ \A t \in Slots : ~BusyOn(t, k)'
    BY <1>0, <1>5 DEF Crash, receipts, Idle, BusyOn, Working
  <2> QED  BY <2>1
<1>6. CASE UNCHANGED vars \/ ApplyWrite \/ DelayWrite \/ SendStart \/ ReactivateWaiting
  <2>1. UNCHANGED <<slot, receipts, sends>>
    BY <1>6 DEF vars, ApplyWrite, DelayWrite, SendStart, ReactivateWaiting, receipts
  <2> QED  BY <1>1, <2>1
<1>7. ASSUME NEW j \in Jobs, Enqueue(j) \/ AssignCrdbId(j) \/ Reclaim(j) \/ ReviveDead(j)
      PROVE  Untouched(k)
  <2>1. UNCHANGED <<slot, receipts, sends>>
    BY <1>7 DEF Enqueue, AssignCrdbId, Reclaim, ReviveDead, receipts
  <2> QED  BY <1>1, <2>1
<1>8. ASSUME NEW s \in Slots, SlotStep(s) \/ SendUnseen(s) \/ SendRaises(s)
      PROVE  Untouched(k)
  <2>1. (ListPending(s) \/ Claim(s)) \/ Attempt(s) \/ Ends(s)
    BY <1>8 DEF SlotStep, Attempt, Ends
  <2> QED  BY <1>2, <1>3, <1>4, <2>1
<1> QED  BY <1>5, <1>6, <1>7, <1>8 DEF Next

LEMMA UntouchedKeeps ==
  ASSUME NEW k, Untouched(k)
  PROVE  /\ Receipted(k) => Receipted(k)'
         /\ OneCopy(k) /\ ~(crashes' > crashes) => OneCopy(k)'
<1>1. ASSUME Receipted(k) PROVE Receipted(k)'
  BY <1>1 DEF Untouched, Receipted
<1>2. ASSUME OneCopy(k), ~(crashes' > crashes) PROVE OneCopy(k)'
  BY <1>2 DEF Untouched, OneCopy
<1> QED  BY <1>1, <1>2

\* The step of the slot that alone works under the key.
LEMMA OwnReceipts ==
  ASSUME TypeOK, faults' = 0, NEW s \in Slots, Attempt(s), NEW k \in Keys, k = Key(s),
         Alone(k), Receipted(k)
  PROVE  Receipted(k)' /\ (OneCopy(k) => OneCopy(k)')
<1> DEFINE pc == slot[s].pc
           sent == slot[s].sent
<1>1. /\ OnTheJob(s) /\ pc # "idle" /\ slot[s] \in Task /\ BusyOn(s, k) /\ BusyOn(s, k)'
      /\ slot \in [Slots -> {Idle} \cup Task] /\ faults \in Nat
      /\ delivery \in [Keys -> Delivery] /\ effect \in [Keys -> Effect]
  BY AttemptKeeps, KeyType DEF OnTheJob, BusyOn, Working, TypeOK
<1>2. \A t \in Slots : (BusyOn(t, k) <=> t = s) /\ (BusyOn(t, k)' <=> t = s)
  <2>1. \A t \in Slots : BusyOn(t, k) <=> t = s
    BY <1>1 DEF Alone
  <2>2. \A t \in Slots \ {s} : BusyOn(t, k)' <=> BusyOn(t, k)
    BY <1>1 DEF OnTheJob, BusyOn, Working, Key
  <2> QED  BY <1>1, <2>1, <2>2
<1>3. faults = 0 /\ \A ok \in BOOLEAN : Charge(ok) => ok
  BY <1>1, AttemptPays DEF Charge
<1>4. /\ effect[k].status = "completed" =>
            delivery[k] = [status |-> "CONFIRMED", sent |-> effect[k].sent]
      /\ pc \in {"pend", "check", "verify", "claim", "send", "failed", "confirm", "record"}
            => effect[k].status # "completed"
      /\ pc \in {"check", "claim", "send", "failed", "confirm"} => delivery[k].status # "none"
      /\ pc \in {"send", "confirm", "record"} => effect[k].status = "pending"
      /\ pc = "record" => delivery[k] = [status |-> "CONFIRMED", sent |-> sent]
  BY <1>1 DEF Receipted
<1>5. ASSUME effect'[k].status = "completed" =>
                delivery'[k] = [status |-> "CONFIRMED", sent |-> effect'[k].sent],
             slot'[s].pc \in {"pend", "check", "verify", "claim", "send", "failed",
                              "confirm", "record"} => effect'[k].status # "completed",
             slot'[s].pc \in {"check", "claim", "send", "failed", "confirm"} =>
                delivery'[k].status # "none",
             slot'[s].pc \in {"send", "confirm", "record"} => effect'[k].status = "pending",
             slot'[s].pc = "record" =>
                delivery'[k] = [status |-> "CONFIRMED", sent |-> slot'[s].sent]
      PROVE  Receipted(k)'
  BY <1>2, <1>5 DEF Receipted
<1>6. ASSUME sends'[k] = sends[k],
             \/ effect[k].status = "completed" => effect'[k].status = "completed"
             \/ pc \in {"confirm", "record"},
             pc \in {"confirm", "record"} =>
                \/ effect'[k].status = "completed"
                \/ slot'[s].pc \in {"confirm", "record"}
      PROVE  OneCopy(k) => OneCopy(k)'
  <2> SUFFICES ASSUME OneCopy(k), sends[k] = 1 PROVE OneCopy(k)'
    BY <1>6 DEF OneCopy
  <2>1. effect[k].status = "completed" \/ pc \in {"confirm", "record"}
    BY <1>2 DEF OneCopy, Recording
  <2>2. effect'[k].status = "completed" \/ slot'[s].pc \in {"confirm", "record"}
    BY <1>4, <1>6, <2>1
  <2>3. effect'[k].status = "completed" \/ Recording(s, k)'
    BY <1>1, <2>2 DEF Recording
  <2> QED  BY <1>6, <2>3 DEF OneCopy
<1>7. ASSUME NEW p \in Steps, Goto(s, p) PROVE slot'[s].pc = p /\ slot'[s].sent = sent
  BY <1>1, <1>7 DEF Goto, Task
<1> HIDE DEF pc, sent
<1>8. CASE Begin(s)
  <2>1. /\ pc = "begin" /\ UNCHANGED <<delivery, effect, sends>>
        /\ \E p \in {"bury", "wait", "skip", "read", "fail"} : Goto(s, p)
    BY <1>8 DEF Begin, At, receipts, pc
  <2>2. slot'[s].pc \in {"bury", "wait", "skip", "read", "fail"}
    BY <1>7, <2>1 DEF Steps
  <2> QED  BY <1>4, <1>5, <1>6, <2>1, <2>2
<1>9. CASE ReadReceipts(s)
  <2>1. /\ pc = "read" /\ UNCHANGED <<delivery, effect, sends>>
        /\ \/ Goto(s, "finish")
           \/ Goto(s, "pend") /\ delivery[k].status # "CONFIRMED"
    BY <1>3, <1>9 DEF ReadReceipts, At, receipts, pc
  <2>2. \/ slot'[s].pc = "finish"
        \/ slot'[s].pc = "pend" /\ effect[k].status # "completed"
    BY <1>4, <1>7, <2>1 DEF Steps
  <2> QED  BY <1>4, <1>5, <1>6, <2>1, <2>2
<1>10. CASE UpsertPending(s)
  <2>1. /\ pc = "pend" /\ UNCHANGED <<effect, sends>> /\ Goto(s, "check")
        /\ delivery' = [delivery EXCEPT ![k] = [status |-> "PENDING", sent |-> 0]]
    BY <1>3, <1>10 DEF UpsertPending, At, pc
  <2>2. slot'[s].pc = "check" /\ delivery'[k].status = "PENDING"
    BY <1>1, <1>7, <2>1 DEF Steps
  <2> QED  BY <1>4, <1>5, <1>6, <2>1, <2>2
<1>11. CASE CheckReceipt(s)
  <2>1. /\ pc = "check" /\ UNCHANGED <<delivery, effect, sends>>
        /\ \/ Goto(s, "verify") /\ effect[k].status = "completed"
           \/ Goto(s, "claim")
    BY <1>3, <1>11 DEF CheckReceipt, At, receipts, pc
  <2>2. slot'[s].pc = "claim"
    BY <1>4, <1>7, <2>1 DEF Steps
  <2> QED  BY <1>4, <1>5, <1>6, <2>1, <2>2
<1>12. CASE VerifySkipped(s)
  <2>1. /\ pc = "verify" /\ UNCHANGED <<delivery, effect, sends>>
        /\ Goto(s, "finish") \/ Goto(s, "fail")
    BY <1>12 DEF VerifySkipped, At, receipts, pc
  <2>2. slot'[s].pc \in {"finish", "fail"}
    BY <1>7, <2>1 DEF Steps
  <2> QED  BY <1>4, <1>5, <1>6, <2>1, <2>2
<1>13. CASE RecordPending(s)
  <2>1. /\ pc = "claim" /\ UNCHANGED <<delivery, sends>>
        /\ effect' = [effect EXCEPT ![k].status = "pending"] /\ Goto(s, "send")
    BY <1>3, <1>4, <1>13 DEF RecordPending, At, pc
  <2>2. slot'[s].pc = "send" /\ effect'[k].status = "pending"
    BY <1>1, <1>7, <2>1 DEF Steps, Effect
  <2> QED  BY <1>4, <1>5, <1>6, <2>1, <2>2
<1>14. CASE Send(s)
  <2>1. pc = "send" /\ UNCHANGED <<delivery, effect>>
    BY <1>14 DEF Send, At, receipts, pc
  <2>2. CASE Goto(s, "failed") /\ UNCHANGED sends
    <3>1. slot'[s].pc = "failed"
      BY <1>7, <2>2 DEF Steps
    <3> QED  BY <1>4, <1>5, <1>6, <2>1, <2>2, <3>1
  <2>3. CASE /\ sends' = [sends EXCEPT ![k] = @ + 1]
             /\ slot' = [slot EXCEPT ![s].pc = "confirm", ![s].sent = sends[k] + 1]
    <3>1. slot'[s].pc = "confirm"
      BY <1>1, <2>3 DEF Task
    <3>2. OneCopy(k) => sends[k] = 0
      BY <1>2, <1>4, <2>1 DEF OneCopy, Recording, pc
    <3>3. sends[k] = 0 => sends'[k] = 1
      BY <2>3 DEF TypeOK
    <3>4. Recording(s, k)'
      BY <1>1, <3>1 DEF Recording
    <3>5. OneCopy(k) => OneCopy(k)'
      BY <3>2, <3>3, <3>4 DEF OneCopy
    <3> QED  BY <1>4, <1>5, <2>1, <3>1, <3>5
  <2> QED  BY <1>14, <2>2, <2>3 DEF Send
<1>15. ~SendUnseen(s) /\ ~SendRaises(s) /\ ~(Finish(s) /\ ~Release(s))
  BY <1>3 DEF SendUnseen, SendRaises, Finish
<1>16. CASE MarkFailed(s)
  <2>1. pc = "failed" /\ UNCHANGED <<effect, sends>> /\ Goto(s, "fail")
    BY <1>16 DEF MarkFailed, At, pc
  <2>2. slot'[s].pc = "fail"
    BY <1>7, <2>1 DEF Steps
  <2> QED  BY <1>4, <1>5, <1>6, <2>1, <2>2
<1>17. CASE Confirm(s)
  <2>1. /\ pc = "confirm" /\ UNCHANGED <<effect, sends>> /\ Goto(s, "record")
        /\ delivery' = [delivery EXCEPT ![k] = [status |-> "CONFIRMED", sent |-> sent]]
    BY <1>3, <1>4, <1>17 DEF Confirm, At, pc, sent
  <2>2. /\ slot'[s].pc = "record" /\ slot'[s].sent = sent
        /\ delivery'[k] = [status |-> "CONFIRMED", sent |-> sent]
    BY <1>1, <1>7, <2>1 DEF Steps
  <2> QED  BY <1>4, <1>5, <1>6, <2>1, <2>2
<1>18. CASE RecordCompleted(s)
  <2>1. /\ pc = "record" /\ UNCHANGED <<delivery, sends>> /\ Goto(s, "finish")
        /\ effect' = [effect EXCEPT ![k] = [status |-> "completed", sent |-> sent]]
    BY <1>3, <1>4, <1>18 DEF RecordCompleted, At, pc, sent
  <2>2. /\ slot'[s].pc = "finish"
        /\ effect'[k] = [status |-> "completed", sent |-> sent]
    BY <1>1, <1>7, <2>1 DEF Steps
  <2> QED  BY <1>4, <1>5, <1>6, <2>1, <2>2
<1> QED
  BY <1>8, <1>9, <1>10, <1>11, <1>12, <1>13, <1>14, <1>15, <1>16, <1>17, <1>18 DEF Attempt

\* As long as no call failed, receipts stay true to the copies; without a crash too,
\* there is one copy.
LEMMA ReceiptStep ==
  ASSUME TypeOK, [Next]_vars, faults' = 0, NEW k \in Keys, Alone(k), Receipted(k)
  PROVE  /\ Receipted(k)'
         /\ OneCopy(k) /\ ~(crashes' > crashes) => OneCopy(k)'
<1>1. CASE \E s \in Slots : Attempt(s) /\ k = Key(s)
  BY <1>1, OwnReceipts
<1>2. CASE \A s \in Slots : Attempt(s) => k # Key(s)
  BY <1>2, OthersLeave, UntouchedKeeps
<1> QED  BY <1>1, <1>2

-----------------------------------------------------------------------------
(* The theorems about copies and receipts.                                 *)

\* Faults and crashes are never taken back.
LEMMA CountsGrow ==
  ASSUME TypeOK, [Next]_vars
  PROVE  /\ faults \in Nat /\ faults' \in Nat /\ faults' >= faults
         /\ crashes \in Nat /\ crashes' \in Nat /\ crashes' >= crashes
<1>1. faults \in Nat /\ crashes \in Nat
  BY DeliveryAssumption DEF TypeOK
<1>2. faults' = faults \/ faults' = faults + 1
  BY DEF Next, SlotStep, vars, Enqueue, AssignCrdbId, Reclaim, ReviveDead, ApplyWrite,
     DelayWrite, SendStart, ReactivateWaiting, Crash, ListPending, Claim, Begin,
     MarkWaiting, Skip, ReadReceipts, UpsertPending, CheckReceipt, VerifySkipped,
     RecordPending, Send, SendUnseen, SendRaises, MarkFailed, Confirm, RecordCompleted,
     Finish, Fail, Bury, Charge
<1>3. crashes' = crashes \/ crashes' = crashes + 1
  BY DEF Next, SlotStep, vars, Enqueue, AssignCrdbId, Reclaim, ReviveDead, ApplyWrite,
     DelayWrite, SendStart, ReactivateWaiting, Crash, ListPending, Claim, Begin,
     MarkWaiting, Skip, ReadReceipts, UpsertPending, CheckReceipt, VerifySkipped,
     RecordPending, Send, SendUnseen, SendRaises, MarkFailed, Confirm, RecordCompleted,
     Finish, Fail, Bury
<1> QED  BY <1>1, <1>2, <1>3

Accounted(k) ==
    /\ Budget(k)
    /\ faults = 0 => Alone(k) /\ Receipted(k)
    /\ faults + crashes = 0 => OneCopy(k)

\* The budget, and what holds beside it while nothing failed, are inductive.
THEOREM AttemptsAccounted == Spec => [](\A k \in Keys : Accounted(k))
<1>1. Init => \A k \in Keys : Accounted(k)
  <2> SUFFICES ASSUME Init, NEW k \in Keys PROVE Accounted(k)
    OBVIOUS
  <2>1. Orphaned(k)
    BY DEF Init, Orphaned, LateOn, BusyOn, Working, Idle
  <2>2. Alone(k)
    BY <2>1, OrphanAlone
  <2>3. Receipted(k) /\ OneCopy(k)
    BY <2>1 DEF Init, Receipted, OneCopy, Orphaned
  <2> QED  BY <2>2, <2>3, BudgetInit DEF Accounted
<1>2. /\ TypeOK /\ TypeOK'
      /\ (\A k \in Keys : Accounted(k)) /\ [Next]_vars
      => (\A k \in Keys : Accounted(k))'
  <2> SUFFICES ASSUME TypeOK, TypeOK', [Next]_vars, NEW k \in Keys, Accounted(k)
               PROVE  Accounted(k)'
    OBVIOUS
  <2>1. Budget(k)'
    BY BudgetStep DEF Accounted
  <2>2. ASSUME faults' = 0 PROVE faults = 0 /\ Alone(k)' /\ Receipted(k)'
    <3>1. faults = 0
      BY <2>2, CountsGrow
    <3> QED  BY <2>2, <3>1, AloneStep, ReceiptStep DEF Accounted
  <2>3. ASSUME faults' + crashes' = 0 PROVE OneCopy(k)'
    <3>1. faults' = 0 /\ faults = 0 /\ crashes = 0 /\ crashes' = 0
      BY <2>3, CountsGrow
    <3> QED  BY <3>1, ReceiptStep DEF Accounted
  <2> QED  BY <2>1, <2>2, <2>3 DEF Accounted
<1> QED  BY <1>1, <1>2, TypeCorrect, PTL DEF Spec

\* ExtraCopiesHaveCauses: one copy under a job id while nothing fails, and for every
\* further one a failed call, a late slot or write, a crash or a revival of its own.
THEOREM ExtraCopiesExplained == Spec => []ExtraCopiesHaveCauses
<1>1. TypeOK /\ (\A k \in Keys : Accounted(k)) => ExtraCopiesHaveCauses
  <2> SUFFICES ASSUME TypeOK, NEW k \in Keys, Accounted(k)
               PROVE  /\ faults + crashes = 0 => sends[k] <= 1
                      /\ sends[k] <= 1 + faults + crashes + row[k[1]].revived
    BY DEF ExtraCopiesHaveCauses
  <2>1. /\ sends[k] \in Nat /\ Causes(k) \in Nat /\ faults \in Nat /\ crashes \in Nat
        /\ RowTry(k) \in {0, 1} /\ Retrying(k) \in Nat /\ row[k[1]].revived \in Nat
    BY Numbers, KeyParts DEF TypeOK, Row
  <2>2. Cardinality(Trying(k)) \in Nat
    BY FS_CardinalityType DEF Accounted, Budget
  <2>3. sends[k] <= 1 + Causes(k)
    BY <2>1, <2>2 DEF Accounted, Budget
  <2>4. faults + crashes = 0 => sends[k] <= 1
    BY DEF Accounted, OneCopy
  <2> QED  BY <2>1, <2>3, <2>4 DEF Causes
<1> QED  BY <1>1, TypeCorrect, AttemptsAccounted, PTL

\* ReceiptsAgree: whatever dsp_bot crashed between, a confirmed delivery receipt and a
\* completed effect receipt name one message as long as no call failed.
THEOREM ReceiptsOfOneCopy == Spec => []ReceiptsAgree
<1>1. (\A k \in Keys : Accounted(k)) => ReceiptsAgree
  <2> SUFFICES ASSUME NEW k \in Keys, Accounted(k), faults = 0,
                      effect[k].status = "completed"
               PROVE  delivery[k].sent = effect[k].sent
    BY DEF ReceiptsAgree
  <2>1. delivery[k] = [status |-> "CONFIRMED", sent |-> effect[k].sent]
    BY DEF Accounted, Receipted
  <2> QED  BY <2>1
<1> QED  BY <1>1, AttemptsAccounted, PTL

-----------------------------------------------------------------------------
(* What OneCopyPerJob misses: the job's switch to its CRDB id, and only it. *)

\* While a job has its temporary id, nobody has heard of its CRDB id.
Unheard(j) ==
    row[j].id = "local" =>
        /\ sends[<<j, "crdb">>] = 0
        /\ \A s \in Slots : slot[s].pc # "idle" => Key(s) # <<j, "crdb">>

\* A row has its id and its count of revivals changed by two actions only.
LEMMA RowFates ==
  ASSUME TypeOK, [Next]_vars, NEW j \in Jobs
  PROVE  \/ ApplyWrite
         \/ /\ row'[j].revived = row[j].revived
            /\ row'[j].id = row[j].id \/ row[j].id = "local"
<1> DEFINE Kept == /\ row'[j].revived = row[j].revived
                   /\ row'[j].id = row[j].id \/ row[j].id = "local"
<1>0. row \in [Jobs -> Row]
  BY DEF TypeOK
<1>1. CASE ReactivateWaiting
  <2>1. row'[j] = row[j] \/ row'[j] = [row[j] EXCEPT !.status = "pending"]
    BY <1>1 DEF ReactivateWaiting
  <2> QED  BY <1>0, <2>1 DEF Row
<1>2. ASSUME NEW i \in Jobs, Enqueue(i) \/ Reclaim(i) PROVE Kept
  BY <1>0, <1>2 DEF Enqueue, Reclaim, Row
<1>3. ASSUME NEW i \in Jobs, AssignCrdbId(i) PROVE Kept
  BY <1>0, <1>3 DEF AssignCrdbId, Row
<1>4. ASSUME NEW s \in Slots, Claim(s) \/ MarkWaiting(s) PROVE Kept
  BY <1>0, <1>4 DEF Claim, MarkWaiting, Row
<1>5. \/ UNCHANGED row \/ ApplyWrite \/ ReactivateWaiting
      \/ \E i \in Jobs : Enqueue(i) \/ Reclaim(i) \/ AssignCrdbId(i)
      \/ \E s \in Slots : Claim(s) \/ MarkWaiting(s)
  BY DEF Next, SlotStep, vars, ReviveDead, DelayWrite, SendStart, Crash, ListPending,
     Begin, Skip, ReadReceipts, UpsertPending, CheckReceipt, VerifySkipped,
     RecordPending, Send, SendUnseen, SendRaises, MarkFailed, Confirm,
     RecordCompleted, Finish, Fail, Bury
<1> QED  BY <1>1, <1>2, <1>3, <1>4, <1>5

LEMMA UnheardStep ==
  ASSUME TypeOK, TypeOK', [Next]_vars, NEW j \in Jobs, Unheard(j), row'[j].id = "local"
  PROVE  Unheard(j)'
<1> DEFINE k == <<j, "crdb">>
<1>0. /\ slot \in [Slots -> {Idle} \cup Task] /\ row \in [Jobs -> Row] /\ k \in Keys
      /\ row[j].id \in Id
  BY DEF TypeOK, Keys, Id, Row
<1>1. row[j].id = "local"
  <2>1. row'[j].id = row[j].id \/ row[j].id = "local"
    BY <1>0, RowFates, ExecutedOn
  <2> QED  BY <2>1
<1>2. \A s \in Slots : slot[s].pc # "idle" => Key(s) # k
  BY <1>1 DEF Unheard
<1>3. sends'[k] = 0
  <2>1. \A s \in Slots : Attempt(s) => k # Key(s)
    BY <1>2, AttemptKeeps DEF OnTheJob, Working
  <2> QED  BY <1>0, <1>1, <2>1, OthersLeave DEF Untouched, Unheard
<1>4. ASSUME NEW s \in Slots, slot'[s].pc # "idle", Key(s)' = k PROVE FALSE
  <2>1. CASE ListPending(s)
    <3>1. PICK i \in Jobs : slot' = [slot EXCEPT ![s] = [pc |-> "listed", job |-> i,
                                id |-> row[i].id, retry |-> row[i].retry, sent |-> 0]]
      BY <2>1 DEF ListPending
    <3>2. Key(s)' = <<i, row[i].id>>
      BY <1>0, <3>1 DEF Key
    <3> QED  BY <1>1, <1>4, <3>2
  <2>2. CASE ~ListPending(s)
    <3>1. slot'[s].pc = "idle" \/ (slot[s].pc # "idle" /\ Key(s)' = Key(s))
      <4>1. CASE UNCHANGED slot
        BY <1>4, <4>1 DEF Key
      <4>2. CASE Crash
        BY <4>2 DEF Crash, Idle
      <4>3. ASSUME NEW t \in Slots, Attempt(t) \/ Ends(t), slot'[s].pc # "idle"
            PROVE  slot[s].pc # "idle" /\ Key(s)' = Key(s)
        BY <4>3, AttemptKeeps, EndLetsGo DEF OnTheJob, LetsGo, Working, Key
      <4>4. ASSUME NEW t \in Slots, ListPending(t) \/ Claim(t), slot'[s].pc # "idle"
            PROVE  slot[s].pc # "idle" /\ Key(s)' = Key(s)
        <5>1. CASE s # t
          <6>1. slot'[s] = slot[s]
            BY <1>0, <4>4, <5>1 DEF ListPending, Claim, Goto, Release
          <6> QED  BY <4>4, <6>1 DEF Key
        <5>2. CASE s = t
          <6>1. slot[s].pc # "idle" /\ (Goto(s, "begin") \/ Release(s))
            BY <2>2, <4>4, <5>2 DEF Claim, At
          <6> QED  BY <4>4, <6>1, GotoMoves, ReleaseIdles DEF Steps
        <5> QED  BY <5>1, <5>2
      <4>5. \/ UNCHANGED slot \/ Crash
            \/ \E t \in Slots : Attempt(t) \/ Ends(t) \/ ListPending(t) \/ Claim(t)
        BY DEF Next, SlotStep, vars, Enqueue, AssignCrdbId, Reclaim, ReviveDead,
           ApplyWrite, DelayWrite, SendStart, ReactivateWaiting, Attempt, Ends
      <4> QED  BY <4>1, <4>2, <4>3, <4>4, <4>5
    <3> QED  BY <1>2, <1>4, <3>1
  <2> QED  BY <2>1, <2>2
<1> QED  BY <1>3, <1>4 DEF Unheard

\* When nothing fails a job is sent once, or twice if it got its CRDB id: once under
\* either id, and never more.
TwoCopiesHaveTwoIds ==
    faults + crashes = 0 =>
        \A j \in Jobs :
            \/ sends[<<j, "local">>] + sends[<<j, "crdb">>] <= 1
            \/ /\ row[j].id = "crdb"
               /\ sends[<<j, "local">>] = 1 /\ sends[<<j, "crdb">>] = 1

\* TwoCopiesHaveTwoIds: the run that shows OneCopyPerJob violated shows all there is;
\* the switch of ids is the only way to a second copy of a job.
THEOREM SecondCopyIsRenamed == Spec => []TwoCopiesHaveTwoIds
<1>1. Init => \A j \in Jobs : Unheard(j)
  BY DEF Init, Unheard, Keys, Id, Idle
<1>2. /\ TypeOK /\ TypeOK'
      /\ (\A j \in Jobs : Unheard(j)) /\ [Next]_vars
      => (\A j \in Jobs : Unheard(j))'
  <2> SUFFICES ASSUME TypeOK, TypeOK', [Next]_vars, NEW j \in Jobs, Unheard(j)
               PROVE  Unheard(j)'
    OBVIOUS
  <2>1. CASE row'[j].id = "local"
    BY <2>1, UnheardStep
  <2>2. CASE row'[j].id # "local"
    BY <2>2 DEF Unheard
  <2> QED  BY <2>1, <2>2
<1>3. /\ TypeOK /\ ExtraCopiesHaveCauses /\ \A j \in Jobs : Unheard(j)
      => TwoCopiesHaveTwoIds
  <2> SUFFICES ASSUME TypeOK, ExtraCopiesHaveCauses, faults + crashes = 0,
                      NEW j \in Jobs, Unheard(j)
               PROVE  \/ sends[<<j, "local">>] + sends[<<j, "crdb">>] <= 1
                      \/ /\ row[j].id = "crdb"
                         /\ sends[<<j, "local">>] = 1 /\ sends[<<j, "crdb">>] = 1
    BY DEF TwoCopiesHaveTwoIds
  <2>1. <<j, "local">> \in Keys /\ <<j, "crdb">> \in Keys
    BY DEF Keys, Id
  <2>2. sends[<<j, "local">>] \in {0, 1} /\ sends[<<j, "crdb">>] \in {0, 1}
    BY <2>1 DEF TypeOK, ExtraCopiesHaveCauses
  <2>3. row[j].id \in {"local", "crdb"}
    BY DEF TypeOK, Row, Id
  <2> QED  BY <2>2, <2>3 DEF Unheard
<1> QED  BY <1>1, <1>2, <1>3, TypeCorrect, ExtraCopiesExplained, PTL DEF Spec

-----------------------------------------------------------------------------
(* Revivals.                                                               *)

\* _retry_dead_jobs compares dead_retry_count with its limit, and the write it queues
\* raises the count later: it exceeds the limit only if a round finds the job with a
\* status change still in the queue, and by one for each time.
RevivalsBounded == \A j \in Jobs : row[j].revived <= MaxRevive + faults

\* Revivals made and under way.
Revivals(j) ==
    row[j].revived + Queued(<<j, "local">>, "revive") + Queued(<<j, "crdb">>, "revive")

\* The queue gets a revival only from the hourly task.
LEMMA QueuedRevivals ==
  ASSUME TypeOK, [Next]_vars, NEW k \in Keys
  PROVE  /\ Queued(k, "revive") \in Nat /\ Queued(k, "revive")' \in Nat
         /\ \/ Queued(k, "revive")' <= Queued(k, "revive")
            \/ /\ ReviveDead(k[1]) /\ row[k[1]].id = k[2]
               /\ Queued(k, "revive")' = Queued(k, "revive") + 1
         /\ ApplyWrite =>
               Queued(k, "revive")' + Bit(Is(Head(queue), k, "revive")) <= Queued(k, "revive")
<1> DEFINE n(q) == Cardinality(Among(q, k, "revive"))
<1>1. /\ queue \in Seq(QueuedWrite) /\ StartedWrite \in QueuedWrite
      /\ n(queue) \in Nat
      /\ Queued(k, "revive") = n(queue) /\ Queued(k, "revive")' = n(queue')
  <2>1. queue \in Seq(QueuedWrite) /\ StartedWrite \in QueuedWrite
    BY DEF TypeOK, QueuedWrite
  <2>2. n(queue) \in Nat
    BY <2>1, WritesOfAppend
  <2>3. Queued(k, "revive") = n(queue) /\ Queued(k, "revive")' = n(queue')
    BY DEF Queued, Among
  <2> QED  BY <2>1, <2>2, <2>3
<1>2. ASSUME NEW w \in QueuedWrite, queue' = Append(queue, w)
      PROVE  n(queue') = n(queue) + Bit(Is(w, k, "revive"))
  BY <1>1, <1>2, WritesOfAppend
<1>3. ASSUME queue # <<>>
      PROVE  /\ n(Tail(queue)) \in Nat
             /\ n(Tail(queue)) + Bit(Is(Head(queue), k, "revive")) <= n(queue)
             /\ Bit(Is(Head(queue), k, "revive")) \in {0, 1}
             /\ n(Append(Tail(queue), Head(queue)))
                   = n(Tail(queue)) + Bit(Is(Head(queue), k, "revive"))
  <2>1. Tail(queue) \in Seq(QueuedWrite) /\ Head(queue) \in QueuedWrite
    BY <1>1, <1>3
  <2>2. /\ n(Tail(queue)) \in Nat
        /\ n(Tail(queue)) + Bit(Is(Head(queue), k, "revive")) <= n(queue)
    BY <1>1, <1>3, WritesOfTail
  <2>3. n(Append(Tail(queue), Head(queue)))
           = n(Tail(queue)) + Bit(Is(Head(queue), k, "revive"))
    BY <2>1, WritesOfAppend
  <2>4. Bit(Is(Head(queue), k, "revive")) \in {0, 1}
    BY DEF Bit
  <2> QED  BY <2>2, <2>3, <2>4
<1> HIDE DEF n
<1>4. CASE ApplyWrite \/ DelayWrite
  <2>1. /\ queue # <<>>
        /\ queue' \in {Append(Tail(queue), Head(queue)), Tail(queue)}
        /\ ApplyWrite => queue' = Tail(queue)
    BY <1>4 DEF ApplyWrite, DelayWrite
  <2>2. n(queue') \in Nat /\ n(queue') <= n(queue)
    <3>1. CASE queue' = Tail(queue)
      BY <1>1, <1>3, <2>1, <3>1
    <3>2. CASE queue' = Append(Tail(queue), Head(queue))
      <4>1. n(queue') = n(Tail(queue)) + Bit(Is(Head(queue), k, "revive"))
        BY <1>3, <2>1, <3>2
      <4> QED  BY <1>1, <1>3, <2>1, <4>1
    <3> QED  BY <2>1, <3>1, <3>2
  <2> QED  BY <1>1, <1>3, <2>1, <2>2
<1>5. ASSUME UNCHANGED queue, ~ApplyWrite
      PROVE  /\ n(queue') = n(queue)
  BY <1>5
<1>6. ASSUME NEW w \in QueuedWrite, queue' = Append(queue, w), w.op # "revive"
      PROVE  n(queue') = n(queue)
  BY <1>1, <1>2, <1>6 DEF Is, Bit
<1>7. ASSUME NEW s \in Slots, Skip(s) \/ Finish(s) \/ Fail(s) \/ Bury(s)
      PROVE  n(queue') = n(queue)
  <2>1. CASE Attempt(s)
    BY <2>1, AttemptKeeps DEF OnTheJob
  <2>2. CASE Ends(s)
    <3>1. UNCHANGED queue \/ \E w \in JobWrite : EndsWith(s, w)
      BY <2>2, EndLetsGo DEF MarkWaiting
    <3>2. ASSUME NEW w \in JobWrite, EndsWith(s, w) PROVE n(queue') = n(queue)
      BY <1>6, <3>2 DEF EndsWith, QueuedWrite
    <3> QED  BY <3>1, <3>2
  <2> QED  BY <1>7, <2>1, <2>2 DEF Attempt, Ends
<1>8. ASSUME SendStart PROVE n(queue') = n(queue)
  <2>1. queue' = Append(queue, StartedWrite)
    BY <1>8 DEF SendStart, Push
  <2>2. StartedWrite.op # "revive"
    BY DEF StartedWrite
  <2> QED  BY <1>1, <1>6, <2>1, <2>2
<1>9. ASSUME NEW j \in Jobs, ReviveDead(j), ~ApplyWrite
      PROVE  \/ n(queue') = n(queue)
             \/ k = <<j, row[j].id>> /\ n(queue') = n(queue) + 1
  <2> DEFINE w == Write("revive", j, row[j].id, 0)
  <2>1. w \in QueuedWrite
    BY ZeroRetries DEF Write, QueuedWrite, JobWrite, Row, TypeOK
  <2>2. queue' = Append(queue, w)
    BY <1>9 DEF ReviveDead, Push
  <2>3. Is(w, k, "revive") <=> k = <<j, row[j].id>>
    BY DEF Is, OnKey, Write
  <2> HIDE DEF w
  <2> QED  BY <1>1, <1>2, <2>1, <2>2, <2>3 DEF Bit
<1>10. CASE ~ApplyWrite /\ ~DelayWrite
  <2>1. \/ n(queue') = n(queue)
        \/ /\ ReviveDead(k[1]) /\ row[k[1]].id = k[2]
           /\ n(queue') = n(queue) + 1
    <3>1. CASE \E j \in Jobs : ReviveDead(j)
      <4>1. PICK j \in Jobs : ReviveDead(j)
        BY <3>1
      <4> QED  BY <1>9, <1>10, <4>1
    <3>2. CASE \/ UNCHANGED queue \/ SendStart
               \/ \E s \in Slots : Skip(s) \/ Finish(s) \/ Fail(s) \/ Bury(s)
      <4>1. n(queue') = n(queue)
        BY <1>5, <1>7, <1>8, <1>10, <3>2
      <4> QED  BY <4>1
    <3> QED  BY <1>10, <3>1, <3>2, QueueFrame
  <2> QED  BY <1>1, <1>10, <2>1
<1> QED  BY <1>4, <1>10

\* RevivalsBounded: a dead job is revived MaxRevive times, and once more only for a
\* status change that is executed late, or another failure.
THEOREM RevivalsAreBounded == Spec => []RevivalsBounded
<1> DEFINE Limit == \A j \in Jobs : Revivals(j) <= MaxRevive + faults
<1>1. Init => Limit
  <2> SUFFICES ASSUME Init, NEW j \in Jobs PROVE Revivals(j) <= MaxRevive + faults
    OBVIOUS
  <2>1. \A k : Among(queue, k, "revive") = {}
    BY DEF Init, Among
  <2>2. \A k : Queued(k, "revive") = 0
    BY <2>1, FS_EmptySet DEF Queued
  <2> QED  BY <2>2, DeliveryAssumption DEF Init, Revivals
<1>2. TypeOK /\ TypeOK' /\ Limit /\ [Next]_vars => Limit'
  <2> SUFFICES ASSUME TypeOK, TypeOK', [Next]_vars, NEW j \in Jobs,
                      Revivals(j) <= MaxRevive + faults
               PROVE  Revivals(j)' <= MaxRevive + faults'
    OBVIOUS
  <2> DEFINE l == <<j, "local">>
             c == <<j, "crdb">>
             nl == Queued(l, "revive")
             nc == Queued(c, "revive")
  <2>1. /\ l \in Keys /\ c \in Keys /\ l[1] = j /\ c[1] = j
        /\ row[j] \in Row /\ row[j].revived \in Nat /\ row[j].id \in Id
        /\ row'[j].revived \in Nat
        /\ MaxRevive \in Nat
    BY DeliveryAssumption DEF TypeOK, Keys, Id, Row
  <2>2. /\ nl \in Nat /\ nl' \in Nat /\ nc \in Nat /\ nc' \in Nat
        /\ nl' <= nl \/ (ReviveDead(j) /\ row[j].id = "local" /\ nl' = nl + 1)
        /\ nc' <= nc \/ (ReviveDead(j) /\ row[j].id = "crdb" /\ nc' = nc + 1)
        /\ ApplyWrite => /\ nl' + Bit(Is(Head(queue), l, "revive")) <= nl
                         /\ nc' + Bit(Is(Head(queue), c, "revive")) <= nc
    BY <2>1, QueuedRevivals
  <2>3. faults \in Nat /\ faults' \in Nat /\ faults' >= faults
    BY CountsGrow
  <2>4. Revivals(j) = row[j].revived + nl + nc /\ Revivals(j)' = row'[j].revived + nl' + nc'
    BY DEF Revivals
  <2> HIDE DEF nl, nc
  <2>5. CASE ApplyWrite
    <3>1. /\ Bit(Is(Head(queue), l, "revive")) \in {0, 1}
          /\ Bit(Is(Head(queue), c, "revive")) \in {0, 1}
      BY DEF Bit
    <3>2. row'[j].revived + nl' + nc' <= row[j].revived + nl + nc
      <4>1. CASE row'[j].revived = row[j].revived
        BY <2>1, <2>2, <2>5, <3>1, <4>1
      <4>2. ASSUME NEW k \in {l, c}, Is(Head(queue), k, "revive"),
                   row'[j].revived = row[j].revived + 1
            PROVE  row'[j].revived + nl' + nc' <= row[j].revived + nl + nc
        <5>1. Bit(Is(Head(queue), k, "revive")) = 1
          BY <4>2 DEF Bit
        <5> QED  BY <2>1, <2>2, <2>5, <3>1, <4>2, <5>1
      <4>3. \/ row'[j].revived = row[j].revived
            \/ /\ row'[j].revived = row[j].revived + 1
               /\ \E k \in {l, c} : Is(Head(queue), k, "revive")
        <5>1. ASSUME NEW k \in {l, c}, OnKey(Head(queue), k), row[j].id = k[2]
              PROVE  \/ row'[j].revived = row[j].revived
                     \/ row'[j].revived = row[j].revived + 1 /\ Is(Head(queue), k, "revive")
          <6>1. /\ Head(queue).op \in {"done", "dead", "retry", "revive"}
                /\ row'[j] = Updated(row[j], Head(queue))
            BY <2>1, <2>5, <5>1, ExecutedOn
          <6>2. CASE Head(queue).op \in {"done", "dead"}
            BY <2>1, <6>1, <6>2 DEF Updated, Row
          <6>3. CASE Head(queue).op = "retry"
            BY <2>1, <6>1, <6>3 DEF Updated, Row
          <6>4. CASE Head(queue).op = "revive"
            BY <2>1, <5>1, <6>1, <6>4 DEF Updated, Row, Is
          <6> QED  BY <6>1, <6>2, <6>3, <6>4
        <5>2. PICK k \in {l, c} : row[j].id = k[2] /\ k \in Keys /\ k[1] = j
          BY <2>1 DEF Id
        <5>3. CASE OnKey(Head(queue), k)
          BY <5>1, <5>2, <5>3
        <5>4. CASE ~OnKey(Head(queue), k)
          <6>1. row'[j] = row[j]
            BY <2>5, <5>2, <5>4, ExecutedOn
          <6> QED  BY <6>1
        <5> QED  BY <5>3, <5>4
      <4> QED  BY <4>1, <4>2, <4>3
    <3> QED  BY <2>1, <2>2, <2>3, <2>4, <3>2
  <2>6. CASE ~ApplyWrite
    <3>1. row'[j].revived = row[j].revived
      BY <2>6, RowFates
    <3>2. CASE ~ReviveDead(j)
      BY <2>1, <2>2, <2>3, <2>4, <3>1, <3>2
    <3>3. CASE ReviveDead(j)
      <4>1. row'[j].revived + nl' + nc' <= row[j].revived + nl + nc + 1
        <5>1. CASE row[j].id = "local"
          BY <2>1, <2>2, <3>1, <5>1
        <5>2. CASE row[j].id = "crdb"
          BY <2>1, <2>2, <3>1, <5>2
        <5> QED  BY <2>1, <5>1, <5>2 DEF Id
      <4>2. CASE Late(j)
        <5>1. faults' = faults + 1
          BY <3>3, <4>2 DEF ReviveDead, Charge
        <5> QED  BY <2>1, <2>2, <2>3, <2>4, <3>1, <4>1, <5>1
      <4>3. CASE ~Late(j)
        <5>1. \A k \in {l, c} : Among(queue, k, "revive") = {}
          BY <4>3 DEF Late, Among, Is, OnKey
        <5>2. nl = 0 /\ nc = 0
          BY <5>1, FS_EmptySet DEF nl, nc, Queued
        <5>3. row[j].revived < MaxRevive
          BY <3>3 DEF ReviveDead
        <5> QED  BY <2>1, <2>2, <2>3, <2>4, <3>1, <4>1, <5>2, <5>3
      <4> QED  BY <4>2, <4>3
    <3> QED  BY <3>2, <3>3
  <2> QED  BY <2>5, <2>6
<1>3. TypeOK /\ Limit => RevivalsBounded
  <2> SUFFICES ASSUME TypeOK, NEW j \in Jobs, Revivals(j) <= MaxRevive + faults
               PROVE  row[j].revived <= MaxRevive + faults
    BY DEF RevivalsBounded
  <2>1. \A k : Queued(k, "revive") \in Nat
    <3>1. queue \in Seq(QueuedWrite) /\ StartedWrite \in QueuedWrite
      BY DEF TypeOK, QueuedWrite
    <3> QED  BY <3>1, WritesOfAppend DEF Queued
  <2>2. /\ Queued(<<j, "local">>, "revive") \in Nat
        /\ Queued(<<j, "crdb">>, "revive") \in Nat
        /\ row[j].revived \in Nat /\ MaxRevive \in Nat /\ faults \in Nat
    BY <2>1, DeliveryAssumption DEF TypeOK, Row
  <2> QED  BY <2>2 DEF Revivals
<1> QED  BY <1>1, <1>2, <1>3, TypeCorrect, PTL DEF Spec
=============================================================================
