------------------------- MODULE WritePipelineProofs -------------------------
(***************************************************************************)
(* Proofs about WritePipeline, for every set of messages and replayers,    *)
(* every attempt limit and every bound on faults and crashes.              *)
(*                                                                         *)
(* The argument.  A message is Kept when a copy of it exists that no step  *)
(* in progress is about to delete: the entry db_writer stands ready to     *)
(* acknowledge and the letter the DLQ worker stands ready to XDEL do not   *)
(* count.  Both may be about to delete at the same time, so neither of the *)
(* two obligations is inductive without the other.                         *)
(***************************************************************************)
EXTENDS WritePipeline, TLAPS

\* The DLQ worker has a letter in its hands.
Retrying == dlq.pc \in {"requeue", "push", "park", "delete"}

\* Stream ids and dead-letter ids are handed out once.
FreshIds ==
    /\ \A e \in stream : e.id < nextId
    /\ \A e, f \in stream : e.id = f.id => e = f
    /\ batch \subseteq stream
    /\ \A d \in dead : d.id < nextDead
    /\ Retrying => dlq.letter.id < nextDead

BeingAcked(e)  == wpc = "ack" /\ IsCurrent(e)
BeingDeleted(d) == dlq.pc = "delete" /\ d = dlq.letter

InStream(m) == \E e \in stream : e.msg = m /\ ~BeingAcked(e)
InDead(m)   == \E d \in dead : d.msg = m /\ ~BeingDeleted(d)
AtRest(m)   == m \in file \/ row[m].status # "none" \/ m \in inbox
Kept(m)     == InStream(m) \/ InDead(m) \/ AtRest(m)

AcceptedKept == \A m \in Msgs : reply[m] = "ok" => Kept(m)

\* Nothing travels through the pipeline that no producer pushed.
OnlySubmitted ==
    /\ \A e \in stream : reply[e.msg] # "new"
    /\ \A d \in dead : reply[d.msg] # "new"
    /\ Retrying => reply[dlq.letter.msg] # "new"
    /\ \A m \in Msgs : row[m].status # "none" => reply[m] # "new"
    /\ \A r \in Replayers : rep[r].pc # "idle" => reply[rep[r].msg] # "new"

\* The DLQ worker holds only letters it may retry.
HoldsRetryable == Retrying => IsRetryable(dlq.letter)

\* Without a caller of replay_durable_outbox rows never leave "pending".
NoReplay ==
    ~ReplayCalled =>
        /\ \A m \in Msgs : row[m].status \in {"none", "pending"}
        /\ \A r \in Replayers : rep[r].pc = "idle"

IInv ==
    /\ TypeOK /\ ExactlyOnce /\ FreshIds /\ AcceptedKept /\ OnlySubmitted
    /\ HoldsRetryable /\ NoReplay


-----------------------------------------------------------------------------
USE PipelineAssumption

\* Every step of the pipeline keeps the types.
LEMMA TypeStep == TypeOK /\ [Next]_vars => TypeOK'
<1> SUFFICES ASSUME TypeOK, [Next]_vars PROVE TypeOK'
  OBVIOUS
<1> USE DEF PipelineAssumption, TypeOK, Entry, Letter, Retry, Failure, redisMain, redisDead, writer, sqlite
<1>1. ASSUME NEW m \in Msgs, PushToStream(m) PROVE TypeOK'
  BY <1>1 DEF PushToStream, XAdd, Charge, Outcome, Executed, Reply
<1>2. ASSUME NEW m \in Msgs, PushToOutbox(m) PROVE TypeOK'
  BY <1>2 DEF PushToOutbox, WriteDurableOutbox, Charge, Reply, Status
<1>3. CASE PopReclaimed
  BY <1>3 DEF PopReclaimed, Pending, writer
<1>4. CASE PopNew
  BY <1>4 DEF PopNew, Undelivered, Charge
<1>5. CASE CheckInbox
  BY <1>5 DEF CheckInbox, IsCurrent, Charge
<1>6. CASE ExecuteAtomic
  BY <1>6 DEF ExecuteAtomic, IsCurrent
<1>7. CASE Bury
  BY <1>7 DEF Bury, IsCurrent, PushDead, DeadOk, Advance, Charge, Outcome, Executed, DeadAttempts, DeadRetry
<1>8. CASE SafeAck
  BY <1>8 DEF SafeAck, IsCurrent, Charge, Outcome, Executed, Advance
<1>9. CASE ScanDead
  BY <1>9 DEF ScanDead, DeadMessages
<1>10. CASE RequeueFromDlq
  BY <1>10 DEF RequeueFromDlq, XAdd, Charge, Outcome, Executed, RetryAttempts
<1>11. CASE RetryPush
  BY <1>11 DEF RetryPush, XAdd, Charge, Outcome, Executed, RetryAttempts
<1>12. CASE RetryPark
  BY <1>12 DEF RetryPark, WriteDurableOutbox, Charge, RetryAttempts, Status
<1>13. CASE DeleteDead
  BY <1>13 DEF DeleteDead, Charge, Outcome, Executed
<1>14. CASE WriterCrash
  BY <1>14 DEF WriterCrash
<1>15. ASSUME NEW r \in Replayers, ClaimRow(r) PROVE TypeOK'
  BY <1>15 DEF ClaimRow, SetStatus, Status
<1>16. ASSUME NEW r \in Replayers, ReplayRow(r) PROVE TypeOK'
  <2>1. rep[r].msg \in Msgs
    BY <1>16 DEF ReplayRow
  <2>2. stream' \subseteq Entry /\ nextId' \in Nat /\ faults' \in 0..MaxFaults
    BY <1>16, <2>1 DEF ReplayRow, XAdd, Charge, Outcome, Executed
  <2>3. row' \in [Msgs -> [status : Status, att : Nat]]
    BY <1>16, <2>1 DEF ReplayRow, SetStatus, Status
  <2>4. rep' \in [Replayers -> [pc : {"idle"}] \cup
                              [pc : {"xadd", "mark", "letter"}, msg : Msgs]]
    <3>1. CASE rep' = [rep EXCEPT ![r].pc = "mark"]
      <4>1. rep[r] \in [pc : {"xadd", "mark", "letter"}, msg : Msgs]
        BY <1>16 DEF ReplayRow
      <4>2. [rep[r] EXCEPT !.pc = "mark"] \in [pc : {"xadd", "mark", "letter"}, msg : Msgs]
        BY <4>1
      <4> QED
        BY <3>1, <4>2
    <3>2. CASE rep' = [rep EXCEPT ![r] = [pc |-> "idle"]]
      BY <3>2
    <3> QED
      BY <1>16, <3>1, <3>2 DEF ReplayRow
  <2> QED
    BY <1>16, <2>2, <2>3, <2>4 DEF ReplayRow
<1>17. ASSUME NEW r \in Replayers, MarkReplayed(r) PROVE TypeOK'
  BY <1>17 DEF MarkReplayed, SetStatus, Status
<1>18. ASSUME NEW r \in Replayers, ReclaimLease(r) PROVE TypeOK'
  BY <1>18 DEF ReclaimLease, Charge, SetStatus, Status
<1>19. ASSUME NEW r \in Replayers, QuarantineRow(r) PROVE TypeOK'
  BY <1>19 DEF QuarantineRow, Charge, SetStatus, Status
<1>20. ASSUME NEW r \in Replayers, ReplayerCrash(r) PROVE TypeOK'
  BY <1>20 DEF ReplayerCrash
<1>22. CASE DlqInit
  BY <1>22 DEF DlqInit, Charge
<1>23. ASSUME NEW r \in Replayers, QuarantineLetter(r) PROVE TypeOK'
  BY <1>23 DEF QuarantineLetter, PushDead, Charge, Outcome, Executed, DeadAttempts, DeadRetry, Status
<1>21. CASE UNCHANGED vars
  BY <1>21 DEF vars
<1> QED
  BY <1>1, <1>2, <1>3, <1>4, <1>5, <1>6, <1>7, <1>8, <1>9, <1>10, <1>11, <1>12, <1>13, <1>14, <1>15, <1>16, <1>17, <1>18, <1>19, <1>20, <1>21,
     <1>22, <1>23
     DEF Next, Produce, WriterStep, DlqStep, ReplayStep

\* Redis numbers entries and letters upwards, so no step reuses an id, and db_writer
\* only holds entries that are still in the stream.
LEMMA FreshStep == TypeOK /\ FreshIds /\ [Next]_vars => FreshIds'
<1> SUFFICES ASSUME TypeOK, FreshIds, [Next]_vars PROVE FreshIds'
  OBVIOUS
<1> USE DEF FreshIds, Retrying, TypeOK, Entry, Letter, redisMain, redisDead, writer, sqlite
<1>1. ASSUME NEW m \in Msgs, PushToStream(m) PROVE FreshIds'
  BY <1>1 DEF PushToStream, XAdd, Executed
<1>2. ASSUME NEW m \in Msgs, PushToOutbox(m) PROVE FreshIds'
  BY <1>2 DEF PushToOutbox, WriteDurableOutbox
<1>3. CASE PopReclaimed
  BY <1>3 DEF PopReclaimed, Pending
<1>4. CASE PopNew
  BY <1>4 DEF PopNew, Undelivered
<1>5. CASE CheckInbox
  BY <1>5 DEF CheckInbox
<1>6. CASE ExecuteAtomic
  BY <1>6 DEF ExecuteAtomic, IsCurrent
<1>7. CASE Bury
  BY <1>7 DEF Bury, PushDead, Executed, Advance
<1>8. CASE SafeAck
  BY <1>8 DEF SafeAck, Executed, Advance
<1>9. CASE ScanDead
  BY <1>9 DEF ScanDead, DeadMessages
<1>10. CASE RequeueFromDlq
  BY <1>10 DEF RequeueFromDlq, XAdd, Executed
<1>11. CASE RetryPush
  BY <1>11 DEF RetryPush, XAdd, Executed
<1>12. CASE RetryPark
  <2>1. CASE dlq' = [pc |-> "scan"]
    BY <1>12, <2>1 DEF RetryPark
  <2>2. CASE dlq' = [dlq EXCEPT !.pc = "delete"]
    <3>1. dlq'.letter = dlq.letter
      BY <1>12, <2>2 DEF RetryPark
    <3> QED
      BY <1>12, <3>1 DEF RetryPark
  <2> QED
    BY <1>12, <2>1, <2>2 DEF RetryPark
<1>13. CASE DeleteDead
  BY <1>13 DEF DeleteDead, Executed
<1>14. CASE WriterCrash
  BY <1>14 DEF WriterCrash
<1>15. ASSUME NEW r \in Replayers, ClaimRow(r) PROVE FreshIds'
  BY <1>15 DEF ClaimRow, SetStatus
<1>16. ASSUME NEW r \in Replayers, ReplayRow(r) PROVE FreshIds'
  BY <1>16 DEF ReplayRow, XAdd, Executed, SetStatus
<1>17. ASSUME NEW r \in Replayers, MarkReplayed(r) PROVE FreshIds'
  BY <1>17 DEF MarkReplayed, SetStatus
<1>18. ASSUME NEW r \in Replayers, ReclaimLease(r) PROVE FreshIds'
  BY <1>18 DEF ReclaimLease, SetStatus
<1>19. ASSUME NEW r \in Replayers, QuarantineRow(r) PROVE FreshIds'
  BY <1>19 DEF QuarantineRow, SetStatus
<1>20. ASSUME NEW r \in Replayers, ReplayerCrash(r) PROVE FreshIds'
  BY <1>20 DEF ReplayerCrash
<1>22. CASE DlqInit
  BY <1>22 DEF DlqInit, Charge
<1>23. ASSUME NEW r \in Replayers, QuarantineLetter(r) PROVE FreshIds'
  BY <1>23 DEF QuarantineLetter, PushDead, Executed
<1>21. CASE UNCHANGED vars
  BY <1>21 DEF vars
<1> QED
  BY <1>1, <1>2, <1>3, <1>4, <1>5, <1>6, <1>7, <1>8, <1>9, <1>10, <1>11, <1>12, <1>13, <1>14, <1>15, <1>16, <1>17, <1>18, <1>19, <1>20, <1>21,
     <1>22, <1>23
     DEF Next, Produce, WriterStep, DlqStep, ReplayStep

\* A message that reached the jsonl file, the outbox or SQLite stays there.
LEMMA AtRestStays ==
  ASSUME TypeOK, [Next]_vars, NEW m \in Msgs, AtRest(m)
  PROVE  AtRest(m)'
<1> USE DEF TypeOK, AtRest, redisMain, redisDead, writer, sqlite
<1>1. ASSUME NEW x \in Msgs, PushToStream(x) PROVE AtRest(m)'
  BY <1>1 DEF PushToStream, XAdd, Executed
<1>2. ASSUME NEW x \in Msgs, PushToOutbox(x) PROVE AtRest(m)'
  <2>1. file' = file /\ inbox' = inbox
    BY <1>2 DEF PushToOutbox
  <2>2. row' = row \/ row' = [row EXCEPT ![x] = [status |-> "pending", att |-> 0]]
    BY <1>2 DEF PushToOutbox, WriteDurableOutbox
  <2> QED
    BY <2>1, <2>2
<1>3. CASE PopReclaimed
  BY <1>3 DEF PopReclaimed, Pending
<1>4. CASE PopNew
  BY <1>4 DEF PopNew, Undelivered
<1>5. CASE CheckInbox
  BY <1>5 DEF CheckInbox
<1>6. CASE ExecuteAtomic
  BY <1>6 DEF ExecuteAtomic, IsCurrent
<1>7. CASE Bury
  BY <1>7 DEF Bury, PushDead, Executed, Advance
<1>8. CASE SafeAck
  BY <1>8 DEF SafeAck, Executed, Advance
<1>9. CASE ScanDead
  BY <1>9 DEF ScanDead, DeadMessages
<1>10. CASE RequeueFromDlq
  BY <1>10 DEF RequeueFromDlq, XAdd, Executed
<1>11. CASE RetryPush
  BY <1>11 DEF RetryPush, XAdd, Executed
<1>12. CASE RetryPark
  BY <1>12 DEF RetryPark, WriteDurableOutbox
<1>13. CASE DeleteDead
  BY <1>13 DEF DeleteDead, Executed
<1>14. CASE WriterCrash
  BY <1>14 DEF WriterCrash
<1>15. ASSUME NEW r \in Replayers, ClaimRow(r) PROVE AtRest(m)'
  BY <1>15 DEF ClaimRow, SetStatus
<1>16. ASSUME NEW r \in Replayers, ReplayRow(r) PROVE AtRest(m)'
  BY <1>16 DEF ReplayRow, XAdd, Executed, SetStatus
<1>17. ASSUME NEW r \in Replayers, MarkReplayed(r) PROVE AtRest(m)'
  BY <1>17 DEF MarkReplayed, SetStatus
<1>18. ASSUME NEW r \in Replayers, ReclaimLease(r) PROVE AtRest(m)'
  BY <1>18 DEF ReclaimLease, SetStatus
<1>19. ASSUME NEW r \in Replayers, QuarantineRow(r) PROVE AtRest(m)'
  BY <1>19 DEF QuarantineRow, SetStatus
<1>20. ASSUME NEW r \in Replayers, ReplayerCrash(r) PROVE AtRest(m)'
  BY <1>20 DEF ReplayerCrash
<1>22. CASE DlqInit
  BY <1>22 DEF DlqInit, Charge
<1>23. ASSUME NEW r \in Replayers, QuarantineLetter(r) PROVE AtRest(m)'
  BY <1>23 DEF QuarantineLetter, PushDead, Executed
<1>21. CASE UNCHANGED vars
  BY <1>21 DEF vars
<1> QED
  BY <1>1, <1>2, <1>3, <1>4, <1>5, <1>6, <1>7, <1>8, <1>9, <1>10, <1>11, <1>12, <1>13, <1>14, <1>15, <1>16, <1>17, <1>18, <1>19, <1>20, <1>21,
     <1>22, <1>23
     DEF Next, Produce, WriterStep, DlqStep, ReplayStep

\* The order of the ids is antisymmetric.
LEMMA NatOrder == \A a, b \in Nat : a <= b /\ b <= a => a = b
  OBVIOUS

\* An entry nobody is about to acknowledge stays one, unless its message came to
\* rest or into a letter nobody is about to delete.
LEMMA EntryStays ==
  ASSUME TypeOK, FreshIds, [Next]_vars, NEW e \in stream, ~BeingAcked(e)
  PROVE  (e \in stream' /\ ~BeingAcked(e)') \/ AtRest(e.msg)' \/ InDead(e.msg)'
<1> USE DEF TypeOK, FreshIds, Retrying, Entry, Letter, BeingAcked, BeingDeleted, IsCurrent, AtRest, InDead, redisMain, redisDead, writer, sqlite
<1>0. ASSUME NEW f \in batch, IsCurrent(f), e # f, batch' = batch
      PROVE  ~IsCurrent(e)'
  <2>1. e.id \in Nat /\ f.id \in Nat /\ f \in stream
    BY <1>0
  <2>2. e.id # f.id
    BY <1>0, <2>1
  <2>3. ~(e.id <= f.id) \/ ~(f.id <= e.id)
    BY <2>1, <2>2, NatOrder
  <2> QED
    BY <1>0, <2>3 DEF IsCurrent
<1>1. ASSUME NEW x \in Msgs, PushToStream(x) PROVE (e \in stream' /\ ~BeingAcked(e)') \/ AtRest(e.msg)' \/ InDead(e.msg)'
  BY <1>1 DEF PushToStream, XAdd, Executed
<1>2. ASSUME NEW x \in Msgs, PushToOutbox(x) PROVE (e \in stream' /\ ~BeingAcked(e)') \/ AtRest(e.msg)' \/ InDead(e.msg)'
  BY <1>2 DEF PushToOutbox, WriteDurableOutbox
<1>3. CASE PopReclaimed
  BY <1>3 DEF PopReclaimed, Pending
<1>4. CASE PopNew
  BY <1>4 DEF PopNew, Undelivered
<1>5. CASE CheckInbox
  <2>1. PICK f \in batch : IsCurrent(f) /\ (wpc' = "ack" => f.msg \in inbox)
    BY <1>5 DEF CheckInbox
  <2>2. CASE e = f
    BY <1>5, <2>1, <2>2 DEF CheckInbox
  <2>3. CASE e # f
    BY <1>0, <1>5, <2>1, <2>3 DEF CheckInbox
  <2> QED
    BY <2>2, <2>3
<1>6. CASE ExecuteAtomic
  <2>1. PICK f \in batch : IsCurrent(f) /\ (wpc' = "ack" => f.msg \in inbox')
    BY <1>6 DEF ExecuteAtomic
  <2>2. CASE e = f
    BY <1>6, <2>1, <2>2 DEF ExecuteAtomic
  <2>3. CASE e # f
    BY <1>0, <1>6, <2>1, <2>3 DEF ExecuteAtomic
  <2> QED
    BY <2>2, <2>3
<1>7. CASE Bury
  <2>1. PICK f \in batch, o \in Outcome, filed \in BOOLEAN :
          /\ IsCurrent(f)
          /\ PushDead(o, filed, f.msg, f.att, failure)
          /\ IF DeadOk(o, filed) THEN wpc' = "ack" /\ UNCHANGED <<batch, failure>>
                                ELSE Advance(f)
    BY <1>7 DEF Bury
  <2>2. CASE ~DeadOk(o, filed)
    BY <1>7, <2>1, <2>2 DEF Bury, Advance
  <2>3. CASE DeadOk(o, filed) /\ e # f
    BY <1>0, <1>7, <2>1, <2>3 DEF Bury
  <2>4. CASE e = f /\ o = "ok"
    <3> DEFINE d == [id |-> nextDead, msg |-> e.msg,
                     att |-> DeadAttempts(e.att, failure),
                     retry |-> DeadRetry(e.att, failure)]
    <3>1. d \in dead'
      BY <2>1, <2>4 DEF PushDead, Executed
    <3>2. d.msg = e.msg /\ d.id = nextDead
      OBVIOUS
    <3> QED
      BY <1>7, <3>1, <3>2 DEF Bury
  <2>5. CASE e = f /\ o # "ok" /\ DeadOk(o, filed)
    BY <2>1, <2>5 DEF PushDead, DeadOk
  <2> QED
    BY <2>2, <2>3, <2>4, <2>5
<1>8. CASE SafeAck
  BY <1>8 DEF SafeAck, Executed, Advance
<1>9. CASE ScanDead
  BY <1>9 DEF ScanDead, DeadMessages
<1>10. CASE RequeueFromDlq
  BY <1>10 DEF RequeueFromDlq, XAdd, Executed
<1>11. CASE RetryPush
  BY <1>11 DEF RetryPush, XAdd, Executed
<1>12. CASE RetryPark
  BY <1>12 DEF RetryPark, WriteDurableOutbox
<1>13. CASE DeleteDead
  BY <1>13 DEF DeleteDead, Executed
<1>14. CASE WriterCrash
  BY <1>14 DEF WriterCrash
<1>15. ASSUME NEW r \in Replayers, ClaimRow(r) PROVE (e \in stream' /\ ~BeingAcked(e)') \/ AtRest(e.msg)' \/ InDead(e.msg)'
  BY <1>15 DEF ClaimRow, SetStatus
<1>16. ASSUME NEW r \in Replayers, ReplayRow(r) PROVE (e \in stream' /\ ~BeingAcked(e)') \/ AtRest(e.msg)' \/ InDead(e.msg)'
  BY <1>16 DEF ReplayRow, XAdd, Executed, SetStatus
<1>17. ASSUME NEW r \in Replayers, MarkReplayed(r) PROVE (e \in stream' /\ ~BeingAcked(e)') \/ AtRest(e.msg)' \/ InDead(e.msg)'
  BY <1>17 DEF MarkReplayed, SetStatus
<1>18. ASSUME NEW r \in Replayers, ReclaimLease(r) PROVE (e \in stream' /\ ~BeingAcked(e)') \/ AtRest(e.msg)' \/ InDead(e.msg)'
  BY <1>18 DEF ReclaimLease, SetStatus
<1>19. ASSUME NEW r \in Replayers, QuarantineRow(r) PROVE (e \in stream' /\ ~BeingAcked(e)') \/ AtRest(e.msg)' \/ InDead(e.msg)'
  BY <1>19 DEF QuarantineRow, SetStatus
<1>20. ASSUME NEW r \in Replayers, ReplayerCrash(r) PROVE (e \in stream' /\ ~BeingAcked(e)') \/ AtRest(e.msg)' \/ InDead(e.msg)'
  BY <1>20 DEF ReplayerCrash
<1>22. CASE DlqInit
  BY <1>22 DEF DlqInit, Charge
<1>23. ASSUME NEW r \in Replayers, QuarantineLetter(r) PROVE (e \in stream' /\ ~BeingAcked(e)') \/ AtRest(e.msg)' \/ InDead(e.msg)'
  BY <1>23 DEF QuarantineLetter, PushDead, Executed
<1>21. CASE UNCHANGED vars
  BY <1>21 DEF vars
<1> QED
  BY <1>1, <1>2, <1>3, <1>4, <1>5, <1>6, <1>7, <1>8, <1>9, <1>10, <1>11, <1>12, <1>13, <1>14, <1>15, <1>16, <1>17, <1>18, <1>19, <1>20, <1>21,
     <1>22, <1>23
     DEF Next, Produce, WriterStep, DlqStep, ReplayStep

\* A letter nobody is about to delete stays one, unless its message came to rest
\* or into an entry nobody is about to acknowledge.
LEMMA LetterStays ==
  ASSUME TypeOK, FreshIds, [Next]_vars, NEW d \in dead, ~BeingDeleted(d)
  PROVE  (d \in dead' /\ ~BeingDeleted(d)') \/ AtRest(d.msg)' \/ InStream(d.msg)'
<1> USE DEF TypeOK, FreshIds, Retrying, Entry, Letter, BeingAcked, BeingDeleted, IsCurrent, AtRest, InStream, redisMain, redisDead, writer, sqlite
<1>1. ASSUME NEW x \in Msgs, PushToStream(x) PROVE (d \in dead' /\ ~BeingDeleted(d)') \/ AtRest(d.msg)' \/ InStream(d.msg)'
  BY <1>1 DEF PushToStream, XAdd, Executed
<1>2. ASSUME NEW x \in Msgs, PushToOutbox(x) PROVE (d \in dead' /\ ~BeingDeleted(d)') \/ AtRest(d.msg)' \/ InStream(d.msg)'
  BY <1>2 DEF PushToOutbox, WriteDurableOutbox
<1>3. CASE PopReclaimed
  BY <1>3 DEF PopReclaimed, Pending
<1>4. CASE PopNew
  BY <1>4 DEF PopNew, Undelivered
<1>5. CASE CheckInbox
  BY <1>5 DEF CheckInbox
<1>6. CASE ExecuteAtomic
  BY <1>6 DEF ExecuteAtomic, IsCurrent
<1>7. CASE Bury
  BY <1>7 DEF Bury, PushDead, Executed, Advance
<1>8. CASE SafeAck
  BY <1>8 DEF SafeAck, Executed, Advance
<1>9. CASE ScanDead
  BY <1>9 DEF ScanDead, DeadMessages
<1>10. CASE RequeueFromDlq
  <2>1. PICK o \in Outcome :
          /\ XAdd(o, dlq.letter.msg, RetryAttempts(dlq.letter))
          /\ dead' = IF Executed(o) THEN dead \ {dlq.letter} ELSE dead
          /\ dlq' = IF o = "ok" THEN [pc |-> "scan"] ELSE [dlq EXCEPT !.pc = "push"]
    BY <1>10 DEF RequeueFromDlq
  <2>2. dlq'.pc # "delete"
    BY <1>10, <2>1 DEF RequeueFromDlq
  <2>3. CASE d \in dead'
    BY <2>2, <2>3
  <2>4. CASE d \notin dead'
    <3>1. d = dlq.letter /\ Executed(o)
      BY <2>1, <2>4
    <3> DEFINE e == [id |-> nextId, msg |-> d.msg, att |-> RetryAttempts(d)]
    <3>2. e \in stream' /\ e.msg = d.msg /\ e.id = nextId
      BY <2>1, <3>1 DEF XAdd
    <3> QED
      BY <1>10, <3>2 DEF RequeueFromDlq
  <2> QED
    BY <2>3, <2>4
<1>11. CASE RetryPush
  <2>1. PICK o \in Outcome :
          /\ XAdd(o, dlq.letter.msg, RetryAttempts(dlq.letter))
          /\ dlq' = [dlq EXCEPT !.pc = IF o = "ok" THEN "delete" ELSE "park"]
    BY <1>11 DEF RetryPush
  <2>2. dlq'.letter = dlq.letter /\ dead' = dead
    BY <1>11, <2>1 DEF RetryPush
  <2>3. CASE o # "ok" \/ d # dlq.letter
    BY <1>11, <2>1, <2>2, <2>3 DEF RetryPush
  <2>4. CASE o = "ok" /\ d = dlq.letter
    <3> DEFINE e == [id |-> nextId, msg |-> d.msg, att |-> RetryAttempts(d)]
    <3>1. e \in stream' /\ e.msg = d.msg /\ e.id = nextId
      BY <2>1, <2>4 DEF XAdd, Executed
    <3> QED
      BY <1>11, <3>1 DEF RetryPush
  <2> QED
    BY <2>3, <2>4
<1>12. CASE RetryPark
  <2>1. CASE dlq' = [pc |-> "scan"]
    BY <1>12, <2>1 DEF RetryPark
  <2>2. CASE /\ WriteDurableOutbox(dlq.letter.msg, RetryAttempts(dlq.letter))
             /\ dlq' = [dlq EXCEPT !.pc = "delete"]
    <3>1. dlq.letter \in Letter /\ dlq'.letter = dlq.letter /\ dead' = dead
      BY <1>12, <2>2 DEF RetryPark
    <3>2. row'[dlq.letter.msg].status # "none"
      BY <2>2, <3>1 DEF WriteDurableOutbox
    <3> QED
      BY <3>1, <3>2
  <2> QED
    BY <1>12, <2>1, <2>2 DEF RetryPark
<1>13. CASE DeleteDead
  BY <1>13 DEF DeleteDead, Executed
<1>14. CASE WriterCrash
  BY <1>14 DEF WriterCrash
<1>15. ASSUME NEW r \in Replayers, ClaimRow(r) PROVE (d \in dead' /\ ~BeingDeleted(d)') \/ AtRest(d.msg)' \/ InStream(d.msg)'
  BY <1>15 DEF ClaimRow, SetStatus
<1>16. ASSUME NEW r \in Replayers, ReplayRow(r) PROVE (d \in dead' /\ ~BeingDeleted(d)') \/ AtRest(d.msg)' \/ InStream(d.msg)'
  BY <1>16 DEF ReplayRow, XAdd, Executed, SetStatus
<1>17. ASSUME NEW r \in Replayers, MarkReplayed(r) PROVE (d \in dead' /\ ~BeingDeleted(d)') \/ AtRest(d.msg)' \/ InStream(d.msg)'
  BY <1>17 DEF MarkReplayed, SetStatus
<1>18. ASSUME NEW r \in Replayers, ReclaimLease(r) PROVE (d \in dead' /\ ~BeingDeleted(d)') \/ AtRest(d.msg)' \/ InStream(d.msg)'
  BY <1>18 DEF ReclaimLease, SetStatus
<1>19. ASSUME NEW r \in Replayers, QuarantineRow(r) PROVE (d \in dead' /\ ~BeingDeleted(d)') \/ AtRest(d.msg)' \/ InStream(d.msg)'
  BY <1>19 DEF QuarantineRow, SetStatus
<1>20. ASSUME NEW r \in Replayers, ReplayerCrash(r) PROVE (d \in dead' /\ ~BeingDeleted(d)') \/ AtRest(d.msg)' \/ InStream(d.msg)'
  BY <1>20 DEF ReplayerCrash
<1>22. CASE DlqInit
  BY <1>22 DEF DlqInit, Charge
<1>23. ASSUME NEW r \in Replayers, QuarantineLetter(r) PROVE (d \in dead' /\ ~BeingDeleted(d)') \/ AtRest(d.msg)' \/ InStream(d.msg)'
  BY <1>23 DEF QuarantineLetter, PushDead, Executed
<1>21. CASE UNCHANGED vars
  BY <1>21 DEF vars
<1> QED
  BY <1>1, <1>2, <1>3, <1>4, <1>5, <1>6, <1>7, <1>8, <1>9, <1>10, <1>11, <1>12, <1>13, <1>14, <1>15, <1>16, <1>17, <1>18, <1>19, <1>20, <1>21,
     <1>22, <1>23
     DEF Next, Produce, WriterStep, DlqStep, ReplayStep

\* push() answers "ok" only for a message that it has stored.
LEMMA AcceptedIsStored ==
  ASSUME TypeOK, FreshIds, [Next]_vars, NEW m \in Msgs, reply[m] # "ok", reply'[m] = "ok"
  PROVE  InStream(m)' \/ AtRest(m)'
<1> USE DEF TypeOK, FreshIds, Retrying, Entry, BeingAcked, IsCurrent, AtRest, InStream, redisMain, redisDead, writer, sqlite
<1>1. ASSUME NEW x \in Msgs, PushToStream(x) PROVE InStream(m)' \/ AtRest(m)'
  <2>1. x = m /\ XAdd("ok", m, 0)
    BY <1>1 DEF PushToStream, Outcome
  <2> DEFINE e == [id |-> nextId, msg |-> m, att |-> 0]
  <2>2. e \in stream' /\ e.msg = m /\ e.id = nextId
    BY <2>1 DEF XAdd, Executed
  <2> QED
    BY <1>1, <2>2 DEF PushToStream
<1>2. ASSUME NEW x \in Msgs, PushToOutbox(x) PROVE InStream(m)' \/ AtRest(m)'
  <2>1. x = m /\ WriteDurableOutbox(m, 0)
    BY <1>2 DEF PushToOutbox, Reply
  <2> QED
    BY <2>1 DEF WriteDurableOutbox
<1>3. CASE PopReclaimed
  BY <1>3 DEF PopReclaimed, Pending
<1>4. CASE PopNew
  BY <1>4 DEF PopNew, Undelivered
<1>5. CASE CheckInbox
  BY <1>5 DEF CheckInbox
<1>6. CASE ExecuteAtomic
  BY <1>6 DEF ExecuteAtomic, IsCurrent
<1>7. CASE Bury
  BY <1>7 DEF Bury, PushDead, Executed, Advance
<1>8. CASE SafeAck
  BY <1>8 DEF SafeAck, Executed, Advance
<1>9. CASE ScanDead
  BY <1>9 DEF ScanDead, DeadMessages
<1>10. CASE RequeueFromDlq
  BY <1>10 DEF RequeueFromDlq, XAdd, Executed
<1>11. CASE RetryPush
  BY <1>11 DEF RetryPush, XAdd, Executed
<1>12. CASE RetryPark
  BY <1>12 DEF RetryPark, WriteDurableOutbox
<1>13. CASE DeleteDead
  BY <1>13 DEF DeleteDead, Executed
<1>14. CASE WriterCrash
  BY <1>14 DEF WriterCrash
<1>15. ASSUME NEW r \in Replayers, ClaimRow(r) PROVE InStream(m)' \/ AtRest(m)'
  BY <1>15 DEF ClaimRow, SetStatus
<1>16. ASSUME NEW r \in Replayers, ReplayRow(r) PROVE InStream(m)' \/ AtRest(m)'
  BY <1>16 DEF ReplayRow, XAdd, Executed, SetStatus
<1>17. ASSUME NEW r \in Replayers, MarkReplayed(r) PROVE InStream(m)' \/ AtRest(m)'
  BY <1>17 DEF MarkReplayed, SetStatus
<1>18. ASSUME NEW r \in Replayers, ReclaimLease(r) PROVE InStream(m)' \/ AtRest(m)'
  BY <1>18 DEF ReclaimLease, SetStatus
<1>19. ASSUME NEW r \in Replayers, QuarantineRow(r) PROVE InStream(m)' \/ AtRest(m)'
  BY <1>19 DEF QuarantineRow, SetStatus
<1>20. ASSUME NEW r \in Replayers, ReplayerCrash(r) PROVE InStream(m)' \/ AtRest(m)'
  BY <1>20 DEF ReplayerCrash
<1>22. CASE DlqInit
  BY <1>22 DEF DlqInit, Charge
<1>23. ASSUME NEW r \in Replayers, QuarantineLetter(r) PROVE InStream(m)' \/ AtRest(m)'
  BY <1>23 DEF QuarantineLetter, PushDead, Executed
<1>21. CASE UNCHANGED vars
  BY <1>21 DEF vars
<1> QED
  BY <1>1, <1>2, <1>3, <1>4, <1>5, <1>6, <1>7, <1>8, <1>9, <1>10, <1>11, <1>12, <1>13, <1>14, <1>15, <1>16, <1>17, <1>18, <1>19, <1>20, <1>21,
     <1>22, <1>23
     DEF Next, Produce, WriterStep, DlqStep, ReplayStep

\* No step loses an accepted message.
LEMMA KeptStep == TypeOK /\ FreshIds /\ AcceptedKept /\ [Next]_vars => AcceptedKept'
<1> SUFFICES ASSUME TypeOK, FreshIds, AcceptedKept, [Next]_vars,
                    NEW m \in Msgs, reply'[m] = "ok"
             PROVE  Kept(m)'
  BY DEF AcceptedKept
<1>1. CASE reply[m] # "ok"
  BY <1>1, AcceptedIsStored DEF Kept
<1>2. CASE reply[m] = "ok" /\ AtRest(m)
  BY <1>2, AtRestStays DEF Kept
<1>3. ASSUME NEW e \in stream, e.msg = m, ~BeingAcked(e) PROVE Kept(m)'
  BY <1>3, EntryStays DEF Kept, InStream
<1>4. ASSUME NEW d \in dead, d.msg = m, ~BeingDeleted(d) PROVE Kept(m)'
  BY <1>4, LetterStays DEF Kept, InDead
<1> QED
  BY <1>1, <1>2, <1>3, <1>4 DEF AcceptedKept, Kept, InStream, InDead

\* Nothing enters the pipeline but what a producer pushed.
LEMMA SubmittedStep == TypeOK /\ FreshIds /\ OnlySubmitted /\ [Next]_vars => OnlySubmitted'
<1> SUFFICES ASSUME TypeOK, FreshIds, OnlySubmitted, [Next]_vars PROVE OnlySubmitted'
  OBVIOUS
<1> USE DEF FreshIds, Retrying, TypeOK, Entry, Letter, OnlySubmitted, redisMain, redisDead, writer, sqlite
<1>1. ASSUME NEW m \in Msgs, PushToStream(m) PROVE OnlySubmitted'
  BY <1>1 DEF PushToStream, XAdd, Executed
<1>2. ASSUME NEW m \in Msgs, PushToOutbox(m) PROVE OnlySubmitted'
  <2>1. \A y \in Msgs : row'[y].status # "none" => row[y].status # "none" \/ y = m
    BY <1>2 DEF PushToOutbox, WriteDurableOutbox
  <2>2. \A y \in Msgs : reply[y] # "new" => reply'[y] # "new"
    BY <1>2 DEF PushToOutbox, Reply
  <2>3. reply'[m] # "new"
    BY <1>2 DEF PushToOutbox, Reply
  <2> QED
    BY <1>2, <2>1, <2>2, <2>3 DEF PushToOutbox
<1>3. CASE PopReclaimed
  BY <1>3 DEF PopReclaimed, Pending
<1>4. CASE PopNew
  BY <1>4 DEF PopNew, Undelivered
<1>5. CASE CheckInbox
  BY <1>5 DEF CheckInbox
<1>6. CASE ExecuteAtomic
  BY <1>6 DEF ExecuteAtomic, IsCurrent
<1>7. CASE Bury
  BY <1>7 DEF Bury, PushDead, Executed, Advance
<1>8. CASE SafeAck
  BY <1>8 DEF SafeAck, Executed, Advance
<1>9. CASE ScanDead
  BY <1>9 DEF ScanDead, DeadMessages
<1>10. CASE RequeueFromDlq
  BY <1>10 DEF RequeueFromDlq, XAdd, Executed
<1>11. CASE RetryPush
  BY <1>11 DEF RetryPush, XAdd, Executed
<1>12. CASE RetryPark
  <2>1. dlq.letter \in Letter /\ (Retrying' => dlq'.letter = dlq.letter)
    <3>1. dlq.letter \in Letter
      BY <1>12 DEF RetryPark
    <3>2. CASE dlq' = [dlq EXCEPT !.pc = "delete"]
      BY <1>12, <3>1, <3>2 DEF RetryPark
    <3>3. CASE dlq' = [pc |-> "scan"]
      BY <3>1, <3>3
    <3> QED
      BY <1>12, <3>2, <3>3 DEF RetryPark
  <2>2. \A y \in Msgs : row'[y].status # "none" =>
                         row[y].status # "none" \/ y = dlq.letter.msg
    BY <1>12, <2>1 DEF RetryPark, WriteDurableOutbox
  <2> QED
    BY <1>12, <2>1, <2>2 DEF RetryPark
<1>13. CASE DeleteDead
  BY <1>13 DEF DeleteDead, Executed
<1>14. CASE WriterCrash
  BY <1>14 DEF WriterCrash
<1>15. ASSUME NEW r \in Replayers, ClaimRow(r) PROVE OnlySubmitted'
  BY <1>15 DEF ClaimRow, SetStatus
<1>16. ASSUME NEW r \in Replayers, ReplayRow(r) PROVE OnlySubmitted'
  BY <1>16 DEF ReplayRow, XAdd, Executed, SetStatus
<1>17. ASSUME NEW r \in Replayers, MarkReplayed(r) PROVE OnlySubmitted'
  BY <1>17 DEF MarkReplayed, SetStatus
<1>18. ASSUME NEW r \in Replayers, ReclaimLease(r) PROVE OnlySubmitted'
  BY <1>18 DEF ReclaimLease, SetStatus
<1>19. ASSUME NEW r \in Replayers, QuarantineRow(r) PROVE OnlySubmitted'
  BY <1>19 DEF QuarantineRow, SetStatus
<1>20. ASSUME NEW r \in Replayers, ReplayerCrash(r) PROVE OnlySubmitted'
  BY <1>20 DEF ReplayerCrash
<1>22. CASE DlqInit
  BY <1>22 DEF DlqInit, Charge
<1>23. ASSUME NEW r \in Replayers, QuarantineLetter(r) PROVE OnlySubmitted'
  BY <1>23 DEF QuarantineLetter, PushDead, Executed
<1>21. CASE UNCHANGED vars
  BY <1>21 DEF vars
<1> QED
  BY <1>1, <1>2, <1>3, <1>4, <1>5, <1>6, <1>7, <1>8, <1>9, <1>10, <1>11, <1>12, <1>13, <1>14, <1>15, <1>16, <1>17, <1>18, <1>19, <1>20, <1>21,
     <1>22, <1>23
     DEF Next, Produce, WriterStep, DlqStep, ReplayStep


\* The DLQ worker picks up retryable letters only.
LEMMA HoldsStep == TypeOK /\ HoldsRetryable /\ [Next]_vars => HoldsRetryable'
<1> SUFFICES ASSUME TypeOK, HoldsRetryable, [Next]_vars PROVE HoldsRetryable'
  OBVIOUS
<1> USE DEF TypeOK, HoldsRetryable, Retrying, Letter, writer
<1>1. CASE UNCHANGED dlq
  BY <1>1 DEF IsRetryable
<1>2. CASE ScanDead
  BY <1>2 DEF ScanDead, DeadMessages, IsRetryable
<1>3. CASE RequeueFromDlq
  BY <1>3 DEF RequeueFromDlq, IsRetryable
<1>4. CASE RetryPush
  BY <1>4 DEF RetryPush, IsRetryable
<1>5. CASE RetryPark
  <2>1. dlq' = [dlq EXCEPT !.pc = "delete"] \/ dlq' = [pc |-> "scan"]
    BY <1>5 DEF RetryPark
  <2> QED
    BY <1>5, <2>1 DEF RetryPark, IsRetryable
<1>6. CASE DeleteDead
  BY <1>6 DEF DeleteDead
<1>7. CASE WriterCrash
  BY <1>7 DEF WriterCrash
<1>8. CASE DlqInit
  BY <1>8 DEF DlqInit
<1> QED
  BY <1>1, <1>2, <1>3, <1>4, <1>5, <1>6, <1>7, <1>8
     DEF Next, vars, Produce, WriterStep, DlqStep, ReplayStep, PushToStream,
         PushToOutbox, PopReclaimed, PopNew, CheckInbox, ExecuteAtomic, Bury,
         SafeAck, ClaimRow, ReplayRow, MarkReplayed, ReclaimLease,
         QuarantineRow, QuarantineLetter, DlqInit, ReplayerCrash

\* Without a caller of replay_durable_outbox no row is claimed or replayed.
LEMMA NoReplayStep == TypeOK /\ NoReplay /\ [Next]_vars => NoReplay'
<1> SUFFICES ASSUME TypeOK, ~ReplayCalled, NoReplay, [Next]_vars
             PROVE  /\ \A m \in Msgs : row'[m].status \in {"none", "pending"}
                    /\ \A r \in Replayers : rep'[r].pc = "idle"
  BY DEF NoReplay
<1> USE DEF TypeOK, NoReplay
<1>1. CASE UNCHANGED <<row, rep>>
  BY <1>1
<1>2. ASSUME NEW m \in Msgs, PushToOutbox(m)
      PROVE  UNCHANGED rep /\ \A x \in Msgs : row'[x].status \in {"none", "pending"}
  <2>1. row' = row \/ (row[m].status = "none" /\ row' = [row EXCEPT ![m] =
                                        [status |-> "pending", att |-> 0]])
    BY <1>2 DEF PushToOutbox, WriteDurableOutbox
  <2> QED
    BY <1>2, <2>1 DEF PushToOutbox
<1>3. ASSUME RetryPark
      PROVE  UNCHANGED rep /\ \A x \in Msgs : row'[x].status \in {"none", "pending"}
  <2>1. row' = row \/ row' = [row EXCEPT ![dlq.letter.msg] =
                 [status |-> "pending", att |-> RetryAttempts(dlq.letter)]]
    BY <1>3 DEF RetryPark, WriteDurableOutbox
  <2>2. dlq.letter.msg \in Msgs
    BY <1>3 DEF RetryPark, Letter
  <2> QED
    BY <1>3, <2>1, <2>2 DEF RetryPark
<1>4. ASSUME NEW r \in Replayers PROVE ~ReplayStep(r) /\ ~ReclaimLease(r)
                                       /\ ~QuarantineRow(r) /\ ~ReplayerCrash(r)
  BY DEF ReplayStep, ClaimRow, ReplayRow, MarkReplayed, ReclaimLease,
         QuarantineRow, QuarantineLetter, ReplayerCrash
<1> QED
  BY <1>1, <1>2, <1>3, <1>4
     DEF Next, vars, Produce, WriterStep, DlqStep, PushToStream, PopReclaimed,
         PopNew, CheckInbox, ExecuteAtomic, Bury, SafeAck, ScanDead,
         DlqInit, RequeueFromDlq, RetryPush, DeleteDead, WriterCrash

\* Only a transaction that found no inbox row touches the inbox and the effects.
LEMMA EffectStep ==
  ASSUME TypeOK, [Next]_vars
  PROVE  \/ UNCHANGED sqlite
         \/ \E e \in batch : /\ wpc = "execute" /\ e.msg \notin inbox
                             /\ inbox' = inbox \cup {e.msg}
                             /\ applied' = [applied EXCEPT ![e.msg] = @ + 1]
                             /\ UNCHANGED reply
<1>1. CASE ExecuteAtomic
  BY <1>1 DEF ExecuteAtomic
<1> QED
  BY <1>1
     DEF Next, vars, Produce, WriterStep, DlqStep, ReplayStep, PushToStream,
         PushToOutbox, PopReclaimed, PopNew, CheckInbox, Bury, SafeAck, ScanDead,
         RequeueFromDlq, RetryPush, RetryPark, DeleteDead, WriterCrash, ClaimRow,
         ReplayRow, MarkReplayed, ReclaimLease, QuarantineRow, QuarantineLetter, DlqInit, ReplayerCrash

\* Inbox rows and effects are committed together and only once.
LEMMA OnceStep == TypeOK /\ ExactlyOnce /\ [Next]_vars => ExactlyOnce'
<1> SUFFICES ASSUME TypeOK, ExactlyOnce, [Next]_vars PROVE ExactlyOnce'
  OBVIOUS
<1>1. CASE UNCHANGED sqlite
  BY <1>1 DEF ExactlyOnce, sqlite
<1>2. CASE ~UNCHANGED sqlite
  <2>1. PICK e \in batch : /\ e.msg \notin inbox
                           /\ inbox' = inbox \cup {e.msg}
                           /\ applied' = [applied EXCEPT ![e.msg] = @ + 1]
    BY <1>2, EffectStep
  <2> QED
    BY <2>1 DEF ExactlyOnce, TypeOK, Entry
<1> QED
  BY <1>1, <1>2

-----------------------------------------------------------------------------
\* The inductive invariant holds in every reachable state.
THEOREM Invariance == Spec => []IInv
<1>1. Init => IInv
  BY DEF Init, IInv, TypeOK, ExactlyOnce, FreshIds, AcceptedKept, OnlySubmitted,
         HoldsRetryable, Retrying, NoReplay, PipelineAssumption, Reply, Status, Entry,
         Letter, Failure
<1>2. IInv /\ [Next]_vars => IInv'
  BY TypeStep, OnceStep, FreshStep, KeptStep, SubmittedStep, HoldsStep,
     NoReplayStep DEF IInv
<1> QED
  BY <1>1, <1>2, PTL DEF Spec

\* Every variable of the pipeline keeps its type: in particular the bounded
\* budgets, and the shape of entries, letters and outbox rows.
THEOREM TypeCorrect == Spec => []TypeOK
<1>1. IInv => TypeOK
  BY DEF IInv
<1> QED
  BY <1>1, Invariance, PTL

\* The business write of a message is committed exactly when its writer_inbox
\* row is, and at most once (DBWriter._execute_atomic).
THEOREM AppliedExactlyOnce == Spec => []ExactlyOnce
<1>1. IInv => ExactlyOnce
  BY DEF IInv
<1> QED
  BY <1>1, Invariance, PTL

\* However the outbox is replayed, a write reported as persisted leaves a copy
\* or, at worst, an outbox row already marked replayed.
THEOREM LossIsBehindReplayedRow == Spec => []LossOnlyBehindReplayedRow
<1>1. IInv => LossOnlyBehindReplayedRow
  BY DEF IInv, TypeOK, Status, AcceptedKept, Kept, InStream, InDead, AtRest,
         LossOnlyBehindReplayedRow, Located, HasRow
<1> QED
  BY <1>1, Invariance, PTL

\* Nobody calling replay_durable_outbox, as in this repository, a write reported
\* as persisted is never lost.
THEOREM NothingLost == ~ReplayCalled => (Spec => []NoLoss)
<1> SUFFICES ASSUME ~ReplayCalled PROVE Spec => []NoLoss
  OBVIOUS
<1>1. IInv => NoLoss
  BY DEF IInv, AcceptedKept, Kept, InStream, InDead, AtRest, NoLoss, Located,
         HasRow, NoReplay
<1> QED
  BY <1>1, Invariance, PTL

\* A dead letter marked final is never requeued or deleted by the DLQ worker.
THEOREM FinalLettersStay == Spec => PermanentLettersStay
<1>1. IInv /\ [Next]_vars => \A d \in dead : d.retry = "never" => d \in dead'
  <2> SUFFICES ASSUME IInv, [Next]_vars, NEW d \in dead, d.retry = "never"
               PROVE  d \in dead'
    OBVIOUS
  <2>1. Retrying => d # dlq.letter
    BY DEF IInv, HoldsRetryable, IsRetryable
  <2> QED
    BY <2>1
       DEF Retrying, Next, vars, Produce, WriterStep, DlqStep, ReplayStep, PushToStream,
           PushToOutbox, PopReclaimed, PopNew, CheckInbox, ExecuteAtomic, Bury,
           SafeAck, ScanDead, RequeueFromDlq, RetryPush, RetryPark, DeleteDead,
           WriterCrash, ClaimRow, ReplayRow, MarkReplayed, ReclaimLease,
           QuarantineRow, QuarantineLetter, DlqInit, ReplayerCrash, PushDead, redisDead
<1> QED
  BY <1>1, Invariance, PTL DEF Spec, PermanentLettersStay

\* The pipeline implements OnceOnlyWrites: every step is a submission, an
\* effect taken once, or invisible.
THEOREM Refinement == Spec => ImplementsOnceOnly
<1>1. Init => Abstract!Init
  BY DEF Init, Abstract!Init
<1>2. IInv /\ [Next]_vars => [Abstract!Next]_(Abstract!absVars)
  <2> SUFFICES ASSUME IInv, [Next]_vars
               PROVE  [Abstract!Next]_(Abstract!absVars)
    OBVIOUS
  <2> DEFINE sub == {m \in Msgs : reply[m] # "new"}
  <2>1. CASE UNCHANGED sqlite
    <3>1. ASSUME NEW m \in Msgs, PushToStream(m)
          PROVE  m \notin sub /\ sub' = sub \cup {m}
      BY <3>1 DEF IInv, TypeOK, PushToStream, Reply
    <3>2. ASSUME NEW m \in Msgs, PushToOutbox(m) PROVE sub' = sub
      BY <3>2 DEF IInv, TypeOK, PushToOutbox, Reply
    <3>3. ASSUME NEW m \in Msgs, PushToStream(m) PROVE Abstract!Submit(m)
      BY <2>1, <3>1, <3>3 DEF Abstract!Submit, sqlite
    <3>4. CASE ~Produce
      <4>1. reply' = reply
        BY <3>4 DEF Next, vars, WriterStep, DlqStep, ReplayStep, PopReclaimed,
           PopNew, CheckInbox, ExecuteAtomic, Bury, SafeAck, ScanDead,
           RequeueFromDlq, RetryPush, RetryPark, DeleteDead, WriterCrash,
           ClaimRow, ReplayRow, MarkReplayed, ReclaimLease, QuarantineRow, QuarantineLetter,
           DlqInit, ReplayerCrash
      <4> QED
        BY <2>1, <4>1 DEF Abstract!absVars, sqlite
    <3> QED
      BY <2>1, <3>2, <3>3, <3>4 DEF Produce, Abstract!Next, Abstract!absVars, sqlite
  <2>2. CASE ~UNCHANGED sqlite
    <3>1. PICK e \in batch : /\ e.msg \notin inbox
                             /\ applied' = [applied EXCEPT ![e.msg] = @ + 1]
                             /\ UNCHANGED reply
      BY <2>2, EffectStep DEF IInv
    <3>2. e.msg \in Msgs /\ e.msg \in sub /\ applied[e.msg] = 0
      BY <3>1 DEF IInv, TypeOK, Entry, ExactlyOnce, FreshIds, OnlySubmitted
    <3>3. Abstract!TakeEffect(e.msg)
      BY <3>1, <3>2 DEF Abstract!TakeEffect, IInv, TypeOK
    <3> QED
      BY <3>2, <3>3 DEF Abstract!Next
  <2> QED
    BY <2>1, <2>2
<1> QED
  BY <1>1, <1>2, Invariance, PTL DEF Spec, ImplementsOnceOnly, Abstract!Spec

=============================================================================
