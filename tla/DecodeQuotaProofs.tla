-------------------------- MODULE DecodeQuotaProofs --------------------------
(***************************************************************************)
(* Theorems about DecodeQuota, for any finite set of requests, any quota   *)
(* and any number of days and errors: the type invariant; the counter is   *)
(* exact on every day without a named race and without an error, and the   *)
(* quota is held on every day without a race, whatever raises; a charge is *)
(* refused for one of the named reasons only.                              *)
(***************************************************************************)
EXTENDS DecodeQuota, FiniteSetTheorems, SequenceTheorems, TLAPS

-----------------------------------------------------------------------------
(* Type correctness.                                                       *)

\* A copy keeps its type when its level, its count or its day is replaced.
LEMMA CopyTypes ==
    ASSUME TypeOK, NEW r \in Requests
    PROVE  /\ [copy[r] EXCEPT !.row.level = asked[r]] \in Copies
           /\ ResetOf(r, copy[r]) \in Copies
<1>1. copy[r] \in Copies /\ asked[r] \in Levels /\ day \in 0..MaxDay
  BY QuotaAssumption DEF TypeOK
<1>2. [copy[r] EXCEPT !.row.level = asked[r]] \in Copies
  BY <1>1 DEF Copies, Rows
<1>3. [copy[r] EXCEPT !.row.used = 0, !.row.day = day] \in Copies
  BY <1>1 DEF Copies, Rows
<1> QED
  BY <1>1, <1>2, <1>3 DEF ResetOf

\* A request moves to one of the steps.
LEMMA GotoTypes ==
    ASSUME TypeOK, NEW r \in Requests, NEW step \in Steps, Goto(r, step)
    PROVE  pc' \in [Requests -> Steps]
BY DEF TypeOK, Goto

\* A queued upsert has a copy as its content.
LEMMA UpsertTypes ==
    ASSUME TypeOK, NEW c \in Copies, Upsert(c)
    PROVE  pending' \in Seq(Copies)
BY DEF TypeOK, Upsert

\* No copy is a copy.
LEMMA NoCopyTypes == NoRow \in Rows /\ NoCopy \in Copies
BY QuotaAssumption DEF NoCopy, NoRow, Copies, Rows, Levels

\* What the pieces of a charge, a refund, a commit and a rollback do to the types.
LEMMA PieceTypes ==
    ASSUME TypeOK, NEW r \in Requests
    PROVE  /\ row.day \in 0..MaxDay
           /\ AddOne => row' \in Rows /\ moves' \in Nat
           /\ TakeBack(r) => /\ row' \in Rows /\ moves' \in Nat
                             /\ paid' \subseteq Requests /\ raced' \subseteq 0..MaxDay
           /\ row' \in Rows /\ Committed => open' \in BOOLEAN /\ kept' \in Rows
           /\ RolledBack => /\ row' \in Rows /\ moves' \in Nat
                            /\ open' \in BOOLEAN /\ kept' \in Rows
           /\ Raises => open' \in BOOLEAN /\ kept' \in Rows /\ errors' \in 0..MaxErrors
<1>0. row \in Rows /\ kept \in Rows /\ moves \in Nat
  BY DEF TypeOK
<1>1. row.day \in 0..MaxDay
  BY <1>0 DEF Rows
<1>2. AddOne => row' \in Rows /\ moves' \in Nat
  BY <1>0 DEF AddOne, Rows
<1>3. RefundOf(row) \in Rows
  <2>1. CASE row.used > 0
    <3>1. [row EXCEPT !.used = @ - 1] \in Rows
      BY <1>0, <2>1 DEF Rows
    <3> QED
      BY <1>0, <3>1 DEF RefundOf, Rows
  <2>2. CASE ~(row.used > 0)
    BY <1>0, <2>2 DEF RefundOf, Rows
  <2> QED
    BY <2>1, <2>2
<1>4. TakeBack(r) => raced' \subseteq 0..MaxDay
  BY <1>1 DEF TypeOK, TakeBack
<1>5. TakeBack(r) => row' \in Rows /\ moves' \in Nat /\ paid' \subseteq Requests
  BY <1>0, <1>3 DEF TypeOK, TakeBack
<1>6. row' \in Rows /\ Committed => open' \in BOOLEAN /\ kept' \in Rows
  BY DEF Committed
<1>7. RolledBack => /\ row' \in Rows /\ moves' \in Nat
                    /\ open' \in BOOLEAN /\ kept' \in Rows
  <2>1. RolledBack => row' \in Rows /\ open' \in BOOLEAN /\ kept' \in Rows
    BY <1>0 DEF RolledBack
  <2>2. RolledBack => moves' = moves \/ moves' = moves + 1
    BY DEF RolledBack
  <2> QED
    BY <1>0, <2>1, <2>2
<1>8. Raises => open' \in BOOLEAN /\ kept' \in Rows /\ errors' \in 0..MaxErrors
  BY <1>0, QuotaAssumption DEF TypeOK, Raises
<1> QED
  BY <1>1, <1>2, <1>4, <1>5, <1>6, <1>7, <1>8

\* The steps of the check keep the types.
LEMMA CheckTypes ==
    ASSUME TypeOK, NEW r \in Requests, Check(r)
    PROVE  TypeOK'
<1> USE DEF Levels, txVars
<1>1. CASE Begin(r)
  <2>1. pc' \in [Requests -> Steps]
    BY <1>1, GotoTypes DEF Begin, Steps
  <2>2. today' \in [Requests -> 0..MaxDay] /\ asked' \in [Requests -> Levels]
    BY <1>1, QuotaAssumption DEF TypeOK, Begin
  <2> QED
    BY <1>1, <2>1, <2>2 DEF TypeOK, Begin
<1>2. CASE ReadCache(r)
  <2>1. pc' \in [Requests -> Steps]
    BY <1>2, GotoTypes DEF ReadCache, Steps
  <2> QED
    BY <1>2, <2>1 DEF TypeOK, ReadCache
<1>3. CASE ReadRow(r)
  <2>1. pc' \in [Requests -> Steps]
    BY <1>3, GotoTypes DEF ReadRow, Steps
  <2>2. [row |-> row, at |-> moves] \in Copies
    BY DEF TypeOK, Copies
  <2> QED
    BY <1>3, <2>1, <2>2 DEF TypeOK, ReadRow
<1>4. CASE ReadFails(r)
  <2>1. pc' \in [Requests -> Steps]
    BY <1>4, GotoTypes DEF ReadFails, Steps
  <2>2. [row |-> [level |-> "free", used |-> 0, day |-> 0], at |-> moves] \in Copies
    BY QuotaAssumption DEF TypeOK, Copies, Rows
  <2>3. raced' \subseteq 0..MaxDay
    BY <1>4, QuotaAssumption DEF TypeOK, ReadFails
  <2> QED
    BY <1>4, <2>1, <2>2, <2>3 DEF TypeOK, ReadFails
<1>5. CASE Fill(r)
  <2>1. pc' \in [Requests -> Steps]
    BY <1>5, GotoTypes DEF Fill, Steps
  <2> QED
    BY <1>5, <2>1 DEF TypeOK, Fill
<1>6. CASE InitRow(r)
  <2> DEFINE c == [row |-> [level |-> level, used |-> 0, day |-> 0], at |-> moves]
  <2>1. pc' \in [Requests -> Steps]
    BY <1>6, GotoTypes DEF InitRow, Steps
  <2>2. c \in Copies
    BY QuotaAssumption DEF TypeOK, Copies, Rows
  <2>3. copy' = [copy EXCEPT ![r] = c] /\ Upsert(c)
    BY <1>6 DEF InitRow
  <2> HIDE DEF c
  <2>4. pending' \in Seq(Copies)
    BY <2>2, <2>3, UpsertTypes
  <2> QED
    BY <1>6, <2>1, <2>2, <2>3, <2>4 DEF TypeOK, InitRow
<1>7. CASE SyncLevel(r)
  <2> DEFINE c == [copy[r] EXCEPT !.row.level = asked[r]]
  <2>1. pc' \in [Requests -> Steps]
    BY <1>7, GotoTypes DEF SyncLevel, Steps
  <2>2. c \in Copies
    BY CopyTypes
  <2>3. \/ UNCHANGED <<copy, pending>>
        \/ copy' = [copy EXCEPT ![r] = c] /\ Upsert(c)
    BY <1>7 DEF SyncLevel
  <2> HIDE DEF c
  <2>4. pending' \in Seq(Copies)
    BY <2>2, <2>3, UpsertTypes DEF TypeOK
  <2> QED
    BY <1>7, <2>1, <2>2, <2>3, <2>4 DEF TypeOK, SyncLevel
<1>8. CASE ResetAndDecide(r)
  <2> DEFINE c == ResetOf(r, copy[r])
  <2>1. pc' \in [Requests -> Steps]
    BY <1>8, GotoTypes DEF ResetAndDecide, Steps
  <2>2. c \in Copies
    BY CopyTypes
  <2>3. /\ copy' = [copy EXCEPT ![r] = c]
        /\ UNCHANGED pending \/ Upsert(c)
    BY <1>8 DEF ResetAndDecide
  <2> HIDE DEF c
  <2>4. pending' \in Seq(Copies)
    BY <2>2, <2>3, UpsertTypes DEF TypeOK
  <2>5. raced' \subseteq 0..MaxDay
    BY <1>8, QuotaAssumption DEF TypeOK, ResetAndDecide
  <2> QED
    BY <1>8, <2>1, <2>2, <2>3, <2>4, <2>5 DEF TypeOK, ResetAndDecide
<1>9. CASE RefuseCode(r)
  <2>1. pc' \in [Requests -> Steps]
    BY <1>9, GotoTypes DEF RefuseCode, Steps
  <2> QED
    BY <1>9, <2>1 DEF TypeOK, RefuseCode
<1> QED
  BY <1>1, <1>2, <1>3, <1>4, <1>5, <1>6, <1>7, <1>8, <1>9 DEF Check

\* So do charge, refund and what surrounds them.
LEMMA SettleTypes ==
    ASSUME TypeOK, NEW r \in Requests, Settle(r)
    PROVE  TypeOK'
<1> USE DEF txVars
<1>0. /\ row \in Rows /\ moves \in Nat /\ paid \subseteq Requests
      /\ row.day \in 0..MaxDay /\ today[r] \in 0..MaxDay
  BY PieceTypes DEF TypeOK
<1>p. /\ AddOne => row' \in Rows /\ moves' \in Nat
      /\ TakeBack(r) => /\ row' \in Rows /\ moves' \in Nat
                        /\ paid' \subseteq Requests /\ raced' \subseteq 0..MaxDay
      /\ row' \in Rows /\ Committed => open' \in BOOLEAN /\ kept' \in Rows
      /\ RolledBack => /\ row' \in Rows /\ moves' \in Nat
                       /\ open' \in BOOLEAN /\ kept' \in Rows
      /\ Raises => open' \in BOOLEAN /\ kept' \in Rows /\ errors' \in 0..MaxErrors
  BY PieceTypes
<1>1. CASE Charge(r)
  <2>1. pc' \in [Requests -> Steps]
    BY <1>1, GotoTypes DEF Charge, Steps
  <2>2. row' \in Rows /\ moves' \in Nat /\ paid' \subseteq Requests
    BY <1>0, <1>1, <1>p DEF Charge
  <2>3. raced' \subseteq 0..MaxDay
    BY <1>0, <1>1 DEF TypeOK, Charge
  <2>4. open' \in BOOLEAN /\ kept' \in Rows
    BY <1>1, <2>2, <1>p DEF Charge
  <2> QED
    BY <1>1, <2>1, <2>2, <2>3, <2>4 DEF TypeOK, Charge
<1>2. CASE ChargeFails(r)
  <2>1. pc' \in [Requests -> Steps]
    BY <1>2, GotoTypes DEF ChargeFails, Steps
  <2>2. open' \in BOOLEAN /\ kept' \in Rows
    BY <1>0, <1>2, <1>p DEF ChargeFails
  <2> QED
    BY <1>2, <2>1, <2>2 DEF TypeOK, ChargeFails
<1>3. CASE ChargeRaises(r)
  <2>1. pc' \in [Requests -> Steps]
    BY <1>3, GotoTypes DEF ChargeRaises, Steps
  <2>2. row' \in Rows /\ moves' \in Nat
    BY <1>0, <1>3, <1>p DEF ChargeRaises
  <2>3. leaked' \subseteq 0..MaxDay
    BY <1>0, <1>3 DEF TypeOK, ChargeRaises
  <2>4. open' \in BOOLEAN /\ kept' \in Rows /\ errors' \in 0..MaxErrors
    BY <1>3, <1>p DEF ChargeRaises
  <2> QED
    BY <1>3, <2>1, <2>2, <2>3, <2>4 DEF TypeOK, ChargeRaises
<1>4. CASE Recheck(r) \/ RecheckRaises(r)
  <2>1. pc' \in [Requests -> Steps]
    BY <1>4, GotoTypes DEF Recheck, RecheckRaises, Steps
  <2>2. errors' \in 0..MaxErrors
    BY <1>4, QuotaAssumption DEF TypeOK, Recheck, RecheckRaises
  <2> QED
    BY <1>4, <2>1, <2>2 DEF TypeOK, Recheck, RecheckRaises
<1>5. CASE Uncache(r)
  <2>1. pc' \in [Requests -> Steps]
    BY <1>5, GotoTypes DEF Uncache, Steps
  <2> QED
    BY <1>5, <2>1, NoCopyTypes DEF TypeOK, Uncache
<1>6. CASE Deliver(r)
  <2>1. pc' \in [Requests -> Steps]
    BY <1>6, GotoTypes DEF Deliver, Steps
  <2> QED
    BY <1>6, <2>1 DEF TypeOK, Deliver
<1>7. CASE Refund(r)
  <2>1. pc' \in [Requests -> Steps]
    BY <1>7, GotoTypes DEF Refund, Steps
  <2>2. /\ row' \in Rows /\ moves' \in Nat
        /\ paid' \subseteq Requests /\ raced' \subseteq 0..MaxDay
    BY <1>7, <1>p DEF Refund
  <2>3. open' \in BOOLEAN /\ kept' \in Rows
    BY <1>7, <2>2, <1>p DEF Refund
  <2> QED
    BY <1>7, <2>1, <2>2, <2>3 DEF TypeOK, Refund
<1>8. CASE RefundRaises(r)
  <2>1. pc' \in [Requests -> Steps]
    BY <1>8, GotoTypes DEF RefundRaises, Steps
  <2>2. /\ row' \in Rows /\ moves' \in Nat
        /\ paid' \subseteq Requests /\ raced' \subseteq 0..MaxDay
    BY <1>0, <1>8, <1>p DEF TypeOK, RefundRaises
  <2>3. leaked' \subseteq 0..MaxDay
    BY <1>0, <1>8 DEF TypeOK, RefundRaises
  <2>4. open' \in BOOLEAN /\ kept' \in Rows /\ errors' \in 0..MaxErrors
    BY <1>8, <1>p DEF RefundRaises
  <2> QED
    BY <1>8, <2>1, <2>2, <2>3, <2>4 DEF TypeOK, RefundRaises
<1>9. CASE Crash(r)
  <2>1. pc' \in [Requests -> Steps]
    BY <1>9, GotoTypes DEF Crash, Steps
  <2>2. row' \in Rows /\ moves' \in Nat /\ open' \in BOOLEAN /\ kept' \in Rows
    BY <1>9, <1>p DEF Crash
  <2> QED
    BY <1>9, <2>1, <2>2 DEF TypeOK, Crash
<1> QED
  BY <1>1, <1>2, <1>3, <1>4, <1>5, <1>6, <1>7, <1>8, <1>9 DEF Settle

\* Taking an upsert out of the queue leaves a queue of the others.
LEMMA QueueRest ==
    ASSUME TypeOK, NEW i \in 1..Len(pending), Apply(i)
    PROVE  /\ pending' \in Seq(Copies)
           /\ \A j \in 1..Len(pending') : \E k \in 1..Len(pending) : pending'[j] = pending[k]
<1>1. /\ pending \in Seq(Copies) /\ Len(pending) \in Nat /\ i \in Nat
      /\ pending' = SubSeq(pending, 1, i - 1) \o SubSeq(pending, i + 1, Len(pending))
  BY DEF TypeOK, Apply, RemoveAt
<1> DEFINE front == SubSeq(pending, 1, i - 1)
           back == SubSeq(pending, i + 1, Len(pending))
<1>2. /\ front \in Seq(Copies) /\ Len(front) = i - 1
      /\ \A j \in 1..(i - 1) : front[j] = pending[j]
  BY <1>1
<1>3. /\ back \in Seq(Copies) /\ Len(back) = Len(pending) - i
      /\ \A j \in 1..(Len(pending) - i) : back[j] = pending[i + j]
  BY <1>1
<1> HIDE DEF front, back
<1>4. /\ front \o back \in Seq(Copies)
      /\ Len(front \o back) = Len(pending) - 1
      /\ \A j \in 1..(Len(pending) - 1) :
             (front \o back)[j] = IF j <= i - 1 THEN front[j] ELSE back[j - (i - 1)]
  <2>1. /\ front \o back \in Seq(Copies)
        /\ Len(front \o back) = Len(front) + Len(back)
        /\ \A j \in 1..(Len(front) + Len(back)) :
               (front \o back)[j] = IF j <= Len(front) THEN front[j] ELSE back[j - Len(front)]
    BY <1>2, <1>3, ConcatProperties
  <2>2. Len(front) + Len(back) = Len(pending) - 1
    BY <1>1, <1>2, <1>3
  <2> QED
    BY <1>2, <2>1, <2>2
<1>5. pending' = front \o back
  BY <1>1 DEF front, back
<1>6. ASSUME NEW j \in 1..(Len(pending) - 1)
      PROVE  \E k \in 1..Len(pending) : (front \o back)[j] = pending[k]
  <2>1. CASE j <= i - 1
    <3>1. (front \o back)[j] = pending[j] /\ j \in 1..Len(pending)
      BY <1>1, <1>2, <1>4, <2>1
    <3> QED
      BY <3>1
  <2>2. CASE ~(j <= i - 1)
    <3>1. j - (i - 1) \in 1..(Len(pending) - i) /\ i + (j - (i - 1)) = j + 1
      BY <1>1, <2>2
    <3>2. (front \o back)[j] = pending[j + 1] /\ j + 1 \in 1..Len(pending)
      BY <1>1, <1>3, <1>4, <2>2, <3>1
    <3> QED
      BY <3>2
  <2> QED
    BY <2>1, <2>2
<1> QED
  BY <1>4, <1>5, <1>6

\* So do the writer, the cache, the calendar and the administrator.
LEMMA WorldTypes ==
    ASSUME TypeOK,
           \/ \E i \in 1..Len(pending) : Apply(i)
           \/ OthersCommit \/ OthersRollBack \/ Expire \/ Midnight \/ ChangeLevel
    PROVE  TypeOK'
<1> USE DEF txVars
<1>1. ASSUME NEW i \in 1..Len(pending), Apply(i) PROVE TypeOK'
  <2>1. pending[i] \in Copies
    BY DEF TypeOK
  <2>2. pending[i].row \in Rows
    BY <2>1 DEF Copies
  <2>3. row.day \in 0..MaxDay /\ pending[i].row.day \in 0..MaxDay
    BY <2>2 DEF TypeOK, Rows
  <2>4. raced' \subseteq 0..MaxDay
    BY <1>1, <2>3 DEF TypeOK, Apply
  <2>5. pending' \in Seq(Copies)
    BY <1>1, QueueRest
  <2> QED
    BY <1>1, <2>2, <2>4, <2>5, NoCopyTypes DEF TypeOK, Apply, reqVars
<1>2. CASE Expire
  BY <1>2, NoCopyTypes DEF TypeOK, Expire, reqVars
<1>3. CASE Midnight
  BY <1>3, QuotaAssumption DEF TypeOK, Midnight, reqVars
<1>4. CASE ChangeLevel
  BY <1>4 DEF TypeOK, ChangeLevel, reqVars
<1>5. CASE OthersCommit
  <2>1. row' \in Rows /\ open' \in BOOLEAN /\ kept' \in Rows
    BY <1>5 DEF TypeOK, OthersCommit, Committed
  <2> QED
    BY <1>5, <2>1 DEF TypeOK, OthersCommit, reqVars
<1>6. CASE OthersRollBack
  <2>1. row' \in Rows /\ moves' \in Nat /\ open' \in BOOLEAN /\ kept' \in Rows
    <3>1. row \in Rows /\ kept \in Rows /\ moves \in Nat
      BY DEF TypeOK
    <3>2. moves' = moves \/ moves' = moves + 1
      BY <1>6 DEF OthersRollBack, RolledBack
    <3>3. row' \in Rows /\ open' \in BOOLEAN /\ kept' \in Rows
      BY <1>6, <3>1 DEF OthersRollBack, RolledBack
    <3> QED
      BY <3>1, <3>2, <3>3
  <2> QED
    BY <1>6, <2>1 DEF TypeOK, OthersRollBack, reqVars
<1> QED
  BY <1>1, <1>2, <1>3, <1>4, <1>5, <1>6

\* The first state is well typed.
LEMMA InitTypes == Init => TypeOK
<1> SUFFICES ASSUME Init PROVE TypeOK
  OBVIOUS
<1>1. row \in Rows /\ kept \in Rows /\ cache \in Copies /\ copy \in [Requests -> Copies]
  BY NoCopyTypes DEF Init
<1>2. /\ day \in 1..MaxDay /\ errors \in 0..MaxErrors /\ moves \in Nat
      /\ today \in [Requests -> 0..MaxDay]
  BY QuotaAssumption DEF Init
<1>3. level \in Levels /\ asked \in [Requests -> Levels] /\ pc \in [Requests -> Steps]
  BY DEF Init, Levels, Steps
<1>4. /\ open \in BOOLEAN /\ paid \subseteq Requests
      /\ raced \subseteq 0..MaxDay /\ leaked \subseteq 0..MaxDay
  BY DEF Init
<1>5. pending \in Seq(Copies)
  BY DEF Init
<1> QED
  BY <1>1, <1>2, <1>3, <1>4, <1>5 DEF TypeOK

\* Every reachable state is well typed.
THEOREM TypeCorrect == Spec => []TypeOK
<1>1. Init => TypeOK
  BY InitTypes
<1>2. TypeOK /\ [Next]_vars => TypeOK'
  <2> SUFFICES ASSUME TypeOK, [Next]_vars PROVE TypeOK'
    OBVIOUS
  <2>1. CASE UNCHANGED vars
    BY <2>1 DEF TypeOK, vars, reqVars, txVars
  <2>2. CASE Next
    BY <2>2, CheckTypes, SettleTypes, WorldTypes DEF Next
  <2> QED
    BY <2>1, <2>2
<1> QED
  BY <1>1, <1>2, PTL DEF Spec

-----------------------------------------------------------------------------
(* The inductive invariant.                                                *)
(*                                                                         *)
(* The count of the row says nothing about the copies of it, and a copy    *)
(* that replaces the row decides what the count is.  So the invariant      *)
(* follows every copy: one that has missed no charge and no refund agrees  *)
(* with the charges as the row does.  So does the row that a rollback      *)
(* brings back.                                                            *)

\* A row that counts the charges of its day, those that raised as well, and is as
\* recent as they are.
Faithful(s) ==
    /\ s.day <= day
    /\ s.day > 0 /\ s.day \notin raced => s.used >= Cardinality(Charged(s.day))
    /\ s.day > 0 /\ s.day \notin raced \cup leaked => s.used = Cardinality(Charged(s.day))
    /\ day \notin raced /\ Charged(day) # {} => s.day = day

\* A copy that missed nothing is as good as the row.
CopyInv(c) ==
    /\ c.at <= moves
    /\ c.row.day <= day
    /\ c.at = moves => Faithful(c.row)

\* The copies that wait in the queue.
Waiting == {pending[i] : i \in 1..Len(pending)}

CopiesInv ==
    /\ CopyInv(cache)
    /\ \A r \in Requests : CopyInv(copy[r])
    /\ \A w \in Waiting : CopyInv(w)

Calendar == \A r \in Requests : today[r] <= day

PaidAfterCharge ==
    \A r \in paid : pc[r] \in {"uncache", "granted", "refunding", "delivered", "crashed"}

FirstMove == moves = 0 => paid = {}

\* Only the absent row has no level, and every request under way has its day.
Named ==
    /\ row.level = "none" => row.day = 0
    /\ kept.level = row.level /\ kept.day = row.day /\ (~open => kept = row)
    /\ \A w \in Waiting : w.row.level \in Levels
    /\ \A r \in Requests : pc[r] = "reset" => copy[r].row.level \in Levels
    /\ \A r \in Requests : pc[r] # "new" => today[r] > 0

\* The row a rollback returns to counts the charges, too.
KeptInv == Faithful(kept) /\ kept.day = row.day /\ (~open => kept = row)

Counted ==
    Calendar /\ PaidAfterCharge /\ FirstMove /\ Faithful(row) /\ KeptInv /\ CopiesInv

\* No day without a race has more charges than before, and only one on which
\* something raised has fewer.
Fewer ==
    /\ day' = day /\ raced \subseteq raced' /\ leaked \subseteq leaked'
    /\ \A d \in Nat : /\ d \notin raced' => Charged(d)' \subseteq Charged(d)
                      /\ d \notin raced' \cup leaked' => Charged(d)' = Charged(d)

-----------------------------------------------------------------------------
(* What a step does to a row or a copy that somebody holds.                *)

\* The charges of a day are finitely many.
LEMMA ChargedFinite ==
    ASSUME NEW d
    PROVE  IsFiniteSet(Charged(d)) /\ Cardinality(Charged(d)) \in Nat
BY QuotaAssumption, FS_Subset, FS_CardinalityType DEF Charged

\* While no charge is added, a row stays faithful.
LEMMA StaysFaithful ==
    ASSUME TypeOK, NEW s \in Rows, Faithful(s), Fewer
    PROVE  Faithful(s)'
<1>1. s.day \in Nat /\ day \in Nat /\ s.used \in Nat
  BY DEF TypeOK, Rows
<1>2. s.day \notin raced' => Charged(s.day)' \subseteq Charged(s.day)
  BY <1>1 DEF Fewer
<1>3. s.day \notin raced' \cup leaked' => Charged(s.day)' = Charged(s.day)
  BY <1>1 DEF Fewer
<1>4. day \notin raced' => Charged(day)' \subseteq Charged(day)
  BY <1>1 DEF Fewer
<1>5. day' = day /\ raced \subseteq raced' /\ leaked \subseteq leaked'
  BY DEF Fewer
<1>6. s.day <= day'
  BY <1>5 DEF Faithful
<1>7. s.day > 0 /\ s.day \notin raced' => s.used >= Cardinality(Charged(s.day))'
  <2> SUFFICES ASSUME s.day > 0, s.day \notin raced' PROVE s.used >= Cardinality(Charged(s.day)')
    OBVIOUS
  <2>1. s.used >= Cardinality(Charged(s.day))
    BY <1>5 DEF Faithful
  <2>2. /\ Cardinality(Charged(s.day)') <= Cardinality(Charged(s.day))
        /\ Cardinality(Charged(s.day)') \in Nat /\ Cardinality(Charged(s.day)) \in Nat
    BY <1>2, ChargedFinite, FS_Subset, FS_CardinalityType
  <2> QED
    BY <1>1, <2>1, <2>2
<1>8. s.day > 0 /\ s.day \notin raced' \cup leaked' => s.used = Cardinality(Charged(s.day))'
  BY <1>3, <1>5 DEF Faithful
<1>9. day' \notin raced' /\ Charged(day)' # {} => s.day = day'
  BY <1>4, <1>5 DEF Faithful
<1> QED
  BY <1>6, <1>7, <1>8, <1>9 DEF Faithful

\* A copy stays good while the row it copies has not moved.
LEMMA StaysGood ==
    ASSUME TypeOK, NEW c \in Copies, CopyInv(c), Fewer, moves' = moves
    PROVE  CopyInv(c)'
<1>1. c.row \in Rows
  BY DEF Copies
<1>2. Faithful(c.row) => Faithful(c.row)'
  BY <1>1, StaysFaithful
<1> QED
  BY <1>2 DEF CopyInv, Fewer

\* When the row moves, every copy becomes an old one.
LEMMA GrowsOld ==
    ASSUME TypeOK, NEW c \in Copies, CopyInv(c), day' = day, moves' = moves + 1
    PROVE  CopyInv(c)'
<1>1. c.at \in Nat /\ moves \in Nat
  BY DEF TypeOK, Copies
<1> QED
  BY <1>1 DEF CopyInv

\* What the variables hold are copies.
LEMMA HeldCopies ==
    ASSUME TypeOK
    PROVE  /\ cache \in Copies
           /\ \A r \in Requests : copy[r] \in Copies
           /\ Waiting \subseteq Copies
           /\ row \in Rows /\ kept \in Rows
BY DEF TypeOK, Waiting

\* What a queued upsert adds, and what an applied one leaves.
LEMMA WaitingChanges ==
    ASSUME TypeOK
    PROVE  /\ pending' = pending => Waiting' = Waiting
           /\ \A c \in Copies : Upsert(c) => Waiting' = Waiting \cup {c}
           /\ \A i \in 1..Len(pending) : Apply(i) => Waiting' \subseteq Waiting
<1>1. pending' = pending => Waiting' = Waiting
  BY DEF Waiting
<1>2. ASSUME NEW c \in Copies, Upsert(c) PROVE Waiting' = Waiting \cup {c}
  <2>1. /\ pending \in Seq(Copies) /\ Len(pending) \in Nat
        /\ Len(pending') = Len(pending) + 1
        /\ \A i \in 1..Len(pending) : pending'[i] = pending[i]
        /\ pending'[Len(pending) + 1] = c
    BY <1>2 DEF TypeOK, Upsert
  <2>2. \A i \in 1..Len(pending') : pending'[i] \in Waiting \cup {c}
    BY <2>1 DEF Waiting
  <2>3. \A w \in Waiting \cup {c} : \E i \in 1..Len(pending') : pending'[i] = w
    BY <2>1 DEF Waiting
  <2> QED
    BY <2>2, <2>3 DEF Waiting
<1>3. ASSUME NEW i \in 1..Len(pending), Apply(i) PROVE Waiting' \subseteq Waiting
  BY <1>3, QueueRest DEF Waiting
<1> QED
  BY <1>1, <1>2, <1>3

\* The charges of a day depend on who paid and on the days of those.
LEMMA ChargedSame ==
    ASSUME paid' = paid, \A q \in paid : today'[q] = today[q]
    PROVE  \A d \in Nat : Charged(d)' = Charged(d)
<1> SUFFICES ASSUME NEW d \in Nat PROVE Charged(d)' = Charged(d)
  OBVIOUS
<1> QED
  BY DEF Charged

\* Where nobody pays and no request gets another day, no charge is added.
LEMMA NoneAdded ==
    ASSUME day' = day, raced \subseteq raced', leaked \subseteq leaked',
           \A d \in Nat : Charged(d)' = Charged(d)
    PROVE  Fewer
BY DEF Fewer

\* A row that is not moved stays faithful, and so does the one behind it, committed or not.
LEMMA RowStays ==
    ASSUME TypeOK, Counted, Fewer, row' = row,
           kept' = row \/ (kept' = kept /\ (~open' => ~open))
    PROVE  Faithful(row)' /\ KeptInv'
<1>1. PICK s \in Rows : s = row
  BY HeldCopies
<1>2. PICK k \in Rows : k = kept
  BY HeldCopies
<1>3. Faithful(s)' /\ Faithful(k)'
  BY <1>1, <1>2, StaysFaithful DEF Counted, KeptInv
<1>4. Faithful(row)'
  BY <1>1, <1>3
<1>5. Faithful(kept)'
  BY <1>1, <1>2, <1>3
<1>6. kept'.day = row'.day /\ (~open' => kept' = row')
  BY DEF Counted, KeptInv
<1> QED
  BY <1>4, <1>5, <1>6 DEF KeptInv

\* Nor does a row that is moved, on the same day, disturb the one a rollback returns to.
LEMMA KeptBehind ==
    ASSUME TypeOK, Counted, row' \in Rows, Faithful(row)', row'.day = row.day,
           \/ kept' = row'
           \/ kept' = kept /\ open' /\ Fewer
    PROVE  KeptInv'
<1>1. PICK k \in Rows : k = kept
  BY HeldCopies
<1>2. CASE kept' = row'
  <2>1. PICK s \in Rows : s = row'
    OBVIOUS
  <2>2. Faithful(s)'
    BY <2>1
  <2>3. Faithful(kept)'
    BY <1>2, <2>1, <2>2
  <2> QED
    BY <1>2, <2>3 DEF KeptInv
<1>3. CASE kept' = kept /\ open' /\ Fewer
  <2>1. Faithful(k)'
    BY <1>1, <1>3, StaysFaithful DEF Counted, KeptInv
  <2>2. Faithful(kept)'
    BY <1>1, <1>3, <2>1
  <2> QED
    BY <1>3, <2>2 DEF Counted, KeptInv
<1> QED
  BY <1>2, <1>3

-----------------------------------------------------------------------------
(* The steps that neither charge nor refund.                               *)

\* A request that is still being checked has not paid.
LEMMA CheckUnpaid ==
    ASSUME PaidAfterCharge, NEW r \in Requests, Check(r)
    PROVE  r \notin paid
BY DEF PaidAfterCharge, Check, Begin, ReadCache, ReadRow, ReadFails, Fill, InitRow,
       SyncLevel, ResetAndDecide, RefuseCode

\* A step of the check leaves the row, the charges and the calendar.
LEMMA CheckIsQuiet ==
    ASSUME TypeOK, PaidAfterCharge, NEW r \in Requests, Check(r)
    PROVE  /\ UNCHANGED <<day, moves, row, paid, txVars>>
           /\ raced \subseteq raced'
           /\ \A d \in Nat : Charged(d)' = Charged(d)
           /\ Fewer
<1>1. UNCHANGED <<day, moves, row, paid, txVars>> /\ raced \subseteq raced'
  BY DEF Check, Begin, ReadCache, ReadRow, ReadFails, Fill, InitRow, SyncLevel,
         ResetAndDecide, RefuseCode
<1>2. \A q \in paid : today'[q] = today[q]
  <2>1. CASE Begin(r)
    BY <2>1, CheckUnpaid DEF Begin, TypeOK
  <2>2. CASE today' = today
    BY <2>2
  <2> QED
    BY <2>1, <2>2 DEF Check, ReadCache, ReadRow, ReadFails, Fill, InitRow, SyncLevel,
       ResetAndDecide, RefuseCode
<1>3. \A d \in Nat : Charged(d)' = Charged(d)
  BY <1>1, <1>2, ChargedSame
<1>4. Fewer
  BY <1>1, <1>3, NoneAdded DEF txVars
<1> QED
  BY <1>1, <1>3, <1>4

\* Row and copies agree on whether a row of this day and count is faithful.
LEMMA FaithfulByCount ==
    ASSUME NEW s \in Rows, NEW t \in Rows, s.used = t.used, s.day = t.day, Faithful(s)
    PROVE  Faithful(t)
BY DEF Faithful

\* A copy that starts today at zero is good, unless the day it was to be reset
\* for is over; then today is named as raced.
LEMMA ResetIsGood ==
    ASSUME TypeOK, Counted, NEW r \in Requests, ResetAndDecide(r),
           NEW c \in Copies, c = ResetOf(r, copy[r])
    PROVE  CopyInv(c)'
<1>1. /\ day' = day /\ moves' = moves /\ raced \subseteq raced' /\ Fewer
      /\ \A d \in Nat : Charged(d)' = Charged(d)
  BY CheckIsQuiet DEF Counted, Check
<1>2. CopyInv(copy[r]) /\ copy[r] \in Copies
  BY HeldCopies DEF Counted, CopiesInv
<1>3. CASE ~Outdated(r)
  <2>1. c = copy[r]
    BY <1>3 DEF ResetOf
  <2> QED
    BY <1>1, <1>2, <2>1, StaysGood
<1>4. CASE Outdated(r)
  <2>1. c = [copy[r] EXCEPT !.row.used = 0, !.row.day = day]
    BY <1>4 DEF ResetOf
  <2>2. c.at = copy[r].at /\ c.row.used = 0 /\ c.row.day = day
    <3>1. copy[r].row \in Rows
      BY <1>2 DEF Copies
    <3>2. [copy[r].row EXCEPT !.used = 0, !.day = day].used = 0
      BY <3>1 DEF Rows
    <3>3. [copy[r].row EXCEPT !.used = 0, !.day = day].day = day
      BY <3>1 DEF Rows
    <3>4. c.at = copy[r].at /\ c.row = [copy[r].row EXCEPT !.used = 0, !.day = day]
      BY <1>2, <2>1 DEF Copies
    <3> QED
      BY <3>2, <3>3, <3>4
  <2>3. day \in Nat /\ day > 0 /\ day <= day
    BY DEF TypeOK
  <2>4. ASSUME c.at = moves, day \notin raced'
        PROVE  Charged(day) = {}
    <3>1. today[r] = day
      BY <1>4, <2>4 DEF ResetAndDecide
    <3>2. Faithful(copy[r].row) /\ day \notin raced
      BY <1>1, <1>2, <2>2, <2>4 DEF CopyInv
    <3> QED
      BY <1>4, <3>1, <3>2 DEF Faithful, Outdated
  <2>5. c.at = moves /\ day \notin raced' => c.row.used = Cardinality(Charged(day))
    BY <2>2, <2>4, FS_EmptySet
  <2>6. Charged(day)' = Charged(day)
    BY <1>1, <2>3
  <2>7. c.at = moves' => Faithful(c.row)'
    <3> SUFFICES ASSUME c.at = moves PROVE Faithful(c.row)'
      BY <1>1
    <3>1. c.row.day <= day'
      BY <1>1, <2>2, <2>3
    <3>2. c.row.day > 0 /\ c.row.day \notin raced' => c.row.used = Cardinality(Charged(c.row.day))'
      BY <2>2, <2>5, <1>1, <2>3
    <3>3. c.row.day > 0 /\ c.row.day \notin raced' => c.row.used >= Cardinality(Charged(c.row.day))'
      BY <2>2, <3>2
    <3>4. c.row.day = day'
      BY <1>1, <2>2
    <3> QED
      BY <3>1, <3>2, <3>3, <3>4 DEF Faithful
  <2> QED
    BY <1>1, <1>2, <2>2, <2>3, <2>7 DEF CopyInv
<1> QED
  BY <1>3, <1>4

\* What a step of the check stores is one of the old copies or a good new one:
\* the row itself, an empty row of no day, or an old copy of another level or
\* moved to today.
LEMMA NewCopyGood ==
    ASSUME TypeOK, Counted, NEW r \in Requests, Check(r)
    PROVE  \E c \in Copies : /\ CopyInv(c)'
                             /\ copy' = [copy EXCEPT ![r] = c]
                             /\ \A w \in Waiting' : w \in Waiting \/ w = c
<1>1. /\ day' = day /\ moves' = moves /\ row' = row /\ raced \subseteq raced' /\ Fewer
  BY CheckIsQuiet DEF Counted
<1>2. \A c \in Copies : CopyInv(c) => CopyInv(c)'
  BY <1>1, StaysGood
<1>3. /\ CopyInv(copy[r]) /\ CopyInv(cache) /\ copy[r] \in Copies /\ cache \in Copies
      /\ row \in Rows /\ moves \in Nat /\ Faithful(row) /\ moves <= moves
      /\ day \in Nat /\ 0 <= day
  BY HeldCopies DEF Counted, CopiesInv, TypeOK
<1>4. CASE copy' = copy /\ pending' = pending
  <2>1. PICK c \in Copies : c = copy[r]
    BY <1>3
  <2>2. CopyInv(c)'
    BY <1>2, <1>3, <2>1
  <2> QED
    BY <1>4, <2>1, <2>2, WaitingChanges DEF TypeOK
<1>5. CASE ReadCache(r)
  <2>1. PICK c \in Copies : c = cache
    BY <1>3
  <2>2. CopyInv(c)'
    BY <1>2, <1>3, <2>1
  <2> QED
    BY <1>5, <2>1, <2>2, WaitingChanges DEF ReadCache
<1>6. CASE ReadRow(r)
  <2>1. PICK c \in Copies : c = [row |-> row, at |-> moves]
    BY <1>3 DEF Copies
  <2>2. CopyInv(c)
    BY <1>3, <2>1 DEF CopyInv, Faithful
  <2>3. CopyInv(c)'
    BY <1>2, <2>2
  <2> QED
    BY <1>6, <2>1, <2>3, WaitingChanges DEF ReadRow
<1>7. CASE ReadFails(r)
  <2>0. [row |-> [level |-> "free", used |-> 0, day |-> 0], at |-> moves] \in Copies
    BY <1>3, QuotaAssumption DEF Copies, Rows, Levels
  <2>1. PICK c \in Copies :
            c = [row |-> [level |-> "free", used |-> 0, day |-> 0], at |-> moves]
    BY <2>0
  <2>2. c.at <= moves' /\ c.row.day = 0 /\ c.row.day <= day' /\ day' \in raced'
    BY <1>1, <1>3, <1>7, <2>1 DEF ReadFails
  <2>3. CopyInv(c)'
    BY <2>2 DEF CopyInv, Faithful
  <2> QED
    BY <1>7, <2>1, <2>3, WaitingChanges DEF ReadFails
<1>8. CASE InitRow(r)
  <2>0. [row |-> [level |-> level, used |-> 0, day |-> 0], at |-> moves] \in Copies
    BY <1>3, QuotaAssumption DEF Copies, Rows, TypeOK
  <2>1. PICK c \in Copies :
            c = [row |-> [level |-> level, used |-> 0, day |-> 0], at |-> moves]
    BY <2>0
  <2>2. /\ c.at = moves /\ c.row \in Rows
        /\ c.row.used = row.used /\ c.row.day = row.day
    BY <1>8, <2>1 DEF InitRow, NoRow, Copies
  <2>3. Faithful(c.row)
    BY <1>3, <2>2, FaithfulByCount
  <2>4. CopyInv(c)
    BY <1>3, <2>2, <2>3 DEF CopyInv, Faithful
  <2>5. CopyInv(c)'
    BY <1>2, <2>4
  <2>6. copy' = [copy EXCEPT ![r] = c] /\ Upsert(c)
    BY <1>8, <2>1 DEF InitRow
  <2>7. \A w \in Waiting' : w \in Waiting \/ w = c
    BY <2>6, WaitingChanges
  <2> QED
    BY <2>5, <2>6, <2>7
<1>9. CASE SyncLevel(r)
  <2>1. PICK c \in Copies : c = [copy[r] EXCEPT !.row.level = asked[r]]
    BY CopyTypes
  <2>2. /\ c.at = copy[r].at /\ c.row \in Rows /\ copy[r].row \in Rows
        /\ c.row.used = copy[r].row.used /\ c.row.day = copy[r].row.day
    BY <1>3, <2>1 DEF Copies, Rows
  <2>3. Faithful(copy[r].row) => Faithful(c.row)
    BY <2>2, FaithfulByCount
  <2>4. CopyInv(c)
    BY <1>3, <2>2, <2>3 DEF CopyInv
  <2>5. CopyInv(c)'
    BY <1>2, <2>4
  <2>6. CASE copy' = [copy EXCEPT ![r] = c] /\ Upsert(c)
    <3>1. \A w \in Waiting' : w \in Waiting \/ w = c
      BY <2>6, WaitingChanges
    <3> QED
      BY <2>5, <2>6, <3>1
  <2> QED
    BY <1>4, <1>9, <2>1, <2>6 DEF SyncLevel
<1>10. CASE ResetAndDecide(r)
  <2>1. PICK c \in Copies : c = ResetOf(r, copy[r])
    BY CopyTypes
  <2>2. CopyInv(c)'
    BY <1>10, <2>1, ResetIsGood
  <2>3. copy' = [copy EXCEPT ![r] = c] /\ (UNCHANGED pending \/ Upsert(c))
    BY <1>10, <2>1 DEF ResetAndDecide
  <2>4. \A w \in Waiting' : w \in Waiting \/ w = c
    BY <2>3, WaitingChanges
  <2> QED
    BY <2>2, <2>3, <2>4
<1>11. CASE Begin(r) \/ Fill(r) \/ RefuseCode(r)
  BY <1>4, <1>11 DEF Begin, Fill, RefuseCode
<1> QED
  BY <1>5, <1>6, <1>7, <1>8, <1>9, <1>10, <1>11 DEF Check

\* The steps of the check keep the count.
LEMMA CheckCounted ==
    ASSUME TypeOK, Counted, NEW r \in Requests, Check(r)
    PROVE  Counted'
<1>1. UNCHANGED <<day, moves, row, paid, open, kept>> /\ raced \subseteq raced' /\ Fewer
  BY CheckIsQuiet DEF Counted, txVars
<1>2. \A c \in Copies : CopyInv(c) => CopyInv(c)'
  BY <1>1, StaysGood
<1>3. Calendar'
  <2>1. today' = today \/ today' = [today EXCEPT ![r] = day]
    BY DEF Check, Begin, ReadCache, ReadRow, ReadFails, Fill, InitRow, SyncLevel,
           ResetAndDecide, RefuseCode
  <2>2. day \in Nat /\ day <= day
    BY DEF TypeOK
  <2> QED
    BY <1>1, <2>1, <2>2 DEF Calendar, Counted, TypeOK
<1>4. PaidAfterCharge'
  <2>1. r \notin paid
    BY CheckUnpaid DEF Counted
  <2>2. \A q \in paid : pc'[q] = pc[q]
    BY <2>1 DEF TypeOK, Goto, Check, Begin, ReadCache, ReadRow, ReadFails, Fill, InitRow,
       SyncLevel, ResetAndDecide, RefuseCode
  <2> QED
    BY <1>1, <2>2 DEF PaidAfterCharge, Counted
<1>5. FirstMove'
  BY <1>1 DEF FirstMove, Counted
<1>6. Faithful(row)' /\ KeptInv'
  BY <1>1, RowStays
<1>7. CopiesInv'
  <2>1. PICK c \in Copies : /\ CopyInv(c)'
                            /\ copy' = [copy EXCEPT ![r] = c]
                            /\ \A w \in Waiting' : w \in Waiting \/ w = c
    BY NewCopyGood
  <2>2. \A q \in Requests : copy'[q] = copy[q] \/ copy'[q] = c
    BY <2>1 DEF TypeOK
  <2>3. cache' = cache \/ cache' = copy[r]
    BY DEF Check, Begin, ReadCache, ReadRow, ReadFails, Fill, InitRow, SyncLevel,
           ResetAndDecide, RefuseCode
  <2>4. CopyInv(cache)'
    <3>1. PICK d \in Copies : d = cache'
      BY <2>3, HeldCopies
    <3>2. CopyInv(d)
      BY <2>3, <3>1 DEF Counted, CopiesInv
    <3>3. CopyInv(d)'
      BY <1>2, <3>2
    <3> QED
      BY <3>1, <3>3
  <2>5. ASSUME NEW q \in Requests PROVE CopyInv(copy[q])'
    <3>1. PICK d \in Copies : d = copy'[q]
      BY <2>2, HeldCopies
    <3>2. CopyInv(d)'
      BY <1>2, <2>1, <2>2, <3>1, HeldCopies DEF Counted, CopiesInv
    <3> QED
      BY <3>1, <3>2
  <2>6. ASSUME NEW w \in Waiting' PROVE CopyInv(w)'
    <3>1. CASE w = c
      BY <2>1, <3>1
    <3>2. CASE w \in Waiting
      BY <1>2, <3>2, HeldCopies DEF Counted, CopiesInv
    <3> QED
      BY <2>1, <3>1, <3>2
  <2> QED
    BY <2>4, <2>5, <2>6 DEF CopiesInv
<1> QED
  BY <1>3, <1>4, <1>5, <1>6, <1>7 DEF Counted

-----------------------------------------------------------------------------
(* What a step leaves of the copies.                                       *)

\* No copy is a good copy.
LEMMA NoCopyGood ==
    ASSUME TypeOK, FirstMove
    PROVE  CopyInv(NoCopy)
<1>1. NoCopy.at = 0 /\ NoCopy.row = NoRow /\ NoRow.day = 0
  BY DEF NoCopy, NoRow
<1>2. moves = 0 => Charged(day) = {}
  BY DEF FirstMove, Charged
<1> QED
  BY <1>1, <1>2 DEF CopyInv, Faithful, TypeOK

\* Copies that are kept or dropped stay good, or grow old when the row moves.
LEMMA CopiesStay ==
    ASSUME TypeOK, Counted, UNCHANGED copy,
           cache' \in {NoCopy, cache}, Waiting' \subseteq Waiting,
           \/ moves' = moves /\ Fewer
           \/ moves' = moves + 1 /\ day' = day
    PROVE  CopiesInv'
<1>1. \A c \in Copies : CopyInv(c) => CopyInv(c)'
  BY StaysGood, GrowsOld
<1>2. CopyInv(cache)'
  <2>1. PICK c \in Copies : c = cache'
    BY HeldCopies, NoCopyTypes
  <2>2. CopyInv(c)
    BY <2>1, NoCopyGood DEF Counted, CopiesInv
  <2>3. CopyInv(c)'
    BY <1>1, <2>2
  <2> QED
    BY <2>1, <2>3
<1>3. (\A r \in Requests : CopyInv(copy[r]))'
  BY <1>1, HeldCopies DEF Counted, CopiesInv
<1>4. (\A w \in Waiting : CopyInv(w))'
  BY <1>1, HeldCopies DEF Counted, CopiesInv
<1> QED
  BY <1>2, <1>3, <1>4 DEF CopiesInv

\* A step that leaves the row and the charges, and at most drops copies or ends the
\* transaction, keeps the count.
LEMMA QuietCounted ==
    ASSUME TypeOK, Counted, PaidAfterCharge',
           UNCHANGED <<day, row, moves, copy, paid, today>>,
           raced \subseteq raced', leaked \subseteq leaked',
           kept' = row \/ (kept' = kept /\ (~open' => ~open)),
           cache' \in {NoCopy, cache}, Waiting' \subseteq Waiting
    PROVE  Counted'
<1>1. Fewer
  BY ChargedSame, NoneAdded
<1>2. CopiesInv'
  BY <1>1, CopiesStay
<1>3. Faithful(row)' /\ KeptInv'
  BY <1>1, RowStays
<1>4. Calendar' /\ FirstMove'
  BY DEF Counted, Calendar, FirstMove
<1> QED
  BY <1>2, <1>3, <1>4 DEF Counted

-----------------------------------------------------------------------------
(* Charge and refund.                                                      *)

\* A charge that moves the counter adds its request to the charges of its day,
\* and to no other day.
LEMMA ChargeAdds ==
    ASSUME TypeOK, PaidAfterCharge, NEW r \in Requests, Charge(r), row.level # "premium"
    PROVE  /\ day' = day /\ moves' = moves + 1 /\ raced \subseteq raced' /\ leaked' = leaked
           /\ row' \in Rows /\ row'.day = row.day /\ row'.used = row.used + 1
           /\ \A d \in Nat : d # today[r] => Charged(d)' = Charged(d)
           /\ Charged(today[r])' = Charged(today[r]) \cup {r}
           /\ r \notin Charged(today[r])
           /\ row.day # today[r] => {row.day, today[r]} \subseteq raced'
<1>1. /\ day' = day /\ moves' = moves + 1 /\ raced \subseteq raced' /\ leaked' = leaked
      /\ today' = today /\ paid' = paid \cup {r}
  BY DEF Charge, AddOne
<1>2. row' \in Rows /\ row'.day = row.day /\ row'.used = row.used + 1
  BY DEF Charge, AddOne, TypeOK, Rows
<1>3. r \notin paid
  BY DEF Charge, Charging, PaidAfterCharge
<1>4. \A d \in Nat : d # today[r] => Charged(d)' = Charged(d)
  BY <1>1 DEF Charged
<1>5. Charged(today[r])' = Charged(today[r]) \cup {r}
  BY <1>1 DEF Charged
<1>6. r \notin Charged(today[r])
  BY <1>3 DEF Charged
<1>7. row.day # today[r] => {row.day, today[r]} \subseteq raced'
  BY DEF Charge
<1> QED
  BY <1>1, <1>2, <1>4, <1>5, <1>6, <1>7

\* A charge keeps the count.
LEMMA ChargeCounted ==
    ASSUME TypeOK, Counted, NEW r \in Requests, Charge(r)
    PROVE  Counted'
<1>0. PaidAfterCharge'
  BY DEF Counted, PaidAfterCharge, Charge, Charging, Goto, TypeOK
<1>1. CASE row.level = "premium"
  <2>1. /\ UNCHANGED <<day, row, moves, paid, raced, today, cache, copy, pending, leaked>>
        /\ kept' = row
    BY <1>1 DEF Charge, Committed
  <2> QED
    BY <1>0, <2>1, QuietCounted, WaitingChanges
<1>2. CASE row.level # "premium"
  <2>1. /\ day' = day /\ moves' = moves + 1 /\ raced \subseteq raced' /\ leaked' = leaked
        /\ row' \in Rows /\ row'.day = row.day /\ row'.used = row.used + 1
        /\ \A d \in Nat : d # today[r] => Charged(d)' = Charged(d)
        /\ Charged(today[r])' = Charged(today[r]) \cup {r}
        /\ r \notin Charged(today[r])
        /\ row.day # today[r] => {row.day, today[r]} \subseteq raced'
    BY <1>2, ChargeAdds DEF Counted
  <2>2. Calendar'
    BY <2>1 DEF Counted, Calendar, Charge
  <2>3. FirstMove'
    BY <2>1 DEF FirstMove, TypeOK
  <2>4. Faithful(row)'
    <3>1. /\ row.day \in Nat /\ day \in Nat /\ row.day <= day
          /\ row.used \in Nat
      BY DEF TypeOK, Rows, Counted, Faithful
    <3>2. PICK d \in Nat : d = row.day
      BY <3>1
    <3>3. ASSUME d > 0, d \notin raced'
          PROVE  /\ row'.used >= Cardinality(Charged(d)')
                 /\ d \notin leaked' => row'.used = Cardinality(Charged(d)')
      <4>1. d = today[r] /\ d \notin raced
        BY <2>1, <3>2, <3>3
      <4>2. /\ row.used >= Cardinality(Charged(d))
            /\ d \notin leaked' => row.used = Cardinality(Charged(d))
        BY <2>1, <3>2, <3>3, <4>1 DEF Counted, Faithful
      <4>3. today'[r] = d
        BY <4>1 DEF Charge
      <4>4. Charged(d)' = Charged(d) \cup {r}
        BY <2>1, <4>1, <4>3 DEF Charged
      <4>5. /\ Cardinality(Charged(d) \cup {r}) = Cardinality(Charged(d)) + 1
            /\ Cardinality(Charged(d)) \in Nat
        BY <2>1, <4>1, ChargedFinite, FS_AddElement
      <4> QED
        BY <2>1, <3>1, <4>2, <4>4, <4>5
    <3>4. ASSUME day \notin raced', Charged(day)' # {}
          PROVE  row.day = day
      BY <2>1, <3>1, <3>4 DEF Counted, Faithful
    <3>5. row'.day > 0 /\ row'.day \notin raced' => row'.used >= Cardinality(Charged(row.day))'
      BY <2>1, <3>2, <3>3 DEF Charged
    <3>6. row'.day > 0 /\ row'.day \notin raced' \cup leaked'
              => row'.used = Cardinality(Charged(row.day))'
      BY <2>1, <3>2, <3>3 DEF Charged
    <3> QED
      BY <2>1, <3>1, <3>4, <3>5, <3>6 DEF Faithful, Charged
  <2>5. KeptInv'
    BY <2>1, <2>4, KeptBehind DEF Charge, Committed
  <2>6. CopiesInv'
    BY <2>1, CopiesStay, WaitingChanges DEF Charge
  <2> QED
    BY <1>0, <2>2, <2>3, <2>4, <2>5, <2>6 DEF Counted
<1> QED
  BY <1>1, <1>2

\* A charge that raises keeps it, too: the increment it may leave behind is named.
LEMMA ChargeRaisesCounted ==
    ASSUME TypeOK, Counted, NEW r \in Requests, ChargeRaises(r)
    PROVE  Counted'
<1>1. /\ UNCHANGED <<day, cache, pending, today, copy, paid, raced>>
      /\ kept' = kept /\ open' /\ leaked \subseteq leaked'
  BY DEF ChargeRaises, Raises
<1>2. PaidAfterCharge'
  BY <1>1 DEF Counted, PaidAfterCharge, ChargeRaises, Charging, Goto, TypeOK
<1>3. CASE UNCHANGED <<row, moves, leaked>>
  BY <1>1, <1>2, <1>3, QuietCounted, WaitingChanges
<1>4. CASE AddOne /\ leaked' = leaked \cup {row.day}
  <2>1. Fewer
    BY <1>1, ChargedSame, NoneAdded
  <2>2. moves' = moves + 1 /\ row' = [row EXCEPT !.used = @ + 1]
    BY <1>4 DEF AddOne
  <2>3. /\ row' \in Rows /\ row'.day = row.day /\ row'.used = row.used + 1
        /\ row.used \in Nat /\ row.day \in Nat
    <3>1. row \in Rows
      BY HeldCopies
    <3>2. row.used \in Nat /\ row.day \in Nat /\ row.used + 1 \in Nat
      BY <3>1 DEF Rows
    <3>3. row'.day = row.day /\ row'.used = row.used + 1
      BY <2>2, <3>1 DEF Rows
    <3>4. row' \in Rows
      BY <2>2, <3>1, <3>2 DEF Rows
    <3> QED
      BY <3>2, <3>3, <3>4
  <2>4. Faithful(row)'
    <3>1. PICK s \in Rows : s = row
      BY HeldCopies
    <3>2. Faithful(s)'
      BY <2>1, <3>1, StaysFaithful DEF Counted
    <3>3. PICK t \in Rows : t = row'
      BY <2>3
    <3>4. Faithful(t)'
      <4>1. t.day = s.day /\ t.used = s.used + 1 /\ s.used \in Nat /\ s.day \in leaked'
        BY <1>4, <2>3, <3>1, <3>3
      <4>2. Cardinality(Charged(s.day)') \in Nat
        <5>1. Charged(s.day)' \subseteq Requests
          BY DEF Charged
        <5> QED
          BY <5>1, QuotaAssumption, FS_Subset, FS_CardinalityType
      <4>3. t.day > 0 /\ t.day \notin raced' => t.used >= Cardinality(Charged(t.day))'
        BY <3>2, <4>1, <4>2 DEF Faithful
      <4> QED
        BY <3>2, <4>1, <4>3 DEF Faithful
    <3> QED
      BY <3>3, <3>4
  <2>5. KeptInv'
    BY <1>1, <2>1, <2>3, <2>4, KeptBehind
  <2>6. CopiesInv'
    BY <1>1, <2>2, CopiesStay, WaitingChanges
  <2>7. Calendar' /\ FirstMove'
    BY <1>1, <2>2 DEF Counted, Calendar, FirstMove, TypeOK
  <2> QED
    BY <1>2, <2>4, <2>5, <2>6, <2>7 DEF Counted
<1> QED
  BY <1>3, <1>4 DEF ChargeRaises

\* The UPDATE of a refund takes its request out of the charges of its day, and lets the
\* days of the row and of the request be raced unless it takes its own charge back.
LEMMA RefundTakes ==
    ASSUME TypeOK, NEW r \in Requests, TakeBack(r), UNCHANGED <<day, today>>
    PROVE  /\ raced \subseteq raced' /\ row' \in Rows /\ row'.day = row.day
           /\ \A d \in Nat : Charged(d)' = Charged(d) \ {r}
           /\ \A d \in Nat : d # today[r] => Charged(d)' = Charged(d)
           /\ r \notin paid => \A d \in Nat : Charged(d)' = Charged(d)
<1>1. raced \subseteq raced' /\ paid' = paid \ {r} /\ today' = today
  BY DEF TakeBack
<1>2. row' \in Rows
  BY PieceTypes
<1>3. row'.day = row.day
  BY DEF TakeBack, RefundOf, TypeOK, Rows
<1>4. \A d \in Nat : Charged(d)' = Charged(d) \ {r}
  BY <1>1 DEF Charged
<1>5. \A d \in Nat : d # today[r] => Charged(d)' = Charged(d)
  BY <1>1 DEF Charged
<1>6. r \notin paid => \A d \in Nat : Charged(d)' = Charged(d)
  BY <1>1 DEF Charged
<1> QED
  BY <1>1, <1>2, <1>3, <1>4, <1>5, <1>6

\* It keeps the row faithful and the copies good.
LEMMA TakeBackFaithful ==
    ASSUME TypeOK, Counted, NEW r \in Requests, TakeBack(r),
           UNCHANGED <<day, today, cache, copy, pending>>, leaked \subseteq leaked'
    PROVE  Faithful(row)' /\ CopiesInv' /\ FirstMove'
<1>1. /\ raced \subseteq raced' /\ row'.day = row.day
      /\ \A d \in Nat : Charged(d)' = Charged(d) \ {r}
      /\ \A d \in Nat : d # today[r] => Charged(d)' = Charged(d)
      /\ r \notin paid => \A d \in Nat : Charged(d)' = Charged(d)
  BY RefundTakes
<1>2. FirstMove'
  BY DEF Counted, FirstMove, TakeBack, TypeOK
<1>3. CASE row.level = "free"
  <2>1. moves' = moves + 1
    BY <1>3 DEF TakeBack
  <2>2. CopiesInv'
    BY <1>1, <2>1, CopiesStay, WaitingChanges
  <2>3. Faithful(row)'
    <3>1. /\ row.day \in Nat /\ day \in Nat /\ row.day <= day /\ row.used \in Nat
      BY DEF TypeOK, Rows, Counted, Faithful
    <3>2. PICK d \in Nat : d = row.day
      BY <3>1
    <3>3. ~Returns(r) => {row.day, today[r]} \subseteq raced'
      BY <1>3 DEF TakeBack
    <3>4. ASSUME d > 0, d \notin raced'
          PROVE  /\ row'.used >= Cardinality(Charged(d)')
                 /\ d \notin leaked' => row'.used = Cardinality(Charged(d)')
      <4>1. Returns(r) /\ d \notin raced
        BY <1>1, <3>2, <3>3, <3>4
      <4>2. r \in Charged(d)
        BY <3>2, <4>1 DEF Returns, Charged
      <4>3. /\ row.used >= Cardinality(Charged(d))
            /\ d \notin leaked' => row.used = Cardinality(Charged(d))
        BY <3>2, <3>4, <4>1 DEF Counted, Faithful
      <4>4. IsFiniteSet(Charged(d)) /\ Cardinality(Charged(d)) \in Nat
        BY ChargedFinite
      <4>5. Cardinality(Charged(d) \ {r}) = Cardinality(Charged(d)) - 1
        BY <4>2, <4>4, FS_RemoveElement
      <4>6. Cardinality(Charged(d)) # 0
        BY <4>2, <4>4, FS_EmptySet
      <4>7. row.used > 0
        BY <3>1, <4>3, <4>4, <4>6
      <4>8. row'.used = row.used - 1
        BY <1>3, <4>7 DEF TakeBack, RefundOf, TypeOK, Rows
      <4>9. Cardinality(Charged(d)') = Cardinality(Charged(d)) - 1
        BY <1>1, <4>5
      <4> QED
        BY <3>1, <4>3, <4>4, <4>8, <4>9
    <3>5. ASSUME day \notin raced', Charged(day)' # {}
          PROVE  row.day = day
      <4>1. day \notin raced
        BY <1>1, <3>5
      <4>2. Charged(day) # {}
        BY <1>1, <3>1, <3>5
      <4> QED
        BY <4>1, <4>2 DEF Counted, Faithful
    <3>6. row'.day > 0 /\ row'.day \notin raced' => row'.used >= Cardinality(Charged(row.day))'
      BY <1>1, <3>2, <3>4 DEF Charged
    <3>7. row'.day > 0 /\ row'.day \notin raced' \cup leaked'
              => row'.used = Cardinality(Charged(row.day))'
      BY <1>1, <3>2, <3>4 DEF Charged
    <3> QED
      BY <1>1, <3>1, <3>5, <3>6, <3>7 DEF Faithful, Charged
  <2> QED
    BY <1>2, <2>2, <2>3
<1>4. CASE row.level # "free"
  <2>1. moves' = moves /\ row' = row
    BY <1>4 DEF TakeBack, RefundOf
  <2>2. r \in paid => today[r] \in raced'
    BY <1>4 DEF TakeBack, Returns
  <2>3. Fewer
    BY <1>1, <2>2 DEF Fewer
  <2>4. CopiesInv'
    BY <2>1, <2>3, CopiesStay, WaitingChanges
  <2>5. Faithful(row)'
    <3>1. PICK s \in Rows : s = row
      BY HeldCopies
    <3>2. Faithful(s)'
      BY <2>3, <3>1, StaysFaithful DEF Counted
    <3> QED
      BY <2>1, <3>1, <3>2
  <2> QED
    BY <1>2, <2>4, <2>5
<1> QED
  BY <1>3, <1>4

\* A refund keeps the count.
LEMMA RefundCounted ==
    ASSUME TypeOK, Counted, NEW r \in Requests, Refund(r)
    PROVE  Counted'
<1>1. /\ TakeBack(r) /\ UNCHANGED <<day, today, cache, copy, pending>>
      /\ leaked \subseteq leaked' /\ kept' = row'
  BY DEF Refund, Committed
<1>2. Faithful(row)' /\ CopiesInv' /\ FirstMove'
  BY <1>1, TakeBackFaithful
<1>3. KeptInv'
  BY <1>1, <1>2, RefundTakes, KeptBehind
<1>4. PaidAfterCharge'
  BY <1>1 DEF Counted, PaidAfterCharge, Refund, TakeBack, Goto, TypeOK
<1>5. Calendar'
  BY <1>1 DEF Counted, Calendar
<1> QED
  BY <1>2, <1>3, <1>4, <1>5 DEF Counted

\* A refund that raises keeps it, too: dropped or left in the open transaction, it is named.
LEMMA RefundRaisesCounted ==
    ASSUME TypeOK, Counted, NEW r \in Requests, RefundRaises(r)
    PROVE  Counted'
<1>1. /\ UNCHANGED <<day, cache, pending, today, copy>>
      /\ kept' = kept /\ open'
  BY DEF RefundRaises, Raises
<1>2. PaidAfterCharge'
  BY <1>1 DEF Counted, PaidAfterCharge, RefundRaises, Refunding, TakeBack, Goto, TypeOK
<1>3. CASE UNCHANGED <<row, moves, paid, raced, leaked>>
  BY <1>1, <1>2, <1>3, QuietCounted, WaitingChanges
<1>4. CASE /\ UNCHANGED <<row, moves, raced>>
           /\ paid' = paid \ {r}
           /\ leaked' = IF r \in paid THEN leaked \cup {today[r]} ELSE leaked
  <2>1. Fewer
    <3>1. \A d \in Nat : Charged(d)' \subseteq Charged(d)
      BY <1>1, <1>4 DEF Charged
    <3>2. \A d \in Nat : d # today[r] \/ r \notin paid => Charged(d)' = Charged(d)
      BY <1>1, <1>4 DEF Charged
    <3>3. r \in paid => today[r] \in leaked'
      BY <1>4
    <3> QED
      BY <1>1, <1>4, <3>1, <3>2, <3>3 DEF Fewer
  <2>2. Faithful(row)' /\ KeptInv'
    BY <1>1, <1>4, <2>1, RowStays
  <2>3. CopiesInv'
    BY <1>1, <1>4, <2>1, CopiesStay, WaitingChanges
  <2>4. Calendar' /\ FirstMove'
    BY <1>1, <1>4 DEF Counted, Calendar, FirstMove
  <2> QED
    BY <1>2, <2>2, <2>3, <2>4 DEF Counted
<1>5. CASE TakeBack(r) /\ leaked' = leaked \cup {row.day, today[r]}
  <2>1. Faithful(row)' /\ CopiesInv' /\ FirstMove'
    BY <1>1, <1>5, TakeBackFaithful
  <2>2. /\ raced \subseteq raced' /\ row' \in Rows /\ row'.day = row.day
        /\ \A d \in Nat : Charged(d)' = Charged(d) \ {r}
        /\ \A d \in Nat : d # today[r] => Charged(d)' = Charged(d)
    BY <1>1, <1>5, RefundTakes
  <2>3. Fewer
    BY <1>1, <1>5, <2>2 DEF Fewer
  <2>4. KeptInv'
    BY <1>1, <2>1, <2>2, <2>3, KeptBehind
  <2>5. Calendar'
    BY <1>1 DEF Counted, Calendar
  <2> QED
    BY <1>2, <2>1, <2>4, <2>5 DEF Counted
<1> QED
  BY <1>3, <1>4, <1>5 DEF RefundRaises

\* A rollback brings back a row that counts the charges as well.
LEMMA RollBackCounted ==
    ASSUME TypeOK, Counted, RolledBack, PaidAfterCharge',
           UNCHANGED <<day, cache, pending, today, copy, paid, raced, leaked>>
    PROVE  Counted'
<1>1. Fewer
  BY ChargedSame, NoneAdded
<1>2. row' = kept /\ kept' = kept /\ (moves' = moves \/ moves' = moves + 1)
  BY DEF RolledBack
<1>3. PICK k \in Rows : k = kept
  BY HeldCopies
<1>4. Faithful(k)'
  BY <1>1, <1>3, StaysFaithful DEF Counted, KeptInv
<1>5. Faithful(row)' /\ Faithful(kept)'
  BY <1>2, <1>3, <1>4
<1>6. KeptInv'
  BY <1>2, <1>5 DEF KeptInv
<1>7. CopiesInv'
  BY <1>1, <1>2, CopiesStay, WaitingChanges
<1>8. Calendar' /\ FirstMove'
  BY <1>2 DEF Counted, Calendar, FirstMove, TypeOK
<1> QED
  BY <1>5, <1>6, <1>7, <1>8 DEF Counted

-----------------------------------------------------------------------------
(* The steps that leave the charges and the calendar alone.                *)

\* A step that moves a request after its check, and at most drops the cached copy.
LEMMA PassCounted ==
    ASSUME TypeOK, Counted, NEW r \in Requests,
           \/ ChargeFails(r) \/ Recheck(r) \/ RecheckRaises(r) \/ Uncache(r) \/ Deliver(r)
    PROVE  Counted'
<1>1. /\ UNCHANGED <<day, row, moves, copy, paid, today, raced, leaked>>
      /\ kept' = row \/ (kept' = kept /\ (~open' => ~open))
      /\ cache' \in {NoCopy, cache} /\ pending' = pending
  BY DEF ChargeFails, Recheck, RecheckRaises, Uncache, Deliver, Committed, txVars
<1>2. PaidAfterCharge'
  BY <1>1 DEF Counted, PaidAfterCharge, ChargeFails, Charging, Recheck, RecheckRaises,
     Uncache, Deliver, Goto, TypeOK
<1> QED
  BY <1>1, <1>2, QuietCounted, WaitingChanges

\* A restart takes back what was not committed.
LEMMA CrashCounted ==
    ASSUME TypeOK, Counted, NEW r \in Requests, Crash(r)
    PROVE  Counted'
<1>1. PaidAfterCharge'
  BY DEF Counted, PaidAfterCharge, Crash, Goto, TypeOK
<1> QED
  BY <1>1, RollBackCounted DEF Crash

\* An upsert whose copy missed nothing leaves a faithful row; after any other
\* the days of both rows are raced.
LEMMA ApplyCounted ==
    ASSUME TypeOK, Counted, NEW i \in 1..Len(pending), Apply(i)
    PROVE  Counted'
<1>1. /\ day' = day /\ moves' = moves /\ raced \subseteq raced' /\ row' = pending[i].row
      /\ UNCHANGED <<copy, paid, today, pc, leaked>> /\ kept' = row'
      /\ cache' \in {NoCopy, cache} /\ Waiting' \subseteq Waiting
  BY WaitingChanges DEF Apply, reqVars
<1>2. Fewer /\ \A d \in Nat : Charged(d)' = Charged(d)
  BY <1>1, ChargedSame, NoneAdded
<1>3. CopiesInv'
  BY <1>1, <1>2, CopiesStay
<1>4. Faithful(row)' /\ Faithful(kept)'
  <2>1. pending[i] \in Waiting
    BY DEF Waiting
  <2>2. CopyInv(pending[i]) /\ pending[i].row \in Rows
    BY <2>1, HeldCopies DEF Counted, CopiesInv, Copies
  <2>3. PICK s \in Rows : s = pending[i].row
    BY <2>2
  <2>4. Faithful(s)'
    <3>1. CASE ~Stale(pending[i])
      <4>1. Faithful(s)
        BY <2>2, <2>3, <3>1 DEF Stale, CopyInv
      <4> QED
        BY <1>2, <4>1, StaysFaithful
    <3>2. CASE Stale(pending[i])
      <4>1. {row.day, s.day} \subseteq raced'
        BY <2>3, <3>2 DEF Apply
      <4>2. s.day <= day'
        BY <1>1, <2>2, <2>3 DEF CopyInv
      <4>3. day \in Nat
        BY DEF TypeOK
      <4>4. day' \notin raced' => Charged(day)' = {}
        BY <1>1, <1>2, <4>1, <4>3 DEF Counted, Faithful
      <4> QED
        BY <4>1, <4>2, <4>4 DEF Faithful
    <3> QED
      BY <3>1, <3>2
  <2> QED
    BY <1>1, <2>3, <2>4
<1>5. KeptInv'
  BY <1>1, <1>4 DEF KeptInv
<1>6. Calendar' /\ FirstMove' /\ PaidAfterCharge'
  BY <1>1 DEF Counted, Calendar, FirstMove, PaidAfterCharge
<1> QED
  BY <1>3, <1>4, <1>5, <1>6 DEF Counted

\* A new day begins without a charge.
LEMMA MidnightCounted ==
    ASSUME TypeOK, Counted, Midnight
    PROVE  Counted'
<1>1. /\ day' = day + 1 /\ day \in Nat
      /\ UNCHANGED <<row, moves, cache, pending, copy, pc, today, paid, raced, leaked, open, kept>>
  BY DEF Midnight, reqVars, txVars, TypeOK
<1>2. Charged(day)' = {}
  <2>1. \A r \in paid : today[r] <= day /\ today[r] \in Nat
    BY DEF Counted, Calendar, TypeOK
  <2> QED
    BY <1>1, <2>1 DEF Charged
<1>3. ASSUME NEW s \in Rows, Faithful(s)
      PROVE  Faithful(s)'
  <2>1. s.day \in Nat
    BY DEF Rows
  <2>2. Charged(s.day)' = Charged(s.day)
    BY <1>1, <2>1, ChargedSame
  <2>3. s.day <= day'
    BY <1>1, <1>3, <2>1 DEF Faithful
  <2>4. /\ s.day > 0 /\ s.day \notin raced' => s.used >= Cardinality(Charged(s.day))'
        /\ s.day > 0 /\ s.day \notin raced' \cup leaked' => s.used = Cardinality(Charged(s.day))'
    BY <1>1, <1>3, <2>2 DEF Faithful
  <2> QED
    BY <1>2, <2>3, <2>4 DEF Faithful
<1>4. ASSUME NEW c \in Copies, CopyInv(c)
      PROVE  CopyInv(c)'
  <2>1. c.row \in Rows
    BY DEF Copies
  <2>2. Faithful(c.row) => Faithful(c.row)'
    BY <1>3, <2>1
  <2>3. c.row.day <= day'
    BY <1>1, <1>4, <2>1 DEF CopyInv, Rows
  <2> QED
    BY <1>1, <1>4, <2>2, <2>3 DEF CopyInv
<1>5. Faithful(row)' /\ KeptInv'
  <2>1. PICK s \in Rows : s = row
    BY HeldCopies
  <2>2. PICK k \in Rows : k = kept
    BY HeldCopies
  <2>3. Faithful(s)' /\ Faithful(k)'
    BY <1>3, <2>1, <2>2 DEF Counted, KeptInv
  <2>4. Faithful(row)' /\ Faithful(kept)'
    BY <1>1, <2>1, <2>2, <2>3
  <2> QED
    BY <1>1, <2>4 DEF Counted, KeptInv
<1>6. CopiesInv'
  BY <1>1, <1>4, HeldCopies, WaitingChanges DEF Counted, CopiesInv
<1>7. Calendar' /\ FirstMove' /\ PaidAfterCharge'
  BY <1>1 DEF Counted, Calendar, FirstMove, PaidAfterCharge, TypeOK
<1> QED
  BY <1>5, <1>6, <1>7 DEF Counted

\* The cached copy expires, the level changes, or the transaction ends.
LEMMA WorldCounted ==
    ASSUME TypeOK, Counted,
           OthersCommit \/ OthersRollBack \/ Expire \/ ChangeLevel \/ UNCHANGED vars
    PROVE  Counted'
<1>1. CASE OthersRollBack
  <2>1. PaidAfterCharge'
    BY <1>1 DEF Counted, PaidAfterCharge, OthersRollBack, reqVars
  <2> QED
    BY <1>1, <2>1, RollBackCounted DEF OthersRollBack, reqVars
<1>2. CASE OthersCommit \/ Expire \/ ChangeLevel \/ UNCHANGED vars
  <2>1. /\ UNCHANGED <<day, row, moves, copy, paid, today, raced, leaked, pc>>
        /\ kept' = row \/ (kept' = kept /\ (~open' => ~open))
        /\ cache' \in {NoCopy, cache} /\ pending' = pending
    BY <1>2 DEF OthersCommit, Committed, Expire, ChangeLevel, vars, reqVars, txVars
  <2>2. PaidAfterCharge'
    BY <2>1 DEF Counted, PaidAfterCharge
  <2> QED
    BY <2>1, <2>2, QuietCounted, WaitingChanges
<1> QED
  BY <1>1, <1>2

\* Every step keeps the count.
LEMMA StepCounted ==
    ASSUME TypeOK, Counted, [Next]_vars
    PROVE  Counted'
<1>1. ASSUME NEW r \in Requests, Settle(r) PROVE Counted'
  BY <1>1, ChargeCounted, ChargeRaisesCounted, PassCounted, RefundCounted,
     RefundRaisesCounted, CrashCounted DEF Settle
<1> QED
  BY <1>1, CheckCounted, ApplyCounted, MidnightCounted, WorldCounted DEF Next
-----------------------------------------------------------------------------
(* The theorems.                                                           *)

\* In the first state nothing has been charged.
LEMMA InitCounted == Init => TypeOK /\ Counted
<1> SUFFICES ASSUME Init PROVE TypeOK /\ Counted
  OBVIOUS
<1>1. TypeOK
  BY InitTypes
<1>2. FirstMove /\ PaidAfterCharge /\ Calendar
  BY DEF Init, FirstMove, PaidAfterCharge, Calendar
<1>3. CopyInv(NoCopy)
  BY <1>1, <1>2, NoCopyGood
<1>4. Faithful(row)
  BY <1>3 DEF Init, CopyInv, NoCopy
<1>5. CopiesInv
  BY <1>3 DEF Init, CopiesInv, Waiting
<1>6. KeptInv
  BY <1>4 DEF Init, KeptInv
<1> QED
  BY <1>1, <1>2, <1>4, <1>5, <1>6 DEF Counted

\* The counter of the row is exact on every day without one of the six races and without
\* a charge or a refund that raised, however many requests and rows waiting in the queue.
THEOREM CountExact == Spec => []CountExactUnlessRaced
<1>1. TypeOK /\ Counted /\ [Next]_vars => Counted'
  BY StepCounted
<1>2. Counted => CountExactUnlessRaced
  BY DEF Counted, Faithful, CountExactUnlessRaced
<1> QED
  BY <1>1, <1>2, InitCounted, TypeCorrect, PTL DEF Spec

\* Only a charge adds to the charges of a day; a refund takes away.
LEMMA NoNewCharge ==
    ASSUME TypeOK, Counted, [Next]_vars, ~ \E r \in Requests : Charge(r)
    PROVE  /\ raced \subseteq raced'
           /\ \A d \in Nat : Charged(d)' \subseteq Charged(d)
<1>0. CASE /\ today' = today /\ raced \subseteq raced'
           /\ \E r \in Requests : paid' = paid \/ paid' = paid \ {r}
  BY <1>0 DEF Charged
<1>1. ASSUME NEW r \in Requests, Check(r)
      PROVE  raced \subseteq raced' /\ \A d \in Nat : Charged(d)' \subseteq Charged(d)
  BY <1>1, CheckIsQuiet DEF Counted
<1>2. ASSUME NEW r \in Requests, Refund(r) \/ RefundRaises(r)
      PROVE  raced \subseteq raced' /\ \A d \in Nat : Charged(d)' \subseteq Charged(d)
  BY <1>0, <1>2 DEF Refund, RefundRaises, TakeBack
<1>3. ASSUME UNCHANGED <<paid, today>>, raced \subseteq raced'
      PROVE  raced \subseteq raced' /\ \A d \in Nat : Charged(d)' \subseteq Charged(d)
  BY <1>3, ChargedSame
<1>4. ASSUME NEW r \in Requests,
             \/ ChargeFails(r) \/ ChargeRaises(r) \/ Recheck(r) \/ RecheckRaises(r)
             \/ Uncache(r) \/ Deliver(r) \/ Crash(r)
      PROVE  UNCHANGED <<paid, today>> /\ raced \subseteq raced'
  BY <1>4 DEF ChargeFails, ChargeRaises, Recheck, RecheckRaises, Uncache, Deliver, Crash
<1>5. ASSUME NEW i \in 1..Len(pending), Apply(i)
      PROVE  UNCHANGED <<paid, today>> /\ raced \subseteq raced'
  BY <1>5 DEF Apply, reqVars
<1>6. ASSUME \/ OthersCommit \/ OthersRollBack \/ Expire \/ Midnight \/ ChangeLevel
             \/ UNCHANGED vars
      PROVE  UNCHANGED <<paid, today>> /\ raced \subseteq raced'
  BY <1>6 DEF OthersCommit, OthersRollBack, Expire, Midnight, ChangeLevel, vars, reqVars
<1> QED
  BY <1>1, <1>2, <1>3, <1>4, <1>5, <1>6 DEF Next, Settle

\* The charge of a request finds the counter below the quota, and the counter
\* is not too low unless the day is raced.
LEMMA ChargeHolds ==
    ASSUME TypeOK, Counted, QuotaHeldUnlessRaced, NEW r \in Requests, Charge(r)
    PROVE  QuotaHeldUnlessRaced'
<1>1. CASE row.level = "premium"
  BY <1>1 DEF Charge, QuotaHeldUnlessRaced, Charged
<1>2. CASE row.level # "premium"
  <2>1. /\ raced \subseteq raced'
        /\ \A d \in Nat : d # today[r] => Charged(d)' = Charged(d)
        /\ r \notin Charged(today[r])
        /\ row.day # today[r] => {row.day, today[r]} \subseteq raced'
    BY <1>2, ChargeAdds DEF Counted
  <2>2. row.used < FreeQuota /\ today' = today /\ paid' = paid \cup {r}
    BY <1>2 DEF Charge, CanCharge
  <2> SUFFICES ASSUME NEW d \in 1..MaxDay, d \notin raced'
               PROVE  Cardinality(Charged(d)') <= FreeQuota
    BY DEF QuotaHeldUnlessRaced
  <2>3. CASE d # today[r]
    BY <2>1, <2>3, QuotaAssumption DEF QuotaHeldUnlessRaced
  <2>4. CASE d = today[r]
    <3>1. row.day = d /\ d > 0 /\ d \notin raced
      BY <2>1, <2>4, QuotaAssumption
    <3>2. row.used >= Cardinality(Charged(d))
      BY <3>1 DEF Counted, Faithful
    <3>3. Charged(d)' = Charged(d) \cup {r}
      BY <2>2, <2>4 DEF Charged
    <3>4. Cardinality(Charged(d) \cup {r}) = Cardinality(Charged(d)) + 1
      BY <2>1, <2>4, ChargedFinite, FS_AddElement
    <3>5. row.used \in Nat /\ Cardinality(Charged(d)) \in Nat
      BY ChargedFinite DEF TypeOK, Rows
    <3> QED
      BY <2>2, <3>2, <3>3, <3>4, <3>5, QuotaAssumption
  <2> QED
    BY <2>3, <2>4
<1> QED
  BY <1>1, <1>2

\* Nobody is charged beyond the daily quota on a day without one of the six races,
\* whichever charges and refunds raise.
THEOREM QuotaHeld == Spec => []QuotaHeldUnlessRaced
<1>1. Init => QuotaHeldUnlessRaced
  <2> SUFFICES ASSUME Init PROVE \A d \in 1..MaxDay : Cardinality(Charged(d)) <= FreeQuota
    BY DEF QuotaHeldUnlessRaced
  <2>1. \A d \in 1..MaxDay : Charged(d) = {}
    BY DEF Init, Charged
  <2> QED
    BY <2>1, FS_EmptySet, QuotaAssumption
<1>2. TypeOK /\ Counted /\ QuotaHeldUnlessRaced /\ [Next]_vars => QuotaHeldUnlessRaced'
  <2> SUFFICES ASSUME TypeOK, Counted, QuotaHeldUnlessRaced, [Next]_vars
               PROVE  QuotaHeldUnlessRaced'
    OBVIOUS
  <2>1. CASE \E r \in Requests : Charge(r)
    BY <2>1, ChargeHolds
  <2>2. CASE ~ \E r \in Requests : Charge(r)
    <3> SUFFICES ASSUME NEW d \in 1..MaxDay, d \notin raced'
                 PROVE  Cardinality(Charged(d)') <= FreeQuota
      BY DEF QuotaHeldUnlessRaced
    <3>1. d \in Nat /\ d \notin raced /\ Charged(d)' \subseteq Charged(d)
      BY <2>2, NoNewCharge, QuotaAssumption
    <3>2. Cardinality(Charged(d)) <= FreeQuota
      BY <3>1 DEF QuotaHeldUnlessRaced
    <3>3. /\ Cardinality(Charged(d)') <= Cardinality(Charged(d))
          /\ Cardinality(Charged(d)') \in Nat
      BY <3>1, ChargedFinite, FS_Subset, FS_CardinalityType
    <3> QED
      BY <3>2, <3>3, ChargedFinite, QuotaAssumption
  <2> QED
    BY <2>1, <2>2
<1>3. TypeOK /\ Counted /\ [Next]_vars => Counted'
  BY StepCounted
<1> QED
  BY <1>1, <1>2, <1>3, InitCounted, TypeCorrect, PTL DEF Spec

\* Only the absent row has no level, a copy about to be reset has one, and a
\* request under way has its day.
LEMMA StepNamed ==
    ASSUME TypeOK, Named, [Next]_vars
    PROVE  Named'
<1>1. /\ (row.level = "none" => row.day = 0)'
      /\ (kept.level = row.level /\ kept.day = row.day /\ (~open => kept = row))'
  <2>0. row \in Rows /\ kept.level = row.level /\ kept.day = row.day /\ (~open => kept = row)
    BY HeldCopies DEF Named
  <2>1. CASE row' = row /\ (kept' = row \/ (kept' = kept /\ (~open' => ~open)))
    BY <2>0, <2>1 DEF Named
  <2>2. CASE RolledBack
    BY <2>0, <2>2 DEF Named, RolledBack
  <2>3. CASE /\ row' = row \/ row' = RefundOf(row) \/ AddOne
             /\ Committed \/ (kept' = kept /\ open')
    <3>1. row'.level = row.level /\ row'.day = row.day
      BY <2>0, <2>3 DEF RefundOf, AddOne, Rows
    <3> QED
      BY <2>0, <2>3, <3>1 DEF Named, Committed
  <2>4. ASSUME NEW i \in 1..Len(pending), Apply(i)
        PROVE  row'.level # "none" /\ kept' = row'
    BY <2>4 DEF Apply, Named, Levels, Waiting
  <2>5. ASSUME NEW r \in Requests, Check(r)
        PROVE  row' = row /\ kept' = kept /\ open' = open
    BY <2>5 DEF Check, Begin, ReadCache, ReadRow, ReadFails, Fill, InitRow, SyncLevel,
       ResetAndDecide, RefuseCode, txVars
  <2>6. ASSUME NEW r \in Requests,
               Charge(r) \/ ChargeFails(r) \/ ChargeRaises(r) \/ Refund(r) \/ RefundRaises(r)
        PROVE  /\ row' = row \/ row' = RefundOf(row) \/ AddOne
               /\ Committed \/ (kept' = kept /\ open')
    BY <2>6 DEF Charge, ChargeFails, ChargeRaises, Refund, RefundRaises, TakeBack, Raises
  <2>7. ASSUME NEW r \in Requests, Recheck(r) \/ RecheckRaises(r) \/ Uncache(r) \/ Deliver(r)
        PROVE  row' = row /\ kept' = kept /\ open' = open
    BY <2>7 DEF Recheck, RecheckRaises, Uncache, Deliver, txVars
  <2>8. ASSUME Expire \/ Midnight \/ ChangeLevel \/ UNCHANGED vars
        PROVE  row' = row /\ kept' = kept /\ open' = open
    BY <2>8 DEF Expire, Midnight, ChangeLevel, vars, txVars
  <2>9. ASSUME OthersCommit
        PROVE  row' = row /\ kept' = row
    BY <2>9 DEF OthersCommit, Committed
  <2>10. ASSUME OthersRollBack \/ \E r \in Requests : Crash(r)
         PROVE  RolledBack
    BY <2>10 DEF OthersRollBack, Crash
  <2>11. CASE \E i \in 1..Len(pending) : Apply(i)
    BY <2>4, <2>11 DEF Named
  <2> QED
    BY <2>1, <2>2, <2>3, <2>5, <2>6, <2>7, <2>8, <2>9, <2>10, <2>11 DEF Next, Settle
<1>2. ASSUME NEW r \in Requests, SyncLevel(r)
      PROVE  /\ copy'[r].row.level \in Levels
             /\ \A w \in Waiting' : w \in Waiting \/ w = copy'[r]
             /\ \A q \in Requests \ {r} : copy'[q] = copy[q]
             /\ pc' = [pc EXCEPT ![r] = "reset"]
  <2> DEFINE c == [copy[r] EXCEPT !.row.level = asked[r]]
  <2>0. copy[r] \in Copies /\ copy[r].row \in Rows /\ asked[r] \in Levels
    BY DEF TypeOK, Copies
  <2>1. c \in Copies /\ c.row.level = asked[r] /\ asked[r] \in Levels
    <3>1. c.row = [copy[r].row EXCEPT !.level = asked[r]]
      BY <2>0 DEF Copies
    <3> QED
      BY <2>0, <3>1, CopyTypes DEF Rows
  <2>2. \/ copy[r].row.level = asked[r] /\ UNCHANGED <<copy, pending>>
        \/ copy' = [copy EXCEPT ![r] = c] /\ Upsert(c)
    BY <1>2 DEF SyncLevel
  <2> HIDE DEF c
  <2>3. copy'[r].row.level \in Levels
    BY <2>1, <2>2 DEF TypeOK
  <2>4. \A w \in Waiting' : w \in Waiting \/ w = copy'[r]
    BY <2>1, <2>2, WaitingChanges DEF TypeOK
  <2>5. \A q \in Requests \ {r} : copy'[q] = copy[q]
    BY <2>2 DEF TypeOK
  <2> QED
    BY <1>2, <2>3, <2>4, <2>5 DEF SyncLevel, Goto
<1>3. ASSUME NEW r \in Requests, ResetAndDecide(r)
      PROVE  \A w \in Waiting' : w \in Waiting \/ w.row.level \in Levels
  <2> DEFINE c == ResetOf(r, copy[r])
  <2>1. copy[r].row.level \in Levels
    BY <1>3 DEF Named, ResetAndDecide
  <2>2. c \in Copies /\ c.row.level \in Levels
    <3>0. copy[r] \in Copies /\ copy[r].row \in Rows
      BY HeldCopies DEF Copies
    <3>1. CASE Outdated(r)
      <4>1. c.row = [copy[r].row EXCEPT !.used = 0, !.day = day]
        BY <3>0, <3>1 DEF ResetOf, Copies
      <4> QED
        BY <2>1, <3>0, <4>1, CopyTypes DEF Rows
    <3>2. CASE ~Outdated(r)
      BY <2>1, <3>2, CopyTypes DEF ResetOf
    <3> QED
      BY <3>1, <3>2
  <2>3. UNCHANGED pending \/ Upsert(c)
    BY <1>3 DEF ResetAndDecide
  <2> HIDE DEF c
  <2> QED
    BY <2>2, <2>3, WaitingChanges
<1>4. ASSUME NEW r \in Requests, InitRow(r)
      PROVE  \A w \in Waiting' : w \in Waiting \/ w.row.level \in Levels
  <2> DEFINE c == [row |-> [level |-> level, used |-> 0, day |-> 0], at |-> moves]
  <2>1. c \in Copies /\ c.row.level \in Levels
    BY QuotaAssumption DEF TypeOK, Copies, Rows
  <2>2. Upsert(c)
    BY <1>4 DEF InitRow
  <2> HIDE DEF c
  <2> QED
    BY <2>1, <2>2, WaitingChanges
<1>5. (\A w \in Waiting : w.row.level \in Levels)'
  <2>1. CASE Waiting' \subseteq Waiting
    BY <2>1 DEF Named
  <2>2. CASE pending' = pending
    BY <2>1, <2>2, WaitingChanges
  <2>3. ASSUME NEW r \in Requests, Check(r)
        PROVE  \A w \in Waiting' : w \in Waiting \/ w.row.level \in Levels
    <3>1. CASE pending' = pending
      BY <3>1, WaitingChanges
    <3> QED
      BY <1>2, <1>3, <1>4, <2>3, <3>1 DEF Check, Begin, ReadCache, ReadRow, ReadFails, Fill,
         RefuseCode
  <2>4. ASSUME NEW i \in 1..Len(pending), Apply(i) PROVE Waiting' \subseteq Waiting
    BY <2>4, WaitingChanges
  <2>5. ASSUME NEW r \in Requests, Settle(r) PROVE pending' = pending
    BY <2>5 DEF Settle, Charge, ChargeFails, ChargeRaises, Recheck, RecheckRaises, Uncache,
       Deliver, Refund, RefundRaises, Crash
  <2>6. ASSUME \/ OthersCommit \/ OthersRollBack \/ Expire \/ Midnight \/ ChangeLevel
               \/ UNCHANGED vars
        PROVE  pending' = pending
    BY <2>6 DEF OthersCommit, OthersRollBack, Expire, Midnight, ChangeLevel, vars
  <2> QED
    BY <2>1, <2>2, <2>3, <2>4, <2>5, <2>6 DEF Named, Next
<1>6. (\A r \in Requests : pc[r] = "reset" => copy[r].row.level \in Levels)'
  <2>1. CASE UNCHANGED <<pc, copy>>
    BY <2>1 DEF Named
  <2>2. ASSUME NEW r \in Requests, NEW step \in Steps \ {"reset"}, Goto(r, step),
               \A q \in Requests \ {r} : copy'[q] = copy[q]
        PROVE  \A q \in Requests : pc'[q] = "reset" => copy'[q].row.level \in Levels
    BY <2>2 DEF Named, Goto, TypeOK
  <2>3. ASSUME NEW r \in Requests, Check(r) \/ Settle(r), ~SyncLevel(r)
        PROVE  \E step \in Steps \ {"reset"} :
                   Goto(r, step) /\ \A q \in Requests \ {r} : copy'[q] = copy[q]
    <3>1. CASE Check(r)
      <4>1. \A q \in Requests \ {r} : copy'[q] = copy[q]
        BY <2>3, <3>1 DEF TypeOK, Check, Begin, ReadCache, ReadRow, ReadFails, Fill, InitRow,
           ResetAndDecide, RefuseCode
      <4>2. \E step \in Steps \ {"reset"} : Goto(r, step)
        BY <2>3, <3>1 DEF Steps, Check, Begin, ReadCache, ReadRow, ReadFails, Fill, InitRow,
           ResetAndDecide, RefuseCode
      <4> QED
        BY <4>1, <4>2
    <3>2. CASE Settle(r)
      <4>1. copy' = copy
        BY <3>2 DEF Settle, Charge, ChargeFails, ChargeRaises, Recheck, RecheckRaises, Uncache,
           Deliver, Refund, RefundRaises, Crash
      <4>2. \E step \in Steps \ {"reset"} : Goto(r, step)
        BY <3>2 DEF Steps, Settle, Charge, ChargeFails, ChargeRaises, Recheck, RecheckRaises,
           Uncache, Deliver, Refund, RefundRaises, Crash
      <4> QED
        BY <4>1, <4>2
    <3> QED
      BY <2>3, <3>1, <3>2
  <2>4. ASSUME NEW r \in Requests, SyncLevel(r)
        PROVE  \A q \in Requests : pc'[q] = "reset" => copy'[q].row.level \in Levels
    BY <1>2, <2>4 DEF Named, TypeOK
  <2>5. ASSUME NEW r \in Requests, Check(r) \/ Settle(r)
        PROVE  \A q \in Requests : pc'[q] = "reset" => copy'[q].row.level \in Levels
    BY <2>2, <2>3, <2>4, <2>5
  <2>6. ASSUME \/ \E i \in 1..Len(pending) : Apply(i)
               \/ OthersCommit \/ OthersRollBack \/ Expire \/ Midnight \/ ChangeLevel
               \/ UNCHANGED vars
        PROVE  UNCHANGED <<pc, copy>>
    BY <2>6 DEF Apply, OthersCommit, OthersRollBack, Expire, Midnight, ChangeLevel, reqVars, vars
  <2> QED
    BY <2>1, <2>5, <2>6 DEF Next
<1>7. (\A r \in Requests : pc[r] # "new" => today[r] > 0)'
  <2>1. CASE UNCHANGED <<pc, today>>
    BY <2>1 DEF Named
  <2>2. ASSUME NEW r \in Requests, Begin(r)
        PROVE  \A q \in Requests : pc'[q] # "new" => today'[q] > 0
    BY <2>2 DEF Begin, Goto, Named, TypeOK
  <2>3. ASSUME NEW r \in Requests, Check(r) \/ Settle(r), ~Begin(r)
        PROVE  \A q \in Requests : pc'[q] # "new" => today'[q] > 0
    <3>1. today' = today /\ pc[r] # "new"
      BY <2>3 DEF Check, Settle, ReadCache, ReadRow, ReadFails, Fill, InitRow,
         SyncLevel, ResetAndDecide, RefuseCode, Charge, ChargeFails, ChargeRaises, Charging,
         Recheck, RecheckRaises, Uncache, Deliver, Refund, RefundRaises, Refunding, Crash
    <3>2. \E step \in Steps : Goto(r, step)
      <4>1. CASE Check(r)
        BY <2>3, <4>1 DEF Steps, Check, ReadCache, ReadRow, ReadFails, Fill, InitRow,
           SyncLevel, ResetAndDecide, RefuseCode
      <4>2. CASE Settle(r)
        BY <4>2 DEF Steps, Settle, Charge, ChargeFails, ChargeRaises, Recheck, RecheckRaises,
           Uncache, Deliver, Refund, RefundRaises, Crash
      <4> QED
        BY <2>3, <4>1, <4>2
    <3>3. \A q \in Requests \ {r} : pc'[q] = pc[q]
      BY <3>2 DEF TypeOK, Goto
    <3> QED
      BY <3>1, <3>3 DEF Named
  <2>4. ASSUME \/ \E i \in 1..Len(pending) : Apply(i)
               \/ OthersCommit \/ OthersRollBack \/ Expire \/ Midnight \/ ChangeLevel
               \/ UNCHANGED vars
        PROVE  UNCHANGED <<pc, today>>
    BY <2>4 DEF Apply, OthersCommit, OthersRollBack, Expire, Midnight, ChangeLevel, reqVars, vars
  <2> QED
    BY <2>1, <2>2, <2>3, <2>4 DEF Next
<1> QED
  BY <1>1, <1>5, <1>6, <1>7 DEF Named

\* Only a charge that fails or raises leads from the charge towards a refusal.
LEMMA WhoDenies ==
    ASSUME TypeOK, [Next]_vars, NEW r \in Requests,
           Charging(r), pc'[r] \in {"select", "exhausted"}
    PROVE  ChargeFails(r) \/ ChargeRaises(r)
<1>1. pc'[r] # pc[r] /\ pc[r] \in {"charge", "again"}
  BY DEF Charging
<1>2. ASSUME NEW q \in Requests, Check(q) \/ Settle(q), q # r
      PROVE  FALSE
  <2>1. \E step \in Steps : Goto(q, step)
    <3>1. CASE Check(q)
      BY <3>1 DEF Steps, Check, Begin, ReadCache, ReadRow, ReadFails, Fill, InitRow,
         SyncLevel, ResetAndDecide, RefuseCode
    <3>2. CASE Settle(q)
      BY <3>2 DEF Steps, Settle, Charge, ChargeFails, ChargeRaises, Recheck, RecheckRaises,
         Uncache, Deliver, Refund, RefundRaises, Crash
    <3> QED
      BY <1>2, <3>1, <3>2
  <2> QED
    BY <1>1, <1>2, <2>1 DEF Goto, TypeOK
<1>3. ~Check(r)
  BY <1>1 DEF TypeOK, Goto, Check, Begin, ReadCache, ReadRow, ReadFails, Fill, InitRow,
     SyncLevel, ResetAndDecide, RefuseCode
<1>4. ~Charge(r) /\ ~Crash(r)
  BY DEF TypeOK, Goto, Charge, Crash
<1>5. /\ ~Recheck(r) /\ ~RecheckRaises(r) /\ ~Uncache(r) /\ ~Deliver(r)
      /\ ~Refund(r) /\ ~RefundRaises(r)
  BY <1>1 DEF Recheck, RecheckRaises, Uncache, Deliver, Refund, RefundRaises, Refunding
<1>6. /\ ~ \E i \in 1..Len(pending) : Apply(i)
      /\ ~OthersCommit /\ ~OthersRollBack /\ ~Expire /\ ~Midnight /\ ~ChangeLevel
      /\ ~UNCHANGED vars
  BY <1>1 DEF Apply, OthersCommit, OthersRollBack, Expire, Midnight, ChangeLevel, reqVars, vars
<1> QED
  BY <1>2, <1>3, <1>4, <1>5, <1>6 DEF Next, Settle

\* A request that passed its check is refused at the charge only on a full day or one
\* whose count went wrong, while the row is not one of its day, or because the charge
\* raised.
THEOREM DenialsExplained == Spec => DenialExplained
<1>1. Init => Named
  BY DEF Init, Named, NoRow, Waiting
<1>2. TypeOK /\ Named /\ [Next]_vars => Named'
  BY StepNamed
<1>3. TypeOK /\ Counted /\ [Next]_vars => Counted'
  BY StepCounted
<1>4. ASSUME TypeOK, Counted, Named, NEW r \in Requests, ChargeFails(r)
      PROVE  \/ row.day # today[r]
             \/ today[r] \in raced \cup leaked
             \/ Cardinality(Charged(today[r])) >= FreeQuota
  <2> SUFFICES ASSUME row.day = today[r], today[r] \notin raced \cup leaked
               PROVE  Cardinality(Charged(today[r])) >= FreeQuota
    OBVIOUS
  <2>1. row.day > 0 /\ row.used \in Nat
    BY <1>4 DEF Named, ChargeFails, Charging, TypeOK, Rows
  <2>2. row.level = "free" /\ ~(row.used < FreeQuota)
    BY <1>4, <2>1 DEF ChargeFails, CanCharge, Named, TypeOK, Rows, Levels
  <2>3. row.used = Cardinality(Charged(today[r]))
    <3>1. Faithful(row) /\ row.day \notin raced \cup leaked
      BY <1>4 DEF Counted
    <3>2. row.used = Cardinality(Charged(row.day))
      BY <2>1, <3>1 DEF Faithful
    <3> QED
      BY <3>2
  <2> QED
    BY <2>1, <2>2, <2>3, QuotaAssumption
<1>5. ASSUME TypeOK, NEW r \in Requests, ChargeRaises(r)
      PROVE  errors' > errors
  BY <1>5 DEF ChargeRaises, Raises, TypeOK
<1>6. TypeOK /\ Counted /\ Named /\ [Next]_vars =>
          [\A r \in Requests : Charging(r) /\ pc'[r] \in {"select", "exhausted"} =>
              \/ errors' > errors
              \/ row.day # today[r]
              \/ today[r] \in raced \cup leaked
              \/ Cardinality(Charged(today[r])) >= FreeQuota]_vars
  BY <1>4, <1>5, WhoDenies
<1> QED
  BY <1>1, <1>2, <1>3, <1>6, InitCounted, TypeCorrect, PTL DEF Spec, DenialExplained
=============================================================================
