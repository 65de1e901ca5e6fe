--------------------------- MODULE CrdbSyncProofs ---------------------------
(***************************************************************************)
(* Theorems about CrdbSync, for any keys, instances, batch size and        *)
(* bounds: types, no change is dropped, the mirror keeps up and never goes *)
(* back unless a batch outlived its lease, and the causes of dead letters. *)
(***************************************************************************)
EXTENDS CrdbSync, FiniteSetTheorems, SequenceTheorems, TLAPS

-----------------------------------------------------------------------------
(* The inductive invariants.                                               *)

Held(s) == todo[s] \cup failed[s] \cup done[s]

\* An instance without a batch holds nothing.
OnlyBusyHold == \A s \in Syncers : phase[s] # "busy" => Held(s) = {}

\* Rows of a key are processed oldest first ...
ProcessedInOrder ==
    \A j \in processed : \A i \in Ids : Newer(i, j) => i \in processed

\* ... because a batch that holds a row marks all the older ones.
BatchInOrder ==
    \A s \in Syncers : \A j \in Held(s) : \A i \in Ids :
        Newer(i, j) => i \in processed \cup done[s]

\* A row that will be marked was sent, has a letter, or was superseded.
DoneAccounted ==
    \A s \in Syncers : \A i \in done[s] : Newest(i) => i \in applied \cup dlq

Accounting == OnlyBusyHold /\ ProcessedInOrder /\ BatchInOrder
                /\ DoneAccounted /\ NewestAccounted

\* The next batch would contain row i, were it pending.
Within(i) == Cardinality({j \in Pending : j <= i}) <= BatchLimit

\* A row that was sent, or is about to be, is in every batch until it is
\* processed: so no batch has an older row of its key without it.
SentWithin ==
    /\ \A i \in applied : i \in Pending => Within(i)
    /\ \A s \in Syncers : \A i \in todo[s] : i \in Pending => Within(i)

\* A batch has one row of a key to send.
OnePerKey ==
    \A s \in Syncers : \A i, j \in todo[s] : KeyOf(i) = KeyOf(j) => i = j

TermsPast == \A s \in Syncers : readIn[s] <= term

\* Under the lease it was read in, a batch has nothing older than what was sent.
Abreast ==
    \A s \in Syncers : Fenced(s) =>
        \A i \in todo[s], j \in applied :
            KeyOf(i) = KeyOf(j) /\ KeyOf(i) \notin unfenced => j <= i

\* The mirror has the newest of the rows of a key that were sent.
LatestReflected ==
    \A i \in applied :
        /\ KeyOf(i) \notin unfenced
        /\ \A j \in applied : KeyOf(j) = KeyOf(i) => j <= i
        => Reflects(i)

Mirroring == SentWithin /\ OnePerKey /\ TermsPast /\ Abreast /\ LatestReflected

\* An instance that runs has the lease, the flag and, in a batch, the pool,
\* unless something shook it.
Steady ==
    \A s \in Syncers : Up(s) =>
        \/ lease = s /\ valid[s] /\ (phase[s] = "busy" => pool[s])
        \/ Shaken

FailuresHaveCauses ==
    \A s \in Syncers : \A i \in failed[s] :
        OpOf(i) = "restore" \/ Refused(i) \/ Shaken

Causes == Steady /\ FailuresHaveCauses /\ DeadLettersHaveCauses

-----------------------------------------------------------------------------
(* A new row.                                                              *)

NewId == Len(outbox) + 1

\* The old rows stay what they are and the new one has the greatest id.
LEMMA AppendFacts ==
    ASSUME TypeOK, NEW k \in Keys, NEW op \in Ops, Append1(k, op)
    PROVE  /\ outbox' \in Seq([key: Keys, op: Ops])
           /\ Ids' = Ids \cup {NewId}
           /\ NewId \in Nat /\ NewId \notin Ids
           /\ \A i \in Ids : i \in Nat /\ i < NewId
           /\ \A i \in Ids : OpOf(i)' = OpOf(i) /\ KeyOf(i)' = KeyOf(i)
<1>1. outbox \in Seq([key: Keys, op: Ops]) /\ [key |-> k, op |-> op] \in [key: Keys, op: Ops]
  BY DEF TypeOK
<1>2. outbox' = Append(outbox, [key |-> k, op |-> op])
  BY DEF Append1
<1>3. outbox' \in Seq([key: Keys, op: Ops]) /\ Len(outbox') = Len(outbox) + 1
  BY <1>1, <1>2
<1>4. DOMAIN outbox = 1..Len(outbox) /\ DOMAIN outbox' = 1..(Len(outbox) + 1) /\ Len(outbox) \in Nat
  BY <1>1, <1>3
<1>5. \A i \in 1..Len(outbox) : outbox'[i] = outbox[i]
  BY <1>1, <1>2
<1> QED  BY <1>3, <1>4, <1>5 DEF Ids, NewId, OpOf, KeyOf

\* Every such action is an Append1.
LEMMA WriteAppends ==
    ASSUME Write
    PROVE  \E k \in Keys, op \in Ops : Append1(k, op)
BY DEF Write, Upsert, Takedown, Restore, Ops

LEMMA IdsAreNumbers ==
    ASSUME TypeOK
    PROVE  /\ \A i \in Ids : i \in Nat \ {0} /\ KeyOf(i) \in Keys /\ OpOf(i) \in Ops
           /\ IsFiniteSet(Ids)
<1>1. outbox \in Seq([key: Keys, op: Ops])
  BY DEF TypeOK
<1>2. Ids = 1..Len(outbox) /\ Len(outbox) \in Nat
  BY <1>1 DEF Ids
<1>3. IsFiniteSet(1..Len(outbox))
  BY <1>2, FS_Interval
<1>4. \A i \in 1..Len(outbox) : outbox[i] \in [key: Keys, op: Ops]
  BY <1>1, ElementOfSeq
<1> QED  BY <1>2, <1>3, <1>4 DEF KeyOf, OpOf

-----------------------------------------------------------------------------
(* Types.                                                                  *)

LEMMA InitTyped == Init => TypeOK
BY SyncAssumption DEF Init, TypeOK, Ids, MirrorRows

\* One more trouble, within the bound.
LEMMA SpendTyped ==
    ASSUME TypeOK, NEW t \in Troubles, Spend(t)
    PROVE  troubles' \in 0..MaxTroubles /\ seen' \subseteq Troubles
BY SyncAssumption DEF TypeOK, Spend

LEMMA WrittenTyped ==
    ASSUME TypeOK, NEW i \in Ids, NEW row \in MirrorRows
    PROVE  Written(i, row) \in MirrorRows
BY IdsAreNumbers DEF Written, MirrorRows

LEMMA EffectTyped ==
    ASSUME TypeOK, NEW s \in Syncers, NEW i \in Ids, TakesEffect(s, i)
    PROVE  mirror' \in [Keys -> MirrorRows] /\ applied' \subseteq Ids /\ unfenced' \subseteq Keys
<1>1. KeyOf(i) \in Keys /\ mirror \in [Keys -> MirrorRows] /\ mirror[KeyOf(i)] \in MirrorRows
  BY IdsAreNumbers DEF TypeOK
<1>2. Written(i, mirror[KeyOf(i)]) \in MirrorRows
  BY <1>1, WrittenTyped
<1>3. mirror' = [mirror EXCEPT ![KeyOf(i)] = Written(i, mirror[KeyOf(i)])]
  BY DEF TakesEffect
<1>4. mirror' \in [Keys -> MirrorRows]
  BY <1>1, <1>2, <1>3
<1> QED  BY <1>1, <1>4 DEF TakesEffect, TypeOK

LEMMA AppendTyped ==
    ASSUME TypeOK, NEW k \in Keys, NEW op \in Ops, Append1(k, op)
    PROVE  TypeOK'
<1>1. /\ outbox' \in Seq([key: Keys, op: Ops])
      /\ Ids \subseteq Ids'
  BY AppendFacts
<1> QED
  BY <1>1 DEF Append1, TypeOK, mirrorVars, leaseVars, batchVars, troubleVars

\* Steps of the lease and of the pool.
LEMMA LeadTyped ==
    ASSUME TypeOK, Lapse \/ \E s \in Syncers : Lead(s)
    PROVE  TypeOK'
<1> USE DEF outboxVars, mirrorVars, leaseVars, batchVars, troubleVars
<1>1. CASE Lapse
  <2>1. troubles' \in 0..MaxTroubles /\ seen' \subseteq Troubles
    BY <1>1, SpendTyped DEF Lapse, Troubles, TypeOK
  <2> QED  BY <1>1, <2>1 DEF Lapse, TypeOK, Ids
<1>2. CASE \E s \in Syncers : Lead(s)
  <2> PICK s \in Syncers : Lead(s)  BY <1>2
  <2>1. CASE Start(s)
    BY <2>1 DEF Start, Acquire, TypeOK, Ids
  <2>2. CASE Renew(s)
    BY <2>2 DEF Renew, TypeOK, Ids
  <2>3. CASE RenewFails(s)
    <3>1. troubles' \in 0..MaxTroubles /\ seen' \subseteq Troubles
      BY <2>3, SpendTyped DEF RenewFails, Troubles
    <3> QED  BY <2>3, <3>1 DEF RenewFails, TypeOK, Ids
  <2>4. CASE Reacquire(s)
    BY <2>4 DEF Reacquire, Acquire, TypeOK, Ids
  <2>5. CASE Stop(s)
    <3>1. troubles' \in 0..MaxTroubles /\ seen' \subseteq Troubles
      BY <2>5, SpendTyped DEF Stop, Troubles
    <3> QED  BY <2>5, <3>1 DEF Stop, Drop, TypeOK, Ids
  <2>6. CASE ClosePool(s)
    <3>1. troubles' \in 0..MaxTroubles /\ seen' \subseteq Troubles
      BY <2>6, SpendTyped DEF ClosePool, Troubles, TypeOK
    <3> QED  BY <2>6, <3>1 DEF ClosePool, TypeOK, Ids
  <2>7. CASE Connect(s)
    BY <2>7 DEF Connect, TypeOK, Ids
  <2> QED
    BY <2>1, <2>2, <2>3, <2>4, <2>5, <2>6, <2>7 DEF Lead
<1> QED  BY <1>1, <1>2

LEMMA ReadTyped ==
    ASSUME TypeOK, NEW s \in Syncers, ReadBatch(s)
    PROVE  TypeOK'
<1>1. Batch \subseteq Ids /\ Winners(Batch) \subseteq Ids
  BY DEF Batch, Winners, Pending
<1> QED
  BY <1>1 DEF ReadBatch, TypeOK, Ids, outboxVars, mirrorVars, leaseVars, batchVars, troubleVars

LEMMA LettersTyped ==
    ASSUME TypeOK, NEW ids \in SUBSET Ids, NEW written \in SUBSET ids, Letters(ids, written)
    PROVE  dlq' \subseteq Ids /\ troubles' \in 0..MaxTroubles /\ seen' \subseteq Troubles
<1>1. troubles' \in 0..MaxTroubles /\ seen' \subseteq Troubles
  BY SpendTyped DEF Letters, Troubles, TypeOK, troubleVars
<1> QED  BY <1>1 DEF Letters, TypeOK

LEMMA SyncTyped ==
    ASSUME TypeOK, NEW s \in Syncers, SyncStep(s)
    PROVE  TypeOK'
<1> USE DEF outboxVars, mirrorVars, leaseVars, batchVars, troubleVars
<1>0. todo[s] \subseteq Ids /\ failed[s] \subseteq Ids /\ done[s] \subseteq Ids
      /\ Unknown(s) \subseteq todo[s]
  BY DEF TypeOK, Unknown
<1>1. CASE RouteUnknown(s)
  <2> PICK written \in SUBSET Unknown(s) :
        /\ Letters(Unknown(s), written)
        /\ IF written = Unknown(s)
           THEN /\ done' = [done EXCEPT ![s] = @ \cup Unknown(s)]
                /\ UNCHANGED failed
           ELSE /\ failed' = [failed EXCEPT ![s] = @ \cup Unknown(s)]
                /\ UNCHANGED done
    BY <1>1 DEF RouteUnknown
  <2>1. dlq' \subseteq Ids /\ troubles' \in 0..MaxTroubles /\ seen' \subseteq Troubles
    BY <1>0, LettersTyped
  <2>2. done' \in [Syncers -> SUBSET Ids] /\ failed' \in [Syncers -> SUBSET Ids]
    BY <1>0 DEF TypeOK
  <2> QED  BY <1>0, <1>1, <2>1, <2>2 DEF RouteUnknown, TypeOK, Ids
<1>2. CASE \E i \in todo[s] : Dispatch(s, i)
  <2> PICK i \in todo[s] : Dispatch(s, i)  BY <1>2
  <2>1. mirror' \in [Keys -> MirrorRows] /\ applied' \subseteq Ids /\ unfenced' \subseteq Keys
    BY <1>0, EffectTyped DEF Dispatch
  <2> QED  BY <1>0, <2>1 DEF Dispatch, TypeOK, Ids
<1>3. CASE \E i \in todo[s] : DispatchFails(s, i)
  <2> PICK i \in todo[s] : DispatchFails(s, i)  BY <1>3
  <2>1. mirror' \in [Keys -> MirrorRows] /\ applied' \subseteq Ids /\ unfenced' \subseteq Keys
    BY <1>0, EffectTyped DEF DispatchFails, TypeOK
  <2>2. troubles' \in 0..MaxTroubles /\ seen' \subseteq Troubles
    BY SpendTyped DEF DispatchFails, Troubles, TypeOK
  <2> QED  BY <1>0, <2>1, <2>2 DEF DispatchFails, TypeOK, Ids
<1>4. CASE RouteFailed(s)
  <2> PICK written \in SUBSET failed[s] :
        /\ Letters(failed[s], written)
        /\ done' = IF written = failed[s]
                   THEN [done EXCEPT ![s] = @ \cup failed[s]] ELSE done
    BY <1>4 DEF RouteFailed
  <2>1. dlq' \subseteq Ids /\ troubles' \in 0..MaxTroubles /\ seen' \subseteq Troubles
    BY <1>0, LettersTyped
  <2>2. done' \in [Syncers -> SUBSET Ids]
    BY <1>0 DEF TypeOK
  <2> QED  BY <1>0, <1>4, <2>1, <2>2 DEF RouteFailed, TypeOK, Ids
<1>5. CASE Mark(s)
  <2>1. processed' \subseteq Ids
    BY <1>0, <1>5 DEF Mark, TypeOK
  <2>2. troubles' \in 0..MaxTroubles /\ seen' \subseteq Troubles
    BY <1>5, SpendTyped DEF Mark, Troubles, TypeOK
  <2> QED  BY <1>5, <2>1, <2>2 DEF Mark, TypeOK, Ids
<1>6. CASE ProbeFails(s)
  <2>1. troubles' \in 0..MaxTroubles /\ seen' \subseteq Troubles
    BY <1>6, SpendTyped DEF ProbeFails, Troubles, TypeOK
  <2> QED  BY <1>0, <1>6, <2>1 DEF ProbeFails, TypeOK, Ids
<1> QED  BY <1>1, <1>2, <1>3, <1>4, <1>5, <1>6 DEF SyncStep

LEMMA StutterTyped == ASSUME TypeOK, UNCHANGED vars PROVE TypeOK'
BY DEF TypeOK, Ids, vars, outboxVars, mirrorVars, leaseVars, batchVars, troubleVars

LEMMA NextTyped == ASSUME TypeOK, [Next]_vars PROVE TypeOK'
<1>1. CASE Write
  BY <1>1, WriteAppends, AppendTyped
<1>2. CASE Lapse
  BY <1>2, LeadTyped
<1>3. CASE \E s \in Syncers : Lead(s)
  BY <1>3, LeadTyped
<1>4. CASE \E s \in Syncers : ReadBatch(s)
  BY <1>4, ReadTyped
<1>5. CASE \E s \in Syncers : SyncStep(s)
  BY <1>5, SyncTyped
<1>6. CASE UNCHANGED vars
  BY <1>6, StutterTyped
<1> QED  BY <1>1, <1>2, <1>3, <1>4, <1>5, <1>6 DEF Next

\* Every variable stays in its range: in particular an id that is processed, a
\* letter or part of a batch is the id of a row, and a mirror row that does not
\* exist is not tombstoned.
THEOREM TypesHold == Spec => []TypeOK
<1>1. Init => TypeOK
  BY InitTyped
<1>2. TypeOK /\ [Next]_vars => TypeOK'
  BY NextTyped
<1> QED  BY <1>1, <1>2, PTL DEF Spec

-----------------------------------------------------------------------------
(* The causes of dead letters.                                             *)

LEMMA SpendSeen == ASSUME NEW t, Spend(t) PROVE seen' = seen \cup {t}
BY DEF Spend

LEMMA ShakenStays == ASSUME seen \subseteq seen', Shaken PROVE Shaken'
BY DEF Shaken

LEMMA InitCauses == Init => Causes
BY DEF Init, Causes, Steady, Up, FailuresHaveCauses, DeadLettersHaveCauses

LEMMA AppendCauses ==
    ASSUME TypeOK, Causes, NEW k \in Keys, NEW op \in Ops, Append1(k, op)
    PROVE  Causes'
<1>1. \A i \in Ids : OpOf(i)' = OpOf(i) /\ Refused(i)' = Refused(i)
  BY AppendFacts DEF Refused
<1>2. Shaken' = Shaken
  BY DEF Append1, Shaken, troubleVars
<1>3. Steady'
  BY <1>2 DEF Causes, Steady, Up, Append1, leaseVars
<1>4. FailuresHaveCauses'
  BY <1>1, <1>2 DEF Causes, FailuresHaveCauses, Append1, batchVars, TypeOK
<1>5. DeadLettersHaveCauses'
  BY <1>1, <1>2 DEF Causes, DeadLettersHaveCauses, Append1, TypeOK
<1> QED  BY <1>3, <1>4, <1>5 DEF Causes

\* A step that leaves rows and letters alone and fails no row has to keep the
\* instances steady.
LEMMA SteadyIsEnough ==
    ASSUME Causes, UNCHANGED <<outbox, dlq>>, seen \subseteq seen', Steady',
           \A s \in Syncers : failed'[s] \subseteq failed[s]
    PROVE  Causes'
<1>1. Shaken => Shaken'
  BY ShakenStays
<1> QED
  BY <1>1 DEF Causes, FailuresHaveCauses, DeadLettersHaveCauses, Refused, OpOf, KeyOf

LEMMA LeadCauses ==
    ASSUME TypeOK, Causes, Lapse \/ \E s \in Syncers : Lead(s)
    PROVE  Causes'
<1> USE DEF outboxVars, mirrorVars, leaseVars, batchVars, troubleVars
<1>0. Steady
  BY DEF Causes
<1>1. CASE Lapse
  <2>1. lease \in Syncers
    BY <1>1 DEF Lapse, TypeOK
  <2>2. CASE Up(lease)
    <3>1. seen' = seen \cup {"lapse"}
      BY <1>1, <2>2, SpendSeen DEF Lapse
    <3>2. Shaken'
      BY <3>1 DEF Shaken
    <3> QED
      BY <1>1, <3>1, <3>2, SteadyIsEnough DEF Lapse, Steady
  <2>3. CASE ~Up(lease)
    <3>1. Shaken' = Shaken /\ seen' = seen
      BY <1>1, <2>3 DEF Lapse, Shaken
    <3>2. Steady'
      BY <1>0, <1>1, <2>3, <3>1 DEF Lapse, Steady, Up
    <3> QED  BY <1>1, <3>1, <3>2, SteadyIsEnough DEF Lapse
  <2> QED  BY <2>2, <2>3
<1>2. CASE \E s \in Syncers : Lead(s)
  <2> PICK s \in Syncers : Lead(s)  BY <1>2
  <2>1. CASE Start(s)
    <3>1. Shaken' = Shaken /\ seen' = seen
      BY <2>1 DEF Start, Shaken
    <3>2. Steady'
      BY <1>0, <2>1, <3>1, SyncAssumption DEF Start, Acquire, Steady, Up, TypeOK
    <3> QED  BY <2>1, <3>1, <3>2, SteadyIsEnough DEF Start
  <2>2. CASE Renew(s)
    <3>1. Shaken' = Shaken /\ seen' = seen
      BY <2>2 DEF Renew, Shaken
    <3>2. Steady'
      BY <1>0, <2>2, <3>1 DEF Renew, Steady, Up, TypeOK
    <3> QED  BY <2>2, <3>1, <3>2, SteadyIsEnough DEF Renew
  <2>3. CASE RenewFails(s)
    <3>1. seen' = seen \cup {"outage"}
      BY <2>3, SpendSeen DEF RenewFails
    <3>2. Shaken'
      BY <3>1 DEF Shaken
    <3> QED  BY <2>3, <3>1, <3>2, SteadyIsEnough DEF RenewFails, Steady
  <2>4. CASE Reacquire(s)
    <3>1. Shaken' = Shaken /\ seen' = seen
      BY <2>4 DEF Reacquire, Shaken
    <3>2. Shaken
      BY <1>0, <2>4 DEF Reacquire, Steady
    <3> QED  BY <2>4, <3>1, <3>2, SteadyIsEnough DEF Reacquire, Steady
  <2>5. CASE Stop(s)
    <3>1. seen \subseteq seen'
      BY <2>5, SpendSeen DEF Stop
    <3>2. Shaken => Shaken'
      BY <3>1, ShakenStays
    <3>3. Steady'
      BY <1>0, <2>5, <3>2, SyncAssumption DEF Stop, Steady, Up, TypeOK
    <3>4. \A t \in Syncers : failed'[t] \subseteq failed[t]
      BY <2>5 DEF Stop, Drop, TypeOK
    <3> QED  BY <2>5, <3>1, <3>3, <3>4, SteadyIsEnough DEF Stop
  <2>6. CASE ClosePool(s)
    <3>1. CASE valid[s]
      <4>1. seen' = seen \cup {"idle"}
        BY <2>6, <3>1, SpendSeen DEF ClosePool
      <4>2. Shaken'
        BY <4>1 DEF Shaken
      <4> QED  BY <2>6, <4>1, <4>2, SteadyIsEnough DEF ClosePool, Steady
    <3>2. CASE ~valid[s]
      <4>1. Shaken' = Shaken /\ seen' = seen
        BY <2>6, <3>2 DEF ClosePool, Shaken
      <4>2. Steady'
        BY <1>0, <2>6, <3>2, <4>1 DEF ClosePool, Steady, Up, TypeOK
      <4> QED  BY <2>6, <4>1, <4>2, SteadyIsEnough DEF ClosePool
    <3> QED  BY <3>1, <3>2
  <2>7. CASE Connect(s)
    <3>1. Shaken' = Shaken /\ seen' = seen
      BY <2>7 DEF Connect, Shaken
    <3>2. Steady'
      BY <1>0, <2>7, <3>1 DEF Connect, Steady, Up, TypeOK
    <3> QED  BY <2>7, <3>1, <3>2, SteadyIsEnough DEF Connect
  <2> QED
    BY <2>1, <2>2, <2>3, <2>4, <2>5, <2>6, <2>7 DEF Lead
<1> QED  BY <1>1, <1>2

LEMMA ReadCauses ==
    ASSUME TypeOK, Causes, NEW s \in Syncers, ReadBatch(s)
    PROVE  Causes'
<1> USE DEF outboxVars, mirrorVars, leaseVars, batchVars, troubleVars
<1>1. Shaken' = Shaken /\ seen' = seen
  BY DEF ReadBatch, Shaken
<1>2. Steady'
  BY <1>1 DEF Causes, ReadBatch, Steady, Up, TypeOK
<1> QED  BY <1>1, <1>2, SteadyIsEnough DEF ReadBatch

LEMMA SyncCauses ==
    ASSUME TypeOK, Causes, NEW s \in Syncers, SyncStep(s)
    PROVE  Causes'
<1> USE DEF outboxVars, mirrorVars, leaseVars, batchVars, troubleVars
<1>1. CASE RouteUnknown(s)
  <2> PICK written \in SUBSET Unknown(s) :
        /\ Letters(Unknown(s), written)
        /\ IF written = Unknown(s)
           THEN /\ done' = [done EXCEPT ![s] = @ \cup Unknown(s)]
                /\ UNCHANGED failed
           ELSE /\ failed' = [failed EXCEPT ![s] = @ \cup Unknown(s)]
                /\ UNCHANGED done
    BY <1>1 DEF RouteUnknown
  <2>1. seen \subseteq seen' /\ dlq' \subseteq dlq \cup Unknown(s)
    BY SpendSeen DEF Letters
  <2>2. Shaken => Shaken'
    BY <2>1, ShakenStays
  <2>3. \A i \in Unknown(s) : OpOf(i) = "restore"
    BY DEF Unknown
  <2>4. \A i : OpOf(i)' = OpOf(i) /\ Refused(i)' = Refused(i)
    BY <1>1 DEF RouteUnknown, Refused, OpOf, KeyOf
  <2>5. Steady'
    BY <1>1, <2>2 DEF Causes, RouteUnknown, Steady, Up
  <2>6. FailuresHaveCauses'
    BY <2>2, <2>3, <2>4 DEF Causes, FailuresHaveCauses, TypeOK
  <2>7. DeadLettersHaveCauses'
    BY <2>1, <2>2, <2>3, <2>4 DEF Causes, DeadLettersHaveCauses
  <2> QED  BY <2>5, <2>6, <2>7 DEF Causes
<1>2. CASE \E i \in todo[s] : Dispatch(s, i)
  <2>1. Shaken' = Shaken /\ seen' = seen
    BY <1>2 DEF Dispatch, Shaken
  <2>2. Steady'
    BY <1>2, <2>1 DEF Causes, Dispatch, Steady, Up
  <2> QED  BY <1>2, <2>1, <2>2, SteadyIsEnough DEF Dispatch
<1>3. CASE \E i \in todo[s] : DispatchFails(s, i)
  <2> PICK i \in todo[s] : DispatchFails(s, i)  BY <1>3
  <2>1. seen \subseteq seen'
    BY SpendSeen DEF DispatchFails
  <2>2. Shaken => Shaken'
    BY <2>1, ShakenStays
  <2>3. \A j : OpOf(j)' = OpOf(j) /\ Refused(j)' = Refused(j)
    BY DEF DispatchFails, Refused, OpOf, KeyOf
  <2>4. Refused(i) \/ Shaken'
    <3>1. CASE pool[s]
      <4>1. Refused(i) \/ seen' = seen \cup {"statement"}
        BY <3>1, SpendSeen DEF DispatchFails
      <4> QED  BY <4>1 DEF Shaken
    <3>2. CASE ~pool[s]
      BY <2>2, <3>2 DEF Causes, Steady, Up, DispatchFails, Due
    <3> QED  BY <3>1, <3>2
  <2>5. Steady'
    BY <2>2 DEF Causes, DispatchFails, Steady, Up
  <2>6. FailuresHaveCauses'
    BY <2>2, <2>3, <2>4 DEF Causes, DispatchFails, FailuresHaveCauses, TypeOK
  <2>7. DeadLettersHaveCauses'
    BY <2>2, <2>3 DEF Causes, DispatchFails, DeadLettersHaveCauses
  <2> QED  BY <2>5, <2>6, <2>7 DEF Causes
<1>4. CASE RouteFailed(s)
  <2> PICK written \in SUBSET failed[s] : Letters(failed[s], written)
    BY <1>4 DEF RouteFailed
  <2>1. seen \subseteq seen' /\ dlq' \subseteq dlq \cup failed[s]
    BY SpendSeen DEF Letters
  <2>2. Shaken => Shaken'
    BY <2>1, ShakenStays
  <2>3. \A i : OpOf(i)' = OpOf(i) /\ Refused(i)' = Refused(i)
    BY <1>4 DEF RouteFailed, Refused, OpOf, KeyOf
  <2>4. Steady'
    BY <1>4, <2>2 DEF Causes, RouteFailed, Steady, Up
  <2>5. FailuresHaveCauses'
    BY <1>4, <2>2, <2>3 DEF Causes, FailuresHaveCauses, RouteFailed, TypeOK
  <2>6. DeadLettersHaveCauses'
    BY <2>1, <2>2, <2>3 DEF Causes, DeadLettersHaveCauses, FailuresHaveCauses
  <2> QED  BY <2>4, <2>5, <2>6 DEF Causes
<1>5. CASE Mark(s)
  <2>1. seen \subseteq seen'
    BY <1>5, SpendSeen DEF Mark
  <2>2. Shaken => Shaken'
    BY <2>1, ShakenStays
  <2>3. Steady'
    BY <1>5, <2>2 DEF Causes, Mark, Steady, Up, TypeOK
  <2> QED  BY <1>5, <2>1, <2>3, SteadyIsEnough DEF Mark
<1>6. CASE ProbeFails(s)
  <2>1. seen \subseteq seen'
    BY <1>6, SpendSeen DEF ProbeFails
  <2>2. Shaken => Shaken'
    BY <2>1, ShakenStays
  <2>3. Shaken'
    <3>1. CASE pool[s]
      <4>1. seen' = seen \cup {"statement"}
        BY <1>6, <3>1, SpendSeen DEF ProbeFails
      <4> QED  BY <4>1 DEF Shaken
    <3>2. CASE ~pool[s]
      BY <1>6, <2>2, <3>2 DEF Causes, Steady, Up, ProbeFails
    <3> QED  BY <3>1, <3>2
  <2> QED
    BY <2>3 DEF Causes, Steady, FailuresHaveCauses, DeadLettersHaveCauses
<1> QED  BY <1>1, <1>2, <1>3, <1>4, <1>5, <1>6 DEF SyncStep

LEMMA NextCauses == ASSUME TypeOK, Causes, [Next]_vars PROVE Causes'
<1>1. CASE Write
  BY <1>1, WriteAppends, AppendCauses
<1>2. CASE Lapse
  BY <1>2, LeadCauses
<1>3. CASE \E s \in Syncers : Lead(s)
  BY <1>3, LeadCauses
<1>4. CASE \E s \in Syncers : ReadBatch(s)
  BY <1>4, ReadCauses
<1>5. CASE \E s \in Syncers : SyncStep(s)
  BY <1>5, SyncCauses
<1>6. CASE UNCHANGED vars
  BY <1>6 DEF Causes, Steady, Up, FailuresHaveCauses, DeadLettersHaveCauses, Shaken, Refused, OpOf, KeyOf,
     vars, outboxVars, mirrorVars, leaseVars, batchVars, troubleVars
<1> QED  BY <1>1, <1>2, <1>3, <1>4, <1>5, <1>6 DEF Next

\* A row with a handler that asyncpg can encode is never dead-lettered while
\* CockroachDB answers, the lease is renewed in time and the pool is left open,
\* however the instances are restarted.
THEOREM LettersHaveCauses == Spec => []DeadLettersHaveCauses
<1>1. Init => TypeOK /\ Causes
  BY InitTyped, InitCauses
<1>2. TypeOK /\ Causes /\ [Next]_vars => TypeOK' /\ Causes'
  BY NextTyped, NextCauses
<1>3. Causes => DeadLettersHaveCauses
  BY DEF Causes
<1> QED  BY <1>1, <1>2, <1>3, PTL DEF Spec

-----------------------------------------------------------------------------
(* No change is dropped.                                                   *)

\* The ids, keys and ages of old rows outlast a new one, which is the newest.
LEMMA AppendOrder ==
    ASSUME TypeOK, NEW k \in Keys, NEW op \in Ops, Append1(k, op)
    PROVE  /\ \A i, j \in Ids : Newer(i, j)' = Newer(i, j)
           /\ \A j \in Ids : \A i \in Ids' : Newer(i, j)' => i \in Ids
           /\ \A i \in Ids : Newest(i)' => Newest(i)
<1>1. \A i, j \in Ids : Newer(i, j)' = Newer(i, j)
  BY AppendFacts DEF Newer
<1>2. \A j \in Ids : \A i \in Ids' : Newer(i, j)' => i \in Ids
  BY AppendFacts DEF Newer
<1>3. Ids \subseteq Ids'
  BY AppendFacts
<1>4. \A i \in Ids : Newest(i)' => Newest(i)
  BY <1>1, <1>3 DEF Newest
<1> QED  BY <1>1, <1>2, <1>4

LEMMA SameRows ==
    ASSUME UNCHANGED outbox
    PROVE  /\ Ids' = Ids
           /\ \A i : KeyOf(i)' = KeyOf(i) /\ OpOf(i)' = OpOf(i) /\ Newest(i)' = Newest(i)
           /\ \A i, j : Newer(i, j)' = Newer(i, j)
BY DEF Ids, KeyOf, OpOf, Newer, Newest

LEMMA InitAccounting == Init => Accounting
BY DEF Init, Accounting, OnlyBusyHold, ProcessedInOrder, BatchInOrder, DoneAccounted,
   NewestAccounted, Held

LEMMA AppendAccounting ==
    ASSUME TypeOK, Accounting, NEW k \in Keys, NEW op \in Ops, Append1(k, op)
    PROVE  Accounting'
<1> USE DEF mirrorVars, batchVars
<1>0. UNCHANGED <<processed, dlq, applied, todo, failed, done, phase>>
  BY DEF Append1
<1>1. processed \subseteq Ids /\ \A s \in Syncers : Held(s) \subseteq Ids /\ done[s] \subseteq Ids
  BY DEF TypeOK, Held
<1>2. \A s \in Syncers : Held(s)' = Held(s)
  BY <1>0 DEF Held
<1>3. OnlyBusyHold'
  BY <1>0, <1>2 DEF Accounting, OnlyBusyHold
<1>4. ProcessedInOrder'
  BY <1>0, <1>1, AppendOrder DEF Accounting, ProcessedInOrder
<1>5. BatchInOrder'
  BY <1>0, <1>1, <1>2, AppendOrder DEF Accounting, BatchInOrder
<1>6. DoneAccounted'
  BY <1>0, <1>1, AppendOrder DEF Accounting, DoneAccounted
<1>7. NewestAccounted'
  BY <1>0, <1>1, AppendOrder DEF Accounting, NewestAccounted
<1> QED  BY <1>3, <1>4, <1>5, <1>6, <1>7 DEF Accounting

\* A step that settles nothing: every batch is kept or dropped.
LEMMA BatchesKept ==
    ASSUME Accounting, UNCHANGED <<outbox, processed, dlq, applied>>,
           \A t \in Syncers :
              \/ Held(t)' = {}
              \/ /\ Held(t)' = Held(t) /\ done'[t] = done[t]
                 /\ phase'[t] # "busy" => phase[t] # "busy"
    PROVE  Accounting'
<1>1. OnlyBusyHold'
  BY DEF Accounting, OnlyBusyHold
<1>2. ProcessedInOrder'
  BY SameRows DEF Accounting, ProcessedInOrder
<1>3. BatchInOrder'
  BY SameRows DEF Accounting, BatchInOrder
<1>4. \A t \in Syncers : done'[t] = {} \/ done'[t] = done[t]
  BY DEF Held
<1>5. DoneAccounted'
  BY <1>4, SameRows DEF Accounting, DoneAccounted
<1>6. NewestAccounted'
  BY SameRows DEF Accounting, NewestAccounted
<1> QED  BY <1>1, <1>2, <1>3, <1>5, <1>6 DEF Accounting

\* A step of a batch, before it is marked: it settles only rows that were sent
\* or have a letter.
LEMMA BatchesSettle ==
    ASSUME Accounting, UNCHANGED <<outbox, processed, phase>>,
           applied \subseteq applied', dlq \subseteq dlq',
           \A t \in Syncers :
              /\ Held(t)' \subseteq Held(t)
              /\ done[t] \subseteq done'[t]
              /\ done'[t] \subseteq done[t] \cup applied' \cup dlq'
    PROVE  Accounting'
<1>1. OnlyBusyHold'
  BY DEF Accounting, OnlyBusyHold
<1>2. ProcessedInOrder'
  BY SameRows DEF Accounting, ProcessedInOrder
<1>3. BatchInOrder'
  BY SameRows DEF Accounting, BatchInOrder
<1>4. DoneAccounted'
  BY SameRows DEF Accounting, DoneAccounted
<1>5. NewestAccounted'
  BY SameRows DEF Accounting, NewestAccounted
<1> QED  BY <1>1, <1>2, <1>3, <1>4, <1>5 DEF Accounting

LEMMA LeadAccounting ==
    ASSUME TypeOK, Accounting, Lapse \/ \E s \in Syncers : Lead(s)
    PROVE  Accounting'
<1> USE DEF outboxVars, mirrorVars, leaseVars, batchVars, troubleVars
<1>1. CASE Lapse
  BY <1>1, BatchesKept DEF Lapse, Held
<1>2. CASE \E s \in Syncers : Lead(s)
  <2> PICK s \in Syncers : Lead(s)  BY <1>2
  <2>1. CASE Start(s)
    <3>1. \A t \in Syncers : Held(t)' = Held(t) /\ done'[t] = done[t]
            /\ (phase'[t] # "busy" => phase[t] # "busy")
      BY <2>1 DEF Start, Up, Held, TypeOK
    <3> QED  BY <2>1, <3>1, BatchesKept DEF Start
  <2>2. CASE Renew(s)
    BY <2>2, BatchesKept DEF Renew, Held
  <2>3. CASE RenewFails(s)
    BY <2>3, BatchesKept DEF RenewFails, Held
  <2>4. CASE Reacquire(s)
    BY <2>4, BatchesKept DEF Reacquire, Held
  <2>5. CASE Stop(s)
    <3>1. Held(s)' = {}
      BY <2>5 DEF Stop, Drop, Held, TypeOK
    <3>2. \A t \in Syncers \ {s} : Held(t)' = Held(t) /\ done'[t] = done[t] /\ phase'[t] = phase[t]
      BY <2>5 DEF Stop, Drop, Held, TypeOK
    <3> QED  BY <2>5, <3>1, <3>2, BatchesKept DEF Stop
  <2>6. CASE ClosePool(s)
    BY <2>6, BatchesKept DEF ClosePool, Held
  <2>7. CASE Connect(s)
    BY <2>7, BatchesKept DEF Connect, Held
  <2> QED
    BY <2>1, <2>2, <2>3, <2>4, <2>5, <2>6, <2>7 DEF Lead
<1> QED  BY <1>1, <1>2

LEMMA CardMono ==
    ASSUME NEW A, NEW B, A \subseteq B, IsFiniteSet(B), Cardinality(B) <= BatchLimit
    PROVE  Cardinality(A) <= BatchLimit
<1>1. IsFiniteSet(A) /\ Cardinality(A) <= Cardinality(B)
  BY FS_Subset
<1>2. Cardinality(A) \in Nat /\ Cardinality(B) \in Nat
  BY <1>1, FS_CardinalityType
<1> QED  BY <1>1, <1>2, SyncAssumption

\* What comes before a row of the next batch comes with it.
LEMMA WithinBelow ==
    ASSUME TypeOK, NEW i \in Ids, NEW j \in Ids, i <= j, Within(j)
    PROVE  Within(i)
<1> DEFINE Upto(n) == {x \in Pending : x <= n}
<1>1. Upto(i) \subseteq Upto(j)
  BY IdsAreNumbers DEF Pending
<1>2. IsFiniteSet(Upto(j))
  BY IdsAreNumbers, FS_Subset DEF Pending
<1>3. Cardinality(Upto(i)) <= BatchLimit
  <2>1. Cardinality(Upto(j)) <= BatchLimit
    BY DEF Within
  <2> HIDE DEF Upto
  <2> QED  BY <1>1, <1>2, <2>1, CardMono
<1> QED  BY <1>3 DEF Within

LEMMA BatchIsWithin == Batch = {i \in Pending : Within(i)}
BY DEF Batch, Within

LEMMA ReadAccounting ==
    ASSUME TypeOK, Accounting, NEW s \in Syncers, ReadBatch(s)
    PROVE  Accounting'
<1> USE DEF outboxVars, mirrorVars, leaseVars, batchVars, troubleVars
<1>0. UNCHANGED <<outbox, processed, dlq, applied, failed>>
  BY DEF ReadBatch
<1>1. failed[s] = {}
  BY DEF Accounting, OnlyBusyHold, ReadBatch, Held
<1>2. Held(s)' = Batch /\ done'[s] = Batch \ Winners(Batch)
  BY <1>0, <1>1 DEF ReadBatch, Held, Winners, TypeOK
<1>3. \A t \in Syncers \ {s} : Held(t)' = Held(t) /\ done'[t] = done[t] /\ phase'[t] = phase[t]
  BY DEF ReadBatch, Held, TypeOK
<1>4. phase'[s] = "busy"
  BY DEF ReadBatch, TypeOK
<1>5. OnlyBusyHold'
  BY <1>3, <1>4 DEF Accounting, OnlyBusyHold
<1>6. ProcessedInOrder' /\ NewestAccounted'
  BY <1>0, SameRows DEF Accounting, ProcessedInOrder, NewestAccounted
<1>7. ASSUME NEW j \in Batch, NEW i \in Ids, Newer(i, j)
      PROVE  i \in processed \cup (Batch \ Winners(Batch))
  <2>1. j \in Ids /\ Within(j) /\ i <= j
    BY <1>7, BatchIsWithin, IdsAreNumbers DEF Pending, Newer
  <2>2. Within(i)
    BY <2>1, WithinBelow
  <2>3. i \in processed \/ i \in Batch
    BY <2>2, BatchIsWithin DEF Pending
  <2> QED  BY <1>7, <2>3 DEF Winners
<1>8. BatchInOrder'
  <2>1. \A j \in Held(s)' : \A i \in Ids' : Newer(i, j)' => i \in processed' \cup done'[s]
    BY <1>0, <1>2, <1>7, SameRows
  <2>2. \A t \in Syncers \ {s} : \A j \in Held(t)' : \A i \in Ids' :
            Newer(i, j)' => i \in processed' \cup done'[t]
    BY <1>0, <1>3, SameRows DEF Accounting, BatchInOrder
  <2> QED  BY <2>1, <2>2 DEF BatchInOrder
<1>9. DoneAccounted'
  <2>1. \A i \in done'[s] : ~Newest(i)
    BY <1>2 DEF Winners, Newest, Batch, Pending
  <2>2. \A t \in Syncers \ {s} : \A i \in done'[t] : Newest(i) => i \in applied \cup dlq
    BY <1>3 DEF Accounting, DoneAccounted
  <2> QED  BY <1>0, <2>1, <2>2, SameRows DEF DoneAccounted
<1> QED  BY <1>5, <1>6, <1>8, <1>9 DEF Accounting

LEMMA SyncAccounting ==
    ASSUME TypeOK, Accounting, NEW s \in Syncers, SyncStep(s)
    PROVE  Accounting'
<1> USE DEF outboxVars, mirrorVars, leaseVars, batchVars, troubleVars
<1>1. CASE RouteUnknown(s)
  <2> PICK written \in SUBSET Unknown(s) :
        /\ Letters(Unknown(s), written)
        /\ IF written = Unknown(s)
           THEN /\ done' = [done EXCEPT ![s] = @ \cup Unknown(s)]
                /\ UNCHANGED failed
           ELSE /\ failed' = [failed EXCEPT ![s] = @ \cup Unknown(s)]
                /\ UNCHANGED done
    BY <1>1 DEF RouteUnknown
  <2>1. dlq' = dlq \cup written /\ todo' = [todo EXCEPT ![s] = @ \ Unknown(s)]
    BY <1>1 DEF RouteUnknown, Letters
  <2>2. Unknown(s) \subseteq todo[s]
    BY DEF Unknown
  <2>3. \A t \in Syncers : Held(t)' \subseteq Held(t) /\ done[t] \subseteq done'[t]
          /\ done'[t] \subseteq done[t] \cup dlq'
    BY <2>1, <2>2 DEF Held, TypeOK
  <2> QED  BY <1>1, <2>1, <2>3, BatchesSettle DEF RouteUnknown
<1>2. CASE \E i \in todo[s] : Dispatch(s, i)
  <2> PICK i \in todo[s] : Dispatch(s, i)  BY <1>2
  <2>1. applied' = applied \cup {i}
    BY DEF Dispatch, TakesEffect
  <2>2. \A t \in Syncers : Held(t)' \subseteq Held(t) /\ done[t] \subseteq done'[t]
          /\ done'[t] \subseteq done[t] \cup applied'
    BY <2>1 DEF Dispatch, Held, TypeOK
  <2> QED  BY <2>1, <2>2, BatchesSettle DEF Dispatch
<1>3. CASE \E i \in todo[s] : DispatchFails(s, i)
  <2> PICK i \in todo[s] : DispatchFails(s, i)  BY <1>3
  <2>1. applied \subseteq applied'
    BY DEF DispatchFails, TakesEffect
  <2>2. \A t \in Syncers : Held(t)' \subseteq Held(t) /\ done'[t] = done[t]
    BY DEF DispatchFails, Held, TypeOK
  <2> QED  BY <2>1, <2>2, BatchesSettle DEF DispatchFails
<1>4. CASE RouteFailed(s)
  <2> PICK written \in SUBSET failed[s] :
        /\ Letters(failed[s], written)
        /\ done' = IF written = failed[s]
                   THEN [done EXCEPT ![s] = @ \cup failed[s]] ELSE done
    BY <1>4 DEF RouteFailed
  <2>1. dlq' = dlq \cup written
    BY DEF Letters
  <2>2. \A t \in Syncers : Held(t)' \subseteq Held(t) /\ done[t] \subseteq done'[t]
          /\ done'[t] \subseteq done[t] \cup dlq'
    BY <1>4, <2>1 DEF RouteFailed, Held, TypeOK
  <2> QED  BY <1>4, <2>1, <2>2, BatchesSettle DEF RouteFailed
<1>5. CASE Mark(s)
  <2>1. UNCHANGED <<outbox, dlq, applied>> /\ processed \subseteq processed'
    BY <1>5 DEF Mark
  <2>2. Held(s)' = {} /\ processed' \subseteq processed \cup done[s]
    BY <1>5 DEF Mark, Held, TypeOK
  <2>3. \A t \in Syncers \ {s} : Held(t)' = Held(t) /\ done'[t] = done[t] /\ phase'[t] = phase[t]
    BY <1>5 DEF Mark, Held, TypeOK
  <2>4. OnlyBusyHold'
    BY <2>2, <2>3 DEF Accounting, OnlyBusyHold
  <2>5. ProcessedInOrder'
    <3>1. CASE processed' = processed
      BY <2>1, <3>1, SameRows DEF Accounting, ProcessedInOrder
    <3>2. CASE processed' = processed \cup done[s]
      BY <2>1, <3>2, SameRows DEF Accounting, ProcessedInOrder, BatchInOrder, Held
    <3> QED  BY <1>5, <3>1, <3>2 DEF Mark
  <2>6. BatchInOrder'
    BY <2>1, <2>2, <2>3, SameRows DEF Accounting, BatchInOrder
  <2>7. done'[s] = {}
    BY <2>2 DEF Held
  <2>8. DoneAccounted'
    BY <2>1, <2>3, <2>7, SameRows DEF Accounting, DoneAccounted
  <2>9. NewestAccounted'
    BY <2>1, <2>2, SameRows DEF Accounting, NewestAccounted, DoneAccounted
  <2> QED  BY <2>4, <2>5, <2>6, <2>8, <2>9 DEF Accounting
<1>6. CASE ProbeFails(s)
  <2>1. dlq' = dlq \cup todo[s]
    BY <1>6 DEF ProbeFails
  <2>2. \A t \in Syncers : Held(t)' \subseteq Held(t) /\ done[t] \subseteq done'[t]
          /\ done'[t] \subseteq done[t] \cup dlq'
    BY <1>6, <2>1 DEF ProbeFails, Held, TypeOK
  <2> QED  BY <1>6, <2>1, <2>2, BatchesSettle DEF ProbeFails
<1> QED  BY <1>1, <1>2, <1>3, <1>4, <1>5, <1>6 DEF SyncStep

LEMMA NextAccounting == ASSUME TypeOK, Accounting, [Next]_vars PROVE Accounting'
<1>1. CASE Write
  BY <1>1, WriteAppends, AppendAccounting
<1>2. CASE Lapse
  BY <1>2, LeadAccounting
<1>3. CASE \E s \in Syncers : Lead(s)
  BY <1>3, LeadAccounting
<1>4. CASE \E s \in Syncers : ReadBatch(s)
  BY <1>4, ReadAccounting
<1>5. CASE \E s \in Syncers : SyncStep(s)
  BY <1>5, SyncAccounting
<1>6. CASE UNCHANGED vars
  BY <1>6, BatchesKept DEF Held, vars, outboxVars, mirrorVars, batchVars
<1> QED  BY <1>1, <1>2, <1>3, <1>4, <1>5, <1>6 DEF Next

\* When the newest change of a row is marked processed, it was sent to
\* CockroachDB or has a letter: two instances that work on overlapping batches,
\* restarts and unwritten letters drop none.
THEOREM NoneDropped == Spec => []NewestAccounted
<1>1. Init => TypeOK /\ Accounting
  BY InitTyped, InitAccounting
<1>2. TypeOK /\ Accounting /\ [Next]_vars => TypeOK' /\ Accounting'
  BY NextTyped, NextAccounting
<1>3. Accounting => NewestAccounted
  BY DEF Accounting
<1> QED  BY <1>1, <1>2, <1>3, PTL DEF Spec

-----------------------------------------------------------------------------
(* The mirror keeps up.                                                    *)

LEMMA InitMirroring == Init => Mirroring
BY DEF Init, Mirroring, SentWithin, OnePerKey, TermsPast, Abreast, LatestReflected

LEMMA AppendWithin ==
    ASSUME TypeOK, NEW k \in Keys, NEW op \in Ops, Append1(k, op), NEW i \in Ids
    PROVE  Within(i)' = Within(i) /\ (i \in Pending' => i \in Pending)
<1>1. processed' = processed /\ processed \subseteq Ids
  BY DEF Append1, TypeOK
<1>2. Pending' = Pending \cup {NewId}
  BY <1>1, AppendFacts DEF Pending
<1>3. ~(NewId <= i)
  BY AppendFacts
<1>4. {j \in Pending' : j <= i} = {j \in Pending : j <= i}
  BY <1>2, <1>3
<1> QED  BY <1>1, <1>4 DEF Within, Pending

LEMMA AppendMirroring ==
    ASSUME TypeOK, Mirroring, NEW k \in Keys, NEW op \in Ops, Append1(k, op)
    PROVE  Mirroring'
<1> USE DEF mirrorVars, batchVars, leaseVars
<1>0. UNCHANGED <<mirror, applied, unfenced, lease, term, readIn, todo>>
  BY DEF Append1
<1>1. applied \subseteq Ids /\ \A s \in Syncers : todo[s] \subseteq Ids
  BY DEF TypeOK
<1>2. \A i \in Ids : KeyOf(i)' = KeyOf(i) /\ OpOf(i)' = OpOf(i)
  BY AppendFacts
<1>3. SentWithin'
  BY <1>0, <1>1, AppendWithin DEF Mirroring, SentWithin
<1>4. OnePerKey'
  BY <1>0, <1>1, <1>2 DEF Mirroring, OnePerKey
<1>5. TermsPast'
  BY <1>0 DEF Mirroring, TermsPast
<1>6. Abreast'
  BY <1>0, <1>1, <1>2 DEF Mirroring, Abreast, Fenced
<1>7. \A i \in Ids : Reflects(i)' = Reflects(i)
  BY <1>0, <1>2 DEF Reflects
<1>8. LatestReflected'
  BY <1>0, <1>1, <1>2, <1>7 DEF Mirroring, LatestReflected
<1> QED  BY <1>3, <1>4, <1>5, <1>6, <1>8 DEF Mirroring

\* The next batch moves up when rows are processed.
LEMMA WithinStays ==
    ASSUME TypeOK, UNCHANGED outbox, processed \subseteq processed', NEW i \in Ids, Within(i)
    PROVE  Within(i)'
<1> DEFINE A == {j \in Pending' : j <= i}
           B == {j \in Pending : j <= i}
<1>1. A \subseteq B
  BY SameRows DEF Pending
<1>2. IsFiniteSet(B)
  BY IdsAreNumbers, FS_Subset DEF Pending
<1>3. Cardinality(A) <= BatchLimit
  <2>1. Cardinality(B) <= BatchLimit
    BY DEF Within
  <2> HIDE DEF A, B
  <2> QED  BY <1>1, <1>2, <2>1, CardMono
<1> QED  BY <1>3 DEF Within

LEMMA SentStaysWithin ==
    ASSUME TypeOK, SentWithin, UNCHANGED outbox, processed \subseteq processed',
           \A t \in Syncers : todo'[t] \subseteq todo[t],
           \A i \in applied' : i \in applied \/ \E t \in Syncers : i \in todo[t]
    PROVE  SentWithin'
<1>1. \A i \in Ids : Within(i) => Within(i)'
  BY WithinStays
<1>2. \A i \in Pending' : i \in Pending /\ i \in Ids
  BY SameRows DEF Pending
<1> QED  BY <1>1, <1>2 DEF SentWithin

\* A step that sends nothing and takes no batch.
LEMMA NothingSent ==
    ASSUME TypeOK, Mirroring, UNCHANGED <<outbox, mirrorVars, readIn>>,
           processed \subseteq processed', term' \in Nat, term <= term',
           \A t \in Syncers : todo'[t] \subseteq todo[t] /\ (Fenced(t)' => Fenced(t))
    PROVE  Mirroring'
<1> USE DEF mirrorVars
<1>1. SentWithin'
  BY SentStaysWithin DEF Mirroring
<1>2. OnePerKey'
  BY SameRows DEF Mirroring, OnePerKey
<1>3. TermsPast'
  BY DEF Mirroring, TermsPast, TypeOK
<1>4. Abreast'
  BY SameRows DEF Mirroring, Abreast
<1>5. \A i : Reflects(i)' = Reflects(i)
  BY SameRows DEF Reflects
<1>6. LatestReflected'
  BY <1>5, SameRows DEF Mirroring, LatestReflected
<1> QED  BY <1>1, <1>2, <1>3, <1>4, <1>6 DEF Mirroring

\* Who acquires the lease has no batch of this term.
LEMMA AcquireMirroring ==
    ASSUME TypeOK, Mirroring, NEW s \in Syncers, Acquire(s),
           UNCHANGED <<outboxVars, mirrorVars, batchVars>>
    PROVE  Mirroring'
<1> USE DEF outboxVars, batchVars
<1>1. term' \in Nat /\ term < term'
  BY DEF Acquire, TypeOK
<1>2. \A t \in Syncers : ~Fenced(t)'
  BY <1>1 DEF Mirroring, TermsPast, Fenced, TypeOK
<1>3. term <= term'
  BY <1>1 DEF TypeOK
<1> QED  BY <1>1, <1>2, <1>3, NothingSent

LEMMA LeadMirroring ==
    ASSUME TypeOK, Mirroring, Lapse \/ \E s \in Syncers : Lead(s)
    PROVE  Mirroring'
<1> USE DEF outboxVars, leaseVars, batchVars, troubleVars
<1>0. term \in Nat /\ term <= term /\ NoSyncer \notin Syncers
  BY SyncAssumption DEF TypeOK
<1>1. CASE Lapse
  BY <1>0, <1>1, NothingSent DEF Lapse, Fenced
<1>2. CASE \E s \in Syncers : Lead(s)
  <2> PICK s \in Syncers : Lead(s)  BY <1>2
  <2>1. CASE Start(s)
    BY <2>1, AcquireMirroring DEF Start
  <2>2. CASE Renew(s)
    BY <1>0, <2>2, NothingSent DEF Renew, Fenced
  <2>3. CASE RenewFails(s)
    BY <1>0, <2>3, NothingSent DEF RenewFails, Fenced
  <2>4. CASE Reacquire(s)
    BY <2>4, AcquireMirroring DEF Reacquire
  <2>5. CASE Stop(s)
    <3>1. \A t \in Syncers : todo'[t] \subseteq todo[t]
      BY <2>5 DEF Stop, Drop, TypeOK
    <3>2. \A t \in Syncers : Fenced(t)' => Fenced(t)
      BY <1>0, <2>5 DEF Stop, Fenced
    <3> QED  BY <1>0, <2>5, <3>1, <3>2, NothingSent DEF Stop
  <2>6. CASE ClosePool(s)
    BY <1>0, <2>6, NothingSent DEF ClosePool, Fenced
  <2>7. CASE Connect(s)
    BY <1>0, <2>7, NothingSent DEF Connect, Fenced
  <2> QED
    BY <2>1, <2>2, <2>3, <2>4, <2>5, <2>6, <2>7 DEF Lead
<1> QED  BY <1>1, <1>2

\* Nothing newer than a row of the next batch was sent: processed rows of its
\* key are older, and a pending one that was sent is in the batch too.
LEMMA WinnersAreAbreast ==
    ASSUME TypeOK, ProcessedInOrder, SentWithin,
           NEW i \in Winners(Batch), NEW j \in applied, KeyOf(i) = KeyOf(j)
    PROVE  j <= i
<1>1. i \in Pending /\ i \in Ids /\ j \in Ids /\ i \in Nat /\ j \in Nat
  BY IdsAreNumbers DEF Winners, Batch, Pending, TypeOK
<1> SUFFICES ASSUME i < j PROVE FALSE
  BY <1>1
<1>2. Newer(i, j)
  BY DEF Newer
<1>3. j \notin processed
  BY <1>1, <1>2 DEF ProcessedInOrder, Pending
<1>4. j \in Batch
  BY <1>1, <1>3, BatchIsWithin DEF SentWithin, Pending
<1> QED  BY <1>2, <1>4 DEF Winners

LEMMA ReadMirroring ==
    ASSUME TypeOK, ProcessedInOrder, Mirroring, NEW s \in Syncers, ReadBatch(s)
    PROVE  Mirroring'
<1> USE DEF outboxVars, mirrorVars, leaseVars, troubleVars
<1>0. UNCHANGED <<outbox, processed, mirror, applied, unfenced, lease, term>>
  BY DEF ReadBatch
<1>1. /\ todo'[s] = Winners(Batch) /\ readIn'[s] = term
      /\ \A t \in Syncers \ {s} : todo'[t] = todo[t] /\ readIn'[t] = readIn[t]
  BY DEF ReadBatch, TypeOK
<1>2. Winners(Batch) \subseteq Batch /\ Batch \subseteq Ids
  BY DEF Winners, Batch, Pending
<1>3. SentWithin'
  <2>1. Pending' = Pending /\ \A i : Within(i)' = Within(i)
    BY <1>0, SameRows DEF Pending, Within
  <2>2. \A i \in todo'[s] : Within(i)
    BY <1>1, <1>2, BatchIsWithin
  <2> QED  BY <1>0, <1>1, <2>1, <2>2 DEF Mirroring, SentWithin
<1>4. OnePerKey'
  <2>1. \A i, j \in Winners(Batch) : KeyOf(i) = KeyOf(j) => i = j
    BY <1>2, IdsAreNumbers DEF Winners, Newer
  <2> QED  BY <1>0, <1>1, <2>1, SameRows DEF Mirroring, OnePerKey
<1>5. TermsPast'
  <2>1. readIn'[s] <= term'
    BY <1>0, <1>1 DEF TypeOK
  <2>2. \A t \in Syncers \ {s} : readIn'[t] <= term'
    BY <1>0, <1>1 DEF Mirroring, TermsPast
  <2> QED  BY <2>1, <2>2 DEF TermsPast
<1>6. Abreast'
  <2>1. \A i \in todo'[s], j \in applied : KeyOf(i) = KeyOf(j) => j <= i
    BY <1>1, WinnersAreAbreast DEF Mirroring
  <2>2. \A t \in Syncers \ {s} : Fenced(t)' = Fenced(t)
    BY <1>0, <1>1 DEF Fenced
  <2> QED  BY <1>0, <1>1, <2>1, <2>2, SameRows DEF Mirroring, Abreast
<1>7. \A i : Reflects(i)' = Reflects(i)
  BY <1>0, SameRows DEF Reflects
<1>8. LatestReflected'
  BY <1>0, <1>7, SameRows DEF Mirroring, LatestReflected
<1> QED  BY <1>3, <1>4, <1>5, <1>6, <1>8 DEF Mirroring

\* The row that a statement leaves is what its change says.
LEMMA EffectReflects ==
    ASSUME TypeOK, NEW s \in Syncers, NEW i \in Ids, TakesEffect(s, i), UNCHANGED outbox
    PROVE  /\ Reflects(i)'
           /\ \A j \in Ids : KeyOf(j) # KeyOf(i) => Reflects(j)' = Reflects(j)
<1>1. KeyOf(i) \in Keys /\ mirror \in [Keys -> MirrorRows] /\ mirror[KeyOf(i)] \in MirrorRows
  BY IdsAreNumbers DEF TypeOK
<1>2. mirror' = [mirror EXCEPT ![KeyOf(i)] = Written(i, mirror[KeyOf(i)])]
  BY DEF TakesEffect
<1>3. mirror'[KeyOf(i)] = Written(i, mirror[KeyOf(i)])
  BY <1>1, <1>2
<1>4. Reflects(i)'
  BY <1>1, <1>3, SameRows DEF Reflects, Written, MirrorRows
<1>5. ASSUME NEW j \in Ids, KeyOf(j) # KeyOf(i)
      PROVE  Reflects(j)' = Reflects(j)
  <2>1. mirror'[KeyOf(j)] = mirror[KeyOf(j)]
    BY <1>1, <1>2, <1>5, IdsAreNumbers
  <2> QED  BY <2>1, SameRows DEF Reflects
<1> QED  BY <1>4, <1>5

LEMMA EffectMirroring ==
    ASSUME TypeOK, Mirroring, NEW s \in Syncers, NEW i \in todo[s], TakesEffect(s, i),
           todo' = [todo EXCEPT ![s] = @ \ {i}],
           UNCHANGED <<outbox, processed, leaseVars, readIn>>
    PROVE  Mirroring'
<1> USE DEF leaseVars
<1>0. i \in Ids /\ applied \subseteq Ids
  BY DEF TypeOK
<1>1. /\ applied' = applied \cup {i}
      /\ unfenced' = IF Fenced(s) THEN unfenced ELSE unfenced \cup {KeyOf(i)}
  BY DEF TakesEffect
<1>2. /\ todo'[s] = todo[s] \ {i}
      /\ \A t \in Syncers \ {s} : todo'[t] = todo[t]
  BY DEF TypeOK
<1>3. SentWithin'
  BY <1>1, <1>2, SentStaysWithin DEF Mirroring
<1>4. OnePerKey'
  BY <1>2, SameRows DEF Mirroring, OnePerKey
<1>5. TermsPast'
  BY DEF Mirroring, TermsPast
<1>6. Abreast'
  <2> SUFFICES ASSUME NEW t \in Syncers, Fenced(t), NEW x \in todo'[t], NEW j \in applied',
                      KeyOf(x) = KeyOf(j), KeyOf(x) \notin unfenced'
               PROVE  j <= x
    BY SameRows DEF Abreast, Fenced
  <2>1. x \in todo[t] /\ KeyOf(x) \notin unfenced
    BY <1>1, <1>2
  <2>2. CASE j \in applied
    BY <2>1, <2>2 DEF Mirroring, Abreast
  <2>3. CASE j = i
    <3>1. Fenced(s)
      BY <1>1, <2>3
    <3>2. t = s
      BY <3>1 DEF Fenced
    <3>3. x = i
      BY <2>1, <2>3, <3>2 DEF Mirroring, OnePerKey
    <3> QED  BY <1>2, <3>2, <3>3
  <2> QED  BY <1>1, <2>2, <2>3
<1>7. LatestReflected'
  <2> SUFFICES ASSUME NEW x \in applied', KeyOf(x) \notin unfenced',
                      \A j \in applied' : KeyOf(j) = KeyOf(x) => j <= x
               PROVE  Reflects(x)'
    BY SameRows DEF LatestReflected
  <2>1. CASE x = i
    BY <1>0, <2>1, EffectReflects
  <2>2. CASE x # i /\ KeyOf(x) = KeyOf(i)
    <3>1. Fenced(s) /\ KeyOf(i) \notin unfenced /\ x \in applied
      BY <1>1, <2>2
    <3>2. x <= i
      BY <2>2, <3>1 DEF Mirroring, Abreast
    <3>3. i <= x
      BY <1>1, <2>2
    <3> QED  BY <1>0, <2>2, <3>1, <3>2, <3>3, IdsAreNumbers
  <2>3. CASE KeyOf(x) # KeyOf(i)
    <3>1. x \in applied /\ KeyOf(x) \notin unfenced
      BY <1>1, <2>3
    <3>2. \A j \in applied : KeyOf(j) = KeyOf(x) => j <= x
      BY <1>1
    <3>3. Reflects(x)
      BY <3>1, <3>2 DEF Mirroring, LatestReflected
    <3> QED  BY <1>0, <2>3, <3>1, <3>3, EffectReflects
  <2> QED  BY <2>1, <2>2, <2>3
<1> QED  BY <1>3, <1>4, <1>5, <1>6, <1>7 DEF Mirroring

LEMMA SyncMirroring ==
    ASSUME TypeOK, Mirroring, NEW s \in Syncers, SyncStep(s)
    PROVE  Mirroring'
<1> USE DEF outboxVars, leaseVars, batchVars, troubleVars
<1>0. term \in Nat /\ term <= term
  BY DEF TypeOK
<1>1. CASE RouteUnknown(s)
  <2>1. \A t \in Syncers : todo'[t] \subseteq todo[t]
    BY <1>1 DEF RouteUnknown, TypeOK
  <2> QED  BY <1>0, <1>1, <2>1, NothingSent DEF RouteUnknown, Fenced
<1>2. CASE \E i \in todo[s] : Dispatch(s, i)
  BY <1>2, EffectMirroring DEF Dispatch
<1>3. CASE \E i \in todo[s] : DispatchFails(s, i)
  <2> PICK i \in todo[s] : DispatchFails(s, i)  BY <1>3
  <2>1. CASE UNCHANGED mirrorVars
    <3>1. \A t \in Syncers : todo'[t] \subseteq todo[t]
      BY DEF DispatchFails, TypeOK
    <3> QED  BY <1>0, <2>1, <3>1, NothingSent DEF DispatchFails, Fenced
  <2>2. CASE TakesEffect(s, i)
    BY <2>2, EffectMirroring DEF DispatchFails
  <2> QED  BY <2>1, <2>2 DEF DispatchFails
<1>4. CASE RouteFailed(s)
  BY <1>0, <1>4, NothingSent DEF RouteFailed, Fenced
<1>5. CASE Mark(s)
  BY <1>0, <1>5, NothingSent DEF Mark, Fenced
<1>6. CASE ProbeFails(s)
  <2>1. \A t \in Syncers : todo'[t] \subseteq todo[t]
    BY <1>6 DEF ProbeFails, TypeOK
  <2> QED  BY <1>0, <1>6, <2>1, NothingSent DEF ProbeFails, Fenced
<1> QED  BY <1>1, <1>2, <1>3, <1>4, <1>5, <1>6 DEF SyncStep

LEMMA NextMirroring ==
    ASSUME TypeOK, Accounting, Mirroring, [Next]_vars
    PROVE  Mirroring'
<1>1. CASE Write
  BY <1>1, WriteAppends, AppendMirroring
<1>2. CASE Lapse
  BY <1>2, LeadMirroring
<1>3. CASE \E s \in Syncers : Lead(s)
  BY <1>3, LeadMirroring
<1>4. CASE \E s \in Syncers : ReadBatch(s)
  BY <1>4, ReadMirroring DEF Accounting
<1>5. CASE \E s \in Syncers : SyncStep(s)
  BY <1>5, SyncMirroring
<1>6. CASE UNCHANGED vars
  <2>1. term \in Nat /\ term <= term
    BY DEF TypeOK
  <2> QED
    BY <1>6, <2>1, NothingSent DEF Fenced, vars, outboxVars, leaseVars, batchVars
<1> QED  BY <1>1, <1>2, <1>3, <1>4, <1>5, <1>6 DEF Next

LEMMA MirroringSuffices ==
    ASSUME TypeOK, Accounting, Mirroring
    PROVE  NewestReflected
<1> SUFFICES ASSUME NEW i \in processed \ dlq, Newest(i), KeyOf(i) \notin unfenced
             PROVE  Reflects(i)
  BY DEF NewestReflected
<1>1. i \in applied
  BY DEF Accounting, NewestAccounted
<1>2. \A j \in applied : KeyOf(j) = KeyOf(i) => j <= i
  <2> SUFFICES ASSUME NEW j \in applied, KeyOf(j) = KeyOf(i) PROVE j <= i
    OBVIOUS
  <2>1. i \in Nat /\ j \in Nat /\ j \in Ids
    BY <1>1, IdsAreNumbers DEF TypeOK
  <2>2. ~(i < j)
    BY <2>1 DEF Newest, Newer
  <2> QED  BY <2>1, <2>2
<1> QED  BY <1>1, <1>2 DEF Mirroring, LatestReflected

\* When the newest change of a row is processed and has no letter, CockroachDB
\* has it, unless a batch that had lost its lease wrote the row: the merge, the
\* batch limit, restarts, failed statements and failed marks never bring back
\* what is older.
THEOREM MirrorKeepsUp == Spec => []NewestReflected
<1>1. Init => TypeOK /\ Accounting /\ Mirroring
  BY InitTyped, InitAccounting, InitMirroring
<1>2. TypeOK /\ Accounting /\ Mirroring /\ [Next]_vars
        => TypeOK' /\ Accounting' /\ Mirroring'
  BY NextTyped, NextAccounting, NextMirroring
<1>3. TypeOK /\ Accounting /\ Mirroring => NewestReflected
  BY MirroringSuffices
<1> QED  BY <1>1, <1>2, <1>3, PTL DEF Spec

-----------------------------------------------------------------------------
(* No step back.                                                           *)

\* An upsert writes its whole row and compares no version.  Even so CockroachDB never
\* goes back from one change of a row to an older one, except in the row of a batch
\* that had lost its lease.
MirrorMovesForward ==
    [][\A k \in Keys : k \notin unfenced' => mirror[k].content <= mirror'[k].content]_vars

\* What the mirror has of a row was sent.
MirrorWasSent ==
    \A k \in Keys : LET i == mirror[k].content
                    IN  i # 0 => i \in applied /\ KeyOf(i) = k

\* One statement takes effect, or the mirror stays as it is.
LEMMA MirrorSteps ==
    ASSUME [Next]_vars
    PROVE  \/ UNCHANGED mirrorVars /\ (Write \/ UNCHANGED outbox)
           \/ \E s \in Syncers : \E i \in todo[s] : TakesEffect(s, i) /\ UNCHANGED outbox
<1> USE DEF outboxVars, mirrorVars
<1>1. CASE Write
  BY <1>1 DEF Write, Upsert, Takedown, Restore, Append1
<1>2. CASE Lapse
  BY <1>2 DEF Lapse
<1>3. CASE \E s \in Syncers : Lead(s)
  BY <1>3 DEF Lead, Start, Renew, RenewFails, Reacquire, Stop, ClosePool, Connect
<1>4. CASE \E s \in Syncers : ReadBatch(s)
  BY <1>4 DEF ReadBatch
<1>5. CASE \E s \in Syncers : SyncStep(s)
  BY <1>5 DEF SyncStep, RouteUnknown, Dispatch, DispatchFails, ProbeFails, RouteFailed, Mark
<1>6. CASE UNCHANGED vars
  BY <1>6 DEF vars
<1> QED  BY <1>1, <1>2, <1>3, <1>4, <1>5, <1>6 DEF Next

LEMMA NextWasSent ==
    ASSUME TypeOK, MirrorWasSent, [Next]_vars
    PROVE  MirrorWasSent'
<1>1. CASE UNCHANGED mirrorVars /\ (Write \/ UNCHANGED outbox)
  <2>1. \A i \in Ids : KeyOf(i)' = KeyOf(i)
    BY <1>1, WriteAppends, AppendFacts, SameRows
  <2> QED  BY <1>1, <2>1 DEF MirrorWasSent, mirrorVars, TypeOK
<1>2. ASSUME NEW s \in Syncers, NEW i \in todo[s], TakesEffect(s, i), UNCHANGED outbox
      PROVE  MirrorWasSent'
  <2> SUFFICES ASSUME NEW k \in Keys, mirror'[k].content # 0
               PROVE  mirror'[k].content \in applied' /\ outbox[mirror'[k].content].key = k
    BY <1>2 DEF MirrorWasSent, KeyOf
  <2>1. applied' = applied \cup {i}
    BY <1>2 DEF TakesEffect
  <2>2. \/ mirror'[k].content = mirror[k].content
        \/ mirror'[k].content = i /\ KeyOf(i) = k
    BY <1>2 DEF TakesEffect, Written, TypeOK, MirrorRows
  <2> QED  BY <2>1, <2>2 DEF MirrorWasSent, KeyOf
<1> QED  BY <1>1, <1>2, MirrorSteps

\* MirrorMovesForward: the order comes from the batches alone.  A batch of the present
\* term has nothing older to send than what was sent of the row (Abreast).
THEOREM NoStepBack == Spec => MirrorMovesForward
<1> DEFINE Inv     == TypeOK /\ Accounting /\ Mirroring /\ MirrorWasSent
           Forward == \A k \in Keys :
                          k \notin unfenced' => mirror[k].content <= mirror'[k].content
<1>1. Init => Inv
  BY InitTyped, InitAccounting, InitMirroring DEF Init, MirrorWasSent
<1>2. Inv /\ [Next]_vars => Inv'
  BY NextTyped, NextAccounting, NextMirroring, NextWasSent
<1>3. Inv /\ [Next]_vars => Forward
  <2> SUFFICES ASSUME Inv, [Next]_vars, NEW k \in Keys, k \notin unfenced'
               PROVE  mirror[k].content <= mirror'[k].content
    OBVIOUS
  <2>1. mirror[k].content \in Nat
    BY DEF TypeOK, MirrorRows
  <2>2. CASE UNCHANGED mirrorVars
    BY <2>1, <2>2 DEF mirrorVars
  <2>3. ASSUME NEW s \in Syncers, NEW i \in todo[s], TakesEffect(s, i)
        PROVE  mirror[k].content <= mirror'[k].content
    <3>1. \/ mirror'[k].content = mirror[k].content
          \/ mirror'[k].content = i /\ KeyOf(i) = k
      BY <2>3 DEF TakesEffect, Written, TypeOK, MirrorRows
    <3>2. CASE mirror'[k].content = i /\ KeyOf(i) = k
      <4>1. Fenced(s) /\ k \notin unfenced /\ i \in Nat
        BY <2>3, <3>2, IdsAreNumbers DEF TakesEffect, TypeOK
      <4>2. CASE mirror[k].content = 0
        BY <3>2, <4>1, <4>2
      <4>3. CASE mirror[k].content # 0
        <5>1. mirror[k].content \in applied /\ KeyOf(mirror[k].content) = k
          BY <4>3 DEF MirrorWasSent
        <5> QED  BY <3>2, <4>1, <5>1 DEF Mirroring, Abreast
      <4> QED  BY <4>2, <4>3
    <3> QED  BY <2>1, <3>1, <3>2
  <2> QED  BY <2>2, <2>3, MirrorSteps
<1> QED  BY <1>1, <1>2, <1>3, PTL DEF Spec, MirrorMovesForward
=============================================================================
