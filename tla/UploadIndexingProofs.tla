------------------------ MODULE UploadIndexingProofs ------------------------
(***************************************************************************)
(* Theorems about UploadIndexing, for any set of uploads and any bounds:   *)
(* the type invariant; MANIFESTED and READY never run ahead of the         *)
(* completed row; recording and completing a row implement OnceOnlyWrites; *)
(* a code too many, or a missing one, has a failed call of its own; a code *)
(* that nobody was told, or told twice, has causes that account for it.    *)
(***************************************************************************)
EXTENDS UploadIndexing, TLAPS

-----------------------------------------------------------------------------
(* Type correctness.                                                       *)

\* What the shared pieces of the actions do to the types.
LEMMA FailureTypes ==
    ASSUME TypeOK, Works \/ Fails
    PROVE  faults' \in 0..MaxFaults
BY IndexingAssumption DEF TypeOK, Works, Fails

\* A transition writes a legal status, or nothing; so does a mark.
LEMMA TransitionTypes ==
    ASSUME TypeOK, NEW u \in Uploads, NEW st \in SessionStatus,
           Transition(u, st) \/ Mark(u, st)
    PROVE  /\ session' \in [Uploads -> SessionStatus]
           /\ faults' \in 0..MaxFaults
BY FailureTypes DEF TypeOK, Transition, Mark, NotWritten

\* The except branches of up_bot keep the types of what they change.
LEMMA GiveUpTypes ==
    ASSUME TypeOK, NEW u \in Uploads, GiveUp(u)
    PROVE  /\ session' \in [Uploads -> SessionStatus]
           /\ up' \in [Uploads -> UpSteps]
BY DEF TypeOK, GiveUp, UpGoto, SessionStatus, UpSteps

\* A handler of up_bot moves to one of its steps.
LEMMA UpGotoTypes ==
    ASSUME TypeOK, NEW u \in Uploads, NEW pc \in UpSteps, UpGoto(u, pc)
    PROVE  up' \in [Uploads -> UpSteps]
BY DEF TypeOK, UpGoto

\* A task of idx_bot moves to one of its steps.
LEMMA TaskGotoTypes ==
    ASSUME TypeOK, NEW u \in Uploads, NEW pc \in TaskSteps, TaskGoto(u, pc)
    PROVE  task' \in [Uploads -> TaskSteps]
BY DEF TypeOK, TaskGoto

\* The steps of up_bot keep the types.
LEMMA UpTypes ==
    ASSUME TypeOK, NEW u \in Uploads, UpStep(u) \/ ChooseOptions(u)
    PROVE  TypeOK'
<1> USE DEF idxVars, connVars, codeVars, startVars
<1>1. CASE Receive(u)
  <2>1. faults' \in 0..MaxFaults
    BY <1>1, FailureTypes DEF Receive, NotWritten
  <2>2. session' \in [Uploads -> SessionStatus] /\ up' \in [Uploads -> UpSteps]
    BY <1>1 DEF Receive, UpGoto, TypeOK, SessionStatus, UpSteps
  <2> QED
    BY <1>1, <2>1, <2>2 DEF Receive, TypeOK
<1>2. CASE Copy(u)
  <2>1. CASE /\ Transition(u, "open")
             /\ UpGoto(u, IF u \in External THEN "crdb" ELSE "options")
    <3>1. session' \in [Uploads -> SessionStatus] /\ faults' \in 0..MaxFaults
      BY <2>1, TransitionTypes DEF SessionStatus
    <3>2. up' \in [Uploads -> UpSteps]
      BY <2>1, UpGotoTypes DEF UpSteps, Finalizing
    <3> QED
      BY <1>2, <3>1, <3>2 DEF Copy, TypeOK
  <2>2. CASE Fails /\ GiveUp(u)
    BY <1>2, <2>2, GiveUpTypes, FailureTypes DEF Copy, TypeOK
  <2> QED
    BY <1>2, <2>1, <2>2 DEF Copy
<1>3. CASE RecordCrdb(u)
  <2>1. CASE Fails /\ GiveUp(u)
    BY <1>3, <2>1, GiveUpTypes, FailureTypes DEF RecordCrdb, TypeOK
  <2>2. CASE Works /\ UpGoto(u, "local") /\ UNCHANGED session
    <3>1. up' \in [Uploads -> UpSteps]
      BY <2>2, UpGotoTypes DEF UpSteps, Finalizing
    <3> QED
      BY <1>3, <2>2, <3>1 DEF RecordCrdb, TypeOK, Works
  <2> QED
    BY <1>3, <2>1, <2>2 DEF RecordCrdb
<1>4. CASE RecordLocal(u)
  <2>1. up' \in [Uploads -> UpSteps]
    BY <1>4, UpGotoTypes DEF RecordLocal, UpSteps, Finalizing
  <2>2. faults' \in 0..MaxFaults
    BY <1>4, FailureTypes DEF RecordLocal, NotWritten
  <2>3. row' \in [Uploads -> RowStatus]
    BY <1>4 DEF RecordLocal, TypeOK, RowStatus
  <2> QED
    BY <1>4, <2>1, <2>2, <2>3 DEF RecordLocal, TypeOK
<1>5. CASE MarkPending(u)
  <2>1. session' \in [Uploads -> SessionStatus] /\ faults' \in 0..MaxFaults
    BY <1>5, TransitionTypes DEF MarkPending, SessionStatus
  <2>2. up' \in [Uploads -> UpSteps]
    BY <1>5, UpGotoTypes DEF MarkPending, UpSteps, Finalizing
  <2> QED
    BY <1>5, <2>1, <2>2 DEF MarkPending, TypeOK
<1>6. CASE CreateEntries(u)
  <2>1. faults' \in 0..MaxFaults
    BY <1>6, FailureTypes DEF CreateEntries, NotWritten
  <2>2. session' \in [Uploads -> SessionStatus] /\ up' \in [Uploads -> UpSteps]
    <3>1. CASE GiveUp(u)
      BY <3>1, GiveUpTypes
    <3>2. CASE UNCHANGED session /\ (UpGoto(u, "notify") \/ UpGoto(u, "ended"))
      BY <3>2, UpGotoTypes DEF UpSteps, Finalizing, TypeOK
    <3> QED
      BY <1>6, <3>1, <3>2 DEF CreateEntries
  <2> QED
    BY <1>6, <2>1, <2>2 DEF CreateEntries, TypeOK
<1>7. CASE NotifyIdx(u)
  <2>1. up' \in [Uploads -> UpSteps]
    BY <1>7, UpGotoTypes DEF NotifyIdx, UpSteps
  <2>2. faults' \in 0..MaxFaults
    BY <1>7, FailureTypes DEF NotifyIdx, NotWritten
  <2>3. notices' \in {0, 1}
    BY <1>7 DEF NotifyIdx, TypeOK
  <2> QED
    BY <1>7, <2>1, <2>2, <2>3 DEF NotifyIdx, TypeOK
<1>8. CASE ChooseOptions(u)
  <2>1. up' \in [Uploads -> UpSteps]
    BY <1>8, UpGotoTypes DEF ChooseOptions, UpSteps, Finalizing
  <2> QED
    BY <1>8, <2>1 DEF ChooseOptions, TypeOK
<1> QED
  BY <1>1, <1>2, <1>3, <1>4, <1>5, <1>6, <1>7, <1>8 DEF UpStep

\* What the failing branches of Commit do to the types.
LEMMA CommitTypes ==
    ASSUME TypeOK, NEW u \in Uploads, Commit(u)
    PROVE  TypeOK'
<1>0. row \in [Uploads -> RowStatus] /\ codes \in [Uploads -> Nat]
  BY DEF TypeOK
<1>1. ASSUME NEW lost \in SUBSET joined PROVE Without(lost) \in [Uploads -> RowStatus]
  BY <1>0 DEF Without, RowStatus
<1>2. faults' \in 0..MaxFaults
  BY FailureTypes DEF Commit
<1>3. /\ row' \in [Uploads -> RowStatus]
      /\ codes' \in [Uploads -> Nat]
      /\ task' \in [Uploads -> TaskSteps]
      /\ spoilt' \in BOOLEAN
  <2>0. \A pc \in {"tell", "release"} : TaskGoto(u, pc) => task' \in [Uploads -> TaskSteps]
    BY TaskGotoTypes DEF TaskSteps
  <2>1. CASE Completes(u) /\ UNCHANGED spoilt
    BY <1>0, <2>0, <2>1 DEF Completes, TypeOK, RowStatus
  <2>2. ASSUME NEW rest \in [Uploads -> RowStatus],
               GoesBack(u, rest) \/ LosesCode(u, rest) \/ AnyPart(u, rest)
        PROVE  /\ row' \in [Uploads -> RowStatus]
               /\ codes' \in [Uploads -> Nat]
               /\ task' \in [Uploads -> TaskSteps]
               /\ spoilt' \in BOOLEAN
    <3>1. task' \in [Uploads -> TaskSteps] /\ spoilt' \in BOOLEAN
      BY <2>0, <2>2 DEF GoesBack, LosesCode, AnyPart, TypeOK
    <3>2. row' = rest \/ row' = [rest EXCEPT ![u] = "done"]
      BY <2>2 DEF GoesBack, LosesCode, AnyPart
    <3>3. codes' = codes \/ codes' = [codes EXCEPT ![u] = @ + 1]
      BY <2>2 DEF GoesBack, LosesCode, AnyPart
    <3> QED
      BY <1>0, <2>2, <3>1, <3>2, <3>3 DEF RowStatus
  <2> QED
    BY <1>1, <2>1, <2>2 DEF Commit
<1>4. exposed' \subseteq Uploads
  BY DEF Commit, Expose, TypeOK
<1>5. missed' \in Nat
  BY DEF Commit, TypeOK
<1> QED
  BY <1>2, <1>3, <1>4, <1>5 DEF Commit, TypeOK, startVars

\* The steps of _process_one_pending keep the types.
LEMMA TaskTypes ==
    ASSUME TypeOK, NEW u \in Uploads, TaskStep(u)
    PROVE  TypeOK'
<1> USE DEF connVars, codeVars, startVars
<1>1. CASE Prepare(u)
  <2>1. task' \in [Uploads -> TaskSteps]
    BY <1>1, TaskGotoTypes DEF Prepare, TaskSteps
  <2>2. faults' \in 0..MaxFaults /\ clogged' \in BOOLEAN
    BY <1>1, FailureTypes DEF Prepare, TypeOK
  <2> QED
    BY <1>1, <2>1, <2>2 DEF Prepare, TypeOK
<1>2. CASE Begin(u)
  <2>1. task' \in [Uploads -> TaskSteps]
    BY <1>2, TaskGotoTypes DEF Begin, TaskSteps
  <2>2. faults' \in 0..MaxFaults
    BY <1>2, FailureTypes DEF Begin
  <2> QED
    BY <1>2, <2>1, <2>2 DEF Begin, TypeOK
<1>3. CASE Tell(u)
  <2>1. task' \in [Uploads -> TaskSteps]
    BY <1>3, TaskGotoTypes DEF Tell, TaskSteps
  <2>2. faults' \in 0..MaxFaults
    BY <1>3, FailureTypes DEF Tell
  <2>3. told' \in [Uploads -> Nat]
    BY <1>3 DEF Tell, TypeOK
  <2> QED
    BY <1>3, <2>1, <2>2, <2>3 DEF Tell, TypeOK
<1>4. CASE Park(u)
  <2>1. task' \in [Uploads -> TaskSteps]
    BY <1>4, TaskGotoTypes DEF Park, TaskSteps
  <2>2. faults' \in 0..MaxFaults
    BY <1>4, FailureTypes DEF Park
  <2>3. parked' \subseteq Uploads /\ spoilt' \in BOOLEAN
    BY <1>4 DEF Park, TypeOK
  <2> QED
    BY <1>4, <2>1, <2>2, <2>3 DEF Park, TypeOK
<1>5. CASE MarkManifested(u) \/ MarkReady(u) \/ MarkFailed(u)
  <2>1. task' \in [Uploads -> TaskSteps]
    BY <1>5, TaskGotoTypes DEF MarkManifested, MarkReady, MarkFailed, TaskSteps
  <2>2. session' \in [Uploads -> SessionStatus] /\ faults' \in 0..MaxFaults
    BY <1>5, TransitionTypes DEF MarkManifested, MarkReady, MarkFailed, SessionStatus
  <2> QED
    BY <1>5, <2>1, <2>2 DEF MarkManifested, MarkReady, MarkFailed, TypeOK
<1>6. CASE ReleaseRow(u)
  <2>1. task' \in [Uploads -> TaskSteps]
    BY <1>6, TaskGotoTypes DEF ReleaseRow, TaskSteps
  <2>2. faults' \in 0..MaxFaults
    BY <1>6, FailureTypes DEF ReleaseRow
  <2>3. row' \in [Uploads -> RowStatus] /\ missed' \in Nat
    BY <1>6 DEF ReleaseRow, TypeOK, RowStatus
  <2>5. spoilt' \in BOOLEAN
    BY <1>6 DEF ReleaseRow, TypeOK
  <2>6. reopened' \subseteq Uploads
    BY <1>6 DEF ReleaseRow, TypeOK
  <2>4. joined' \subseteq Uploads \X RowStatus
    <3>1. <<u, row[u]>> \in Uploads \X RowStatus
      BY DEF TypeOK
    <3> QED
      BY <1>6, <3>1 DEF ReleaseRow, TypeOK
  <2> QED
    BY <1>6, <2>1, <2>2, <2>3, <2>4, <2>5, <2>6 DEF ReleaseRow, TypeOK
<1> QED
  BY CommitTypes, <1>1, <1>2, <1>3, <1>4, <1>5, <1>6 DEF TaskStep

\* The loop of idx_bot, the crashes and /start keep the types.
LEMMA OtherTypes ==
    ASSUME TypeOK,
           \/ LoopStep \/ UpCrash \/ IdxCrash
           \/ \E u \in Uploads : StartStep(u)
    PROVE  TypeOK'
<1> USE DEF idxVars, connVars, codeVars, startVars
<1>1. CASE WakeUp
  <2>1. rounds' \in 0..(ResetEvery - 1) /\ idx' \in {"reset", "claim"} /\ notices' \in {0, 1}
    BY <1>1, IndexingAssumption DEF WakeUp, TakeNotices, TypeOK
  <2> QED
    BY <1>1, <2>1 DEF WakeUp, TypeOK
<1>2. CASE LoseWakeUp
  <2>1. faults' \in 0..MaxFaults /\ missed' \in Nat
    BY <1>2, FailureTypes DEF LoseWakeUp, TypeOK
  <2> QED
    BY <1>2, <2>1 DEF LoseWakeUp, TypeOK
<1>3. CASE ResetStale
  <2>1. row' \in [Uploads -> RowStatus]
    BY <1>3 DEF ResetStale, TypeOK, RowStatus
  <2> QED
    BY <1>3, <2>1 DEF ResetStale, TypeOK
<1>4. CASE Claim
  <2>1. row' \in [Uploads -> RowStatus] /\ task' \in [Uploads -> TaskSteps]
    BY <1>4 DEF Claim, TypeOK, RowStatus, TaskSteps
  <2> QED
    BY <1>4, <2>1 DEF Claim, TypeOK
<1>5. CASE ClaimNothing
  <2>1. faults' \in 0..MaxFaults /\ missed' \in Nat
    BY <1>5, FailureTypes DEF ClaimNothing, TypeOK
  <2> QED
    BY <1>5, <2>1 DEF ClaimNothing, TypeOK
<1>6. CASE Gathered
  BY <1>6 DEF Gathered, TypeOK
<1>7. CASE UpCrash
  BY <1>7, IndexingAssumption DEF UpCrash, TypeOK, UpSteps
<1>8. CASE IdxCrash
  <2>1. row' \in [Uploads -> RowStatus]
    BY <1>8 DEF IdxCrash, Without, TypeOK, RowStatus
  <2>2. crashes' \in 0..MaxCrashes /\ rounds' \in 0..(ResetEvery - 1)
    BY <1>8, IndexingAssumption DEF IdxCrash, TypeOK
  <2>3. task' \in [Uploads -> TaskSteps] /\ idx' = "waiting"
    BY <1>8 DEF IdxCrash, TaskSteps
  <2> QED
    BY <1>8, <2>1, <2>2, <2>3 DEF IdxCrash, TypeOK
<1>9. ASSUME NEW u \in Uploads, SendParked(u) PROVE TypeOK'
  <2>1. faults' \in 0..MaxFaults
    BY <1>9, FailureTypes DEF SendParked
  <2>2. told' \in [Uploads -> Nat] /\ reply' \subseteq Uploads
    BY <1>9 DEF SendParked, TypeOK
  <2>3. eager' \in [Uploads -> 0..MaxEager]
    BY <1>9, IndexingAssumption DEF SendParked, TypeOK
  <2> QED
    BY <1>9, <2>1, <2>2, <2>3 DEF SendParked, TypeOK
<1>10. ASSUME NEW u \in Uploads, QueueDelete(u) \/ DeleteParked(u) PROVE TypeOK'
  <2>1. faults' \in 0..MaxFaults
    BY <1>10, FailureTypes DEF QueueDelete, DeleteParked
  <2>2. parked' \subseteq Uploads /\ reply' \subseteq Uploads /\ deleting' \subseteq Uploads
    BY <1>10 DEF QueueDelete, DeleteParked, TypeOK
  <2> QED
    BY <1>10, <2>1, <2>2 DEF QueueDelete, DeleteParked, TypeOK
<1> QED
  BY <1>1, <1>2, <1>3, <1>4, <1>5, <1>6, <1>7, <1>8, <1>9, <1>10 DEF LoopStep, StartStep

\* The type invariant holds in every behaviour.
THEOREM TypeCorrect == Spec => []TypeOK
<1>1. Init => TypeOK
  <2> SUFFICES ASSUME Init PROVE TypeOK
    OBVIOUS
  <2>1. /\ session \in [Uploads -> SessionStatus]
        /\ up \in [Uploads -> UpSteps]
        /\ row \in [Uploads -> RowStatus]
        /\ task \in [Uploads -> TaskSteps]
    BY DEF Init, SessionStatus, RowStatus, UpSteps, TaskSteps
  <2>2. /\ codes \in [Uploads -> Nat] /\ told \in [Uploads -> Nat]
        /\ eager \in [Uploads -> 0..MaxEager]
    BY IndexingAssumption DEF Init
  <2>3. rounds \in 0..(ResetEvery - 1) /\ faults \in 0..MaxFaults /\ crashes \in 0..MaxCrashes
    BY IndexingAssumption DEF Init
  <2> QED
    BY <2>1, <2>2, <2>3 DEF Init, TypeOK
<1>2. TypeOK /\ [Next]_vars => TypeOK'
  <2> SUFFICES ASSUME TypeOK, [Next]_vars PROVE TypeOK'
    OBVIOUS
  <2>1. CASE Next
    BY <2>1, UpTypes, TaskTypes, OtherTypes DEF Next
  <2>2. CASE UNCHANGED vars
    BY <2>2 DEF TypeOK, vars, idxVars, connVars, codeVars, startVars
  <2> QED
    BY <2>1, <2>2
<1> QED
  BY <1>1, <1>2, PTL DEF Spec


-----------------------------------------------------------------------------
(* Rows and tasks: a row may only be recorded by a handler that has not     *)
(* recorded it, only a claimed row is completed, and only by its task; what *)
(* was given back inside a transaction belongs to nobody until it ends.     *)

BeforeRow == {"new", "copy", "options", "crdb", "local"}
Writers   == {"prepare", "begin", "write"}
Coded     == {"tell", "retell", "park", "manifested", "ready"}
Told      == {"MANIFESTED", "READY"}

RowInv(u) ==
    /\ up[u] \in BeforeRow => row[u] = "none"
    /\ task[u] \in Writers => row[u] = "claimed"
    /\ task[u] \in Coded => row[u] = "done" \/ spoilt
    /\ task[u] = "release" => /\ row[u] \in {"claimed", "done"}
                              /\ row[u] = "done" => faults > 0
                              /\ session[u] \in Told => spoilt
    /\ idx # "work" => task[u] = "none"

JoinedInv ==
    /\ joined # {} => \E v \in Uploads : task[v] = "write"
    /\ \A u \in Uploads, s \in RowStatus :
         <<u, s>> \in joined => /\ task[u] \in {"failed", "none"}
                                /\ row[u] = "free"
                                /\ s = "done" => u \in reopened

FaultInv == reopened # {} \/ exposed # {} => faults > 0

IndexingInv ==
    /\ ReadyMeansCoded
    /\ \A u \in Uploads : RowInv(u)
    /\ JoinedInv
    /\ FaultInv

\* A failed call is never taken back.
LEMMA FaultsGrow ==
    ASSUME TypeOK, [Next]_vars
    PROVE  faults' \in Nat /\ faults' >= faults
<1>1. (Works \/ Fails) => faults' \in Nat /\ faults' >= faults
  BY IndexingAssumption DEF TypeOK, Works, Fails
<1>2. UNCHANGED faults => faults' \in Nat /\ faults' >= faults
  BY IndexingAssumption DEF TypeOK
<1>3. ASSUME NEW u \in Uploads, UpStep(u) \/ ChooseOptions(u)
      PROVE  faults' \in Nat /\ faults' >= faults
  BY <1>1, <1>2, <1>3
  DEF UpStep, ChooseOptions, Receive, Copy, RecordCrdb, RecordLocal, MarkPending, CreateEntries,
      NotifyIdx, Transition, NotWritten
<1>4. ASSUME NEW u \in Uploads, TaskStep(u) PROVE faults' \in Nat /\ faults' >= faults
  BY <1>1, <1>2, <1>4
  DEF TaskStep, Prepare, Begin, Commit, Tell, Park, MarkManifested, MarkReady, ReleaseRow,
      MarkFailed, Mark, Transition, NotWritten
<1>5. CASE LoopStep \/ UpCrash \/ IdxCrash
  BY <1>1, <1>2, <1>5
  DEF LoopStep, WakeUp, LoseWakeUp, ResetStale, Claim, ClaimNothing, Gathered, UpCrash, IdxCrash
<1>6. ASSUME NEW u \in Uploads, StartStep(u) PROVE faults' \in Nat /\ faults' >= faults
  BY <1>1, <1>2, <1>6 DEF StartStep, SendParked, QueueDelete, DeleteParked
<1>7. CASE UNCHANGED vars
  BY <1>2, <1>7 DEF vars
<1> QED
  BY <1>3, <1>4, <1>5, <1>6, <1>7 DEF Next

\* What a row becomes when something given back in a transaction is lost with it.
Reverts(v) ==
    /\ row[v] = "free" /\ task[v] \in {"failed", "none"}
    /\ row'[v] = "claimed" \/ (row'[v] = "done" /\ v \in reopened)

\* Losing what was given back puts those rows back where they were.
LEMMA WithoutFates ==
    ASSUME TypeOK, IndexingInv, NEW lost \in SUBSET joined, NEW v \in Uploads
    PROVE  \/ Without(lost)[v] = row[v]
           \/ /\ row[v] = "free" /\ task[v] \in {"failed", "none"}
              /\ \/ Without(lost)[v] = "claimed"
                 \/ Without(lost)[v] = "done" /\ v \in reopened
<1>1. \A s \in RowStatus : <<v, s>> \in lost =>
         /\ row[v] = "free" /\ task[v] \in {"failed", "none"}
         /\ s = "done" => v \in reopened
  BY DEF IndexingInv, JoinedInv
<1>2. Without(lost)[v] = CASE <<v, "done">> \in lost -> "done"
                           [] <<v, "claimed">> \in lost -> "claimed"
                           [] OTHER -> row[v]
  BY DEF Without
<1> QED
  BY <1>1, <1>2 DEF RowStatus

\* The fates of a transaction: completed; failed, whatever is left of it; or mixed with
\* another that failed before.
CommitWorks(u) ==
    /\ faults' = faults /\ UNCHANGED <<exposed, spoilt>>
    /\ row' = [row EXCEPT ![u] = "done"]
    /\ row'[u] = "done" /\ codes'[u] = codes[u] + 1 /\ task'[u] = "tell"
CommitFails(u) ==
    /\ faults' = faults + 1
    /\ spoilt => spoilt'
    /\ u \in exposed' <=> u \in exposed
    /\ codes'[u] \in {codes[u], codes[u] + 1}
    /\ \/ task'[u] = "release" /\ row'[u] \in {"claimed", "done"}
       \/ task'[u] = "tell" /\ (row'[u] = "done" \/ (row'[u] = "claimed" /\ spoilt'))
CommitMixed(u) ==
    /\ faults' = faults /\ u \in exposed /\ exposed' = exposed \ {u} /\ spoilt'
    /\ codes'[u] \in {codes[u], codes[u] + 1}
    /\ task'[u] \in {"tell", "release"} /\ row'[u] \in {"claimed", "done"}

LEMMA CommitFates ==
    ASSUME TypeOK, IndexingInv, NEW u \in Uploads, Commit(u)
    PROVE  /\ task[u] = "write" /\ row[u] = "claimed" /\ joined' = {}
           /\ UNCHANGED <<session, up, idx, reopened, told, startVars, crashes>>
           /\ \A v \in Uploads \ {u} : task'[v] = task[v] /\ codes'[v] = codes[v]
           /\ \A v \in Uploads \ {u} : row'[v] = row[v] \/ Reverts(v)
           /\ CommitWorks(u) \/ CommitFails(u) \/ CommitMixed(u)
<1>1. /\ task[u] = "write" /\ row[u] = "claimed" /\ joined' = {}
      /\ UNCHANGED <<session, up, idx, reopened, told, startVars, crashes>>
  BY DEF Commit, IndexingInv, RowInv, Writers
<1>2. CASE Works /\ Completes(u) /\ UNCHANGED <<exposed, spoilt>>
  BY <1>1, <1>2 DEF Completes, TaskGoto, Works, CommitWorks, TypeOK
<1>3. ASSUME NEW lost \in SUBSET joined,
             \/ Fails /\ GoesBack(u, Without(lost)) /\ UNCHANGED exposed
             \/ Fails /\ LosesCode(u, Without(lost)) /\ Expose(u)
             \/ Fails /\ AnyPart(u, Without(lost)) /\ Expose(u)
             \/ /\ u \in exposed /\ Works /\ AnyPart(u, Without(lost))
                /\ exposed' = exposed \ {u}
      PROVE  /\ \A v \in Uploads \ {u} : task'[v] = task[v] /\ codes'[v] = codes[v]
             /\ \A v \in Uploads \ {u} : row'[v] = row[v] \/ Reverts(v)
             /\ CommitFails(u) \/ CommitMixed(u)
  <2> DEFINE rest == Without(lost)
  <2>1. rest[u] = "claimed"
    BY <1>1, WithoutFates
  <2>2. rest = [v \in Uploads |-> rest[v]]
    BY DEF Without
  <2>3. \A v \in Uploads : \/ rest[v] = row[v]
                           \/ /\ row[v] = "free" /\ task[v] \in {"failed", "none"}
                              /\ rest[v] = "claimed" \/ (rest[v] = "done" /\ v \in reopened)
    BY WithoutFates
  <2> HIDE DEF rest
  <2>4. row' = rest \/ row' = [rest EXCEPT ![u] = "done"]
    BY <1>3 DEF GoesBack, LosesCode, AnyPart, rest
  <2>5. \A v \in Uploads \ {u} : row'[v] = rest[v]
    BY <2>2, <2>4
  <2>6. row'[u] \in {"claimed", "done"}
    BY <2>1, <2>2, <2>4
  <2>7. codes' = codes \/ codes' = [codes EXCEPT ![u] = @ + 1]
    BY <1>3 DEF GoesBack, LosesCode, AnyPart
  <2>8. TaskGoto(u, "tell") \/ TaskGoto(u, "release")
    BY <1>3 DEF GoesBack, LosesCode, AnyPart
  <2>9. \A v \in Uploads \ {u} : task'[v] = task[v] /\ codes'[v] = codes[v]
    BY <2>7, <2>8 DEF TypeOK, TaskGoto
  <2>10. /\ codes'[u] \in {codes[u], codes[u] + 1}
         /\ task'[u] \in {"tell", "release"}
    BY <2>7, <2>8 DEF TypeOK, TaskGoto
  <2>11. CASE Fails /\ GoesBack(u, rest) /\ UNCHANGED exposed
    <3>1. task'[u] = "release" /\ spoilt' = spoilt
      BY <2>11 DEF GoesBack, TaskGoto, TypeOK
    <3> QED
      BY <2>3, <2>5, <2>6, <2>9, <2>10, <2>11, <3>1 DEF Reverts, CommitFails, Fails
  <2>12. CASE Fails /\ LosesCode(u, rest) /\ Expose(u)
    <3>1. row'[u] = "done" /\ spoilt' = spoilt
      BY <2>2, <2>12 DEF LosesCode
    <3>2. u \in exposed' <=> u \in exposed
      BY <2>12 DEF Expose
    <3> QED
      BY <2>3, <2>5, <2>6, <2>9, <2>10, <2>12, <3>1, <3>2 DEF Reverts, CommitFails, Fails
  <2>13. CASE Fails /\ AnyPart(u, rest) /\ Expose(u)
    <3>1. spoilt'
      BY <2>13 DEF AnyPart
    <3>2. u \in exposed' <=> u \in exposed
      BY <2>13 DEF Expose
    <3> QED
      BY <2>3, <2>5, <2>6, <2>9, <2>10, <2>13, <3>1, <3>2 DEF Reverts, CommitFails, Fails
  <2>14. CASE u \in exposed /\ Works /\ AnyPart(u, rest) /\ exposed' = exposed \ {u}
    <3>1. spoilt'
      BY <2>14 DEF AnyPart
    <3> QED
      BY <2>3, <2>5, <2>6, <2>9, <2>10, <2>14, <3>1 DEF Reverts, CommitMixed, Works
  <2> QED
    BY <1>3, <2>11, <2>12, <2>13, <2>14 DEF rest
<1> QED
  BY <1>1, <1>2, <1>3 DEF Commit

\* up_bot's steps other than RecordLocal leave rows, codes and idx_bot alone, never
\* return to a step before the row, and never announce a code.
LEMMA UpFrame ==
    ASSUME TypeOK, NEW u \in Uploads, UpStep(u) \/ ChooseOptions(u)
    PROVE  /\ UNCHANGED <<idxVars, codeVars, crashes>>
           /\ ~RecordLocal(u) => /\ UNCHANGED row
                                 /\ \A v \in Uploads : up'[v] \in BeforeRow => up[v] \in BeforeRow
           /\ \A v \in Uploads : session'[v] \in Told => session'[v] = session[v]
<1>1. UNCHANGED <<idxVars, codeVars, crashes>>
  BY DEF UpStep, ChooseOptions, Receive, Copy, RecordCrdb, RecordLocal, MarkPending,
         CreateEntries, NotifyIdx
<1>2. ~RecordLocal(u) => UNCHANGED row
  BY DEF UpStep, ChooseOptions, Receive, Copy, RecordCrdb, MarkPending, CreateEntries, NotifyIdx
<1>3. ~RecordLocal(u) => \A v \in Uploads : up'[v] \in BeforeRow => up[v] \in BeforeRow
  BY DEF UpStep, ChooseOptions, Receive, Copy, RecordCrdb, MarkPending, CreateEntries,
         NotifyIdx, UpGoto, GiveUp, TypeOK, BeforeRow
<1>4. \A v \in Uploads : session'[v] \in Told => session'[v] = session[v]
  BY DEF UpStep, ChooseOptions, Receive, Copy, RecordCrdb, RecordLocal, MarkPending,
         CreateEntries, NotifyIdx, GiveUp, Transition, TypeOK, Told
<1> QED
  BY <1>1, <1>2, <1>3, <1>4

\* RecordLocal records its row at most.
LEMMA RecordFates ==
    ASSUME TypeOK, IndexingInv, NEW u \in Uploads, RecordLocal(u)
    PROVE  /\ row[u] = "none"
           /\ row' = row \/ row' = [row EXCEPT ![u] = "free"]
           /\ up' = [up EXCEPT ![u] = "pending"]
           /\ UNCHANGED session
BY DEF RecordLocal, UpGoto, IndexingInv, RowInv, BeforeRow

\* Where idx_bot, its tasks and its transactions stay as they are, a row that is given
\* back in a transaction stays with it.
LEMMA UpKeeps ==
    ASSUME TypeOK, IndexingInv, [Next]_vars, NEW u \in Uploads, UpStep(u) \/ ChooseOptions(u)
    PROVE  IndexingInv'
<1>0. /\ UNCHANGED <<idx, task, joined, exposed, spoilt, reopened>>
      /\ \A v \in Uploads : session'[v] \in Told => session'[v] = session[v]
      /\ faults \in Nat /\ faults' \in Nat /\ faults' >= faults
  BY UpFrame, FaultsGrow, IndexingAssumption DEF idxVars, connVars, codeVars, TypeOK
<1>1. /\ \A v \in Uploads : row'[v] = row[v] \/ (row[v] = "none" /\ row'[v] = "free")
      /\ \A v \in Uploads : up'[v] \in BeforeRow => up[v] \in BeforeRow /\ row'[v] = row[v]
  <2>1. CASE RecordLocal(u)
    BY <2>1, RecordFates DEF TypeOK, BeforeRow
  <2>2. CASE ~RecordLocal(u)
    BY <2>2, UpFrame
  <2> QED
    BY <2>1, <2>2
<1>2. ReadyMeansCoded'
  BY <1>0, <1>1 DEF IndexingInv, ReadyMeansCoded, Told
<1>3. ASSUME NEW v \in Uploads PROVE RowInv(v)'
  <2>1. RowInv(v)
    BY DEF IndexingInv
  <2> QED
    BY <1>0, <1>1, <2>1 DEF RowInv, Writers, Coded
<1>4. JoinedInv'
  BY <1>0, <1>1 DEF IndexingInv, JoinedInv
<1>5. FaultInv'
  BY <1>0 DEF IndexingInv, FaultInv
<1> QED
  BY <1>2, <1>3, <1>4, <1>5 DEF IndexingInv

\* A transaction keeps the invariant, however it ends.
LEMMA CommitKeeps ==
    ASSUME TypeOK, IndexingInv, [Next]_vars, NEW u \in Uploads, Commit(u)
    PROVE  IndexingInv'
<1>0. /\ task[u] = "write" /\ row[u] = "claimed" /\ joined' = {} /\ idx = "work"
      /\ UNCHANGED <<session, up, idx, reopened>>
      /\ \A v \in Uploads \ {u} : task'[v] = task[v]
      /\ \A v \in Uploads \ {u} : row'[v] = row[v] \/ Reverts(v)
      /\ row'[u] \in {"claimed", "done"}
      /\ spoilt => spoilt'
      /\ faults \in Nat /\ faults' \in Nat /\ faults' >= faults
  BY CommitFates, FaultsGrow, IndexingAssumption
  DEF CommitWorks, CommitFails, CommitMixed, IndexingInv, RowInv, TypeOK
<1>1. \/ task'[u] = "tell" /\ (row'[u] = "done" \/ spoilt')
      \/ task'[u] = "release" /\ faults' > 0
  <2>1. CASE CommitWorks(u)
    BY <2>1 DEF CommitWorks
  <2>2. CASE CommitFails(u)
    BY <1>0, <2>2 DEF CommitFails
  <2>3. CASE CommitMixed(u)
    BY <1>0, <2>3 DEF CommitMixed, IndexingInv, FaultInv
  <2> QED
    BY CommitFates, <2>1, <2>2, <2>3
<1>2. ASSUME NEW v \in Uploads PROVE session'[v] \in Told => row'[v] = "done" \/ spoilt'
  <2>1. session[v] \in Told => row[v] = "done" \/ spoilt
    BY DEF IndexingInv, ReadyMeansCoded, Told
  <2> QED
    BY <1>0, <2>1 DEF Reverts
<1>3. ASSUME NEW v \in Uploads PROVE RowInv(v)'
  <2>1. RowInv(v)
    BY DEF IndexingInv
  <2>2. up[v] \in BeforeRow => row'[v] = "none"
    BY <1>0, <2>1 DEF RowInv, Reverts
  <2>3. CASE v = u
    <3>1. CASE task'[u] = "tell" /\ (row'[u] = "done" \/ spoilt')
      BY <1>0, <2>2, <2>3, <3>1 DEF RowInv, Writers, Coded
    <3>2. CASE task'[u] = "release" /\ faults' > 0
      <4>1. session'[u] \in Told => spoilt'
        <5>1. session'[u] \in Told => spoilt
          BY <1>0 DEF IndexingInv, ReadyMeansCoded, Told
        <5> QED
          BY <1>0, <5>1
      <4> QED
        BY <1>0, <2>2, <2>3, <3>2, <4>1 DEF RowInv, Writers, Coded
    <3> QED
      BY <1>1, <3>1, <3>2
  <2>4. CASE v # u
    BY <1>0, <2>1, <2>2, <2>4 DEF RowInv, Reverts, Writers, Coded
  <2> QED
    BY <2>3, <2>4
<1>4. JoinedInv'
  BY <1>0 DEF JoinedInv
<1>5. FaultInv'
  <2>1. exposed' \subseteq exposed \/ faults' = faults + 1
    BY CommitFates DEF CommitWorks, CommitFails, CommitMixed
  <2> QED
    BY <1>0, <2>1 DEF IndexingInv, FaultInv
<1> QED
  BY <1>2, <1>3, <1>4, <1>5 DEF IndexingInv, ReadyMeansCoded, Told

\* What every step of a task leaves alone.
LEMMA TaskFrame ==
    ASSUME TypeOK, IndexingInv, NEW u \in Uploads, TaskStep(u)
    PROVE  /\ UNCHANGED <<up, idx, crashes>> /\ idx = "work"
           /\ \A v \in Uploads \ {u} : task'[v] = task[v]
           /\ spoilt => spoilt'
<1>1. UNCHANGED <<up, idx, crashes>> /\ task[u] # "none"
  BY DEF TaskStep, Prepare, Begin, Commit, Tell, Park, MarkManifested, MarkReady, ReleaseRow,
         MarkFailed
<1>2. \A v \in Uploads \ {u} : task'[v] = task[v]
  <2>1. CASE Commit(u)
    BY <2>1, CommitFates
  <2>2. CASE ~Commit(u)
    BY <2>2 DEF TaskStep, Prepare, Begin, Tell, Park, MarkManifested, MarkReady, ReleaseRow,
                MarkFailed, TaskGoto, TypeOK
  <2> QED
    BY <2>1, <2>2
<1>3. spoilt => spoilt'
  <2>1. CASE Commit(u)
    BY <2>1, CommitFates DEF CommitWorks, CommitFails, CommitMixed
  <2>2. CASE ~Commit(u)
    BY <2>2 DEF TaskStep, Prepare, Begin, Tell, Park, MarkManifested, MarkReady, ReleaseRow,
                MarkFailed, connVars
  <2> QED
    BY <2>1, <2>2
<1> QED
  BY <1>1, <1>2, <1>3 DEF IndexingInv, RowInv

\* A mark announces an upload at most where it is allowed to.
LEMMA MarkFates ==
    ASSUME TypeOK, NEW u \in Uploads, NEW st \in SessionStatus, Mark(u, st)
    PROVE  /\ \A v \in Uploads \ {u} : session'[v] = session[v]
           /\ session'[u] \in {session[u], st}
BY DEF Mark, Transition, TypeOK

\* A task of idx_bot keeps the invariant: it commits only a claimed row, and announces
\* only what it committed.
LEMMA TaskKeeps ==
    ASSUME TypeOK, IndexingInv, [Next]_vars, NEW u \in Uploads, TaskStep(u), ~Commit(u)
    PROVE  IndexingInv'
<1>0. /\ UNCHANGED <<up, idx>> /\ idx = "work"
      /\ \A v \in Uploads \ {u} : task'[v] = task[v]
      /\ spoilt => spoilt'
      /\ faults \in Nat /\ faults' \in Nat /\ faults' >= faults
      /\ \A v \in Uploads : RowInv(v)
      /\ ReadyMeansCoded /\ JoinedInv /\ FaultInv
  BY TaskFrame, FaultsGrow, IndexingAssumption DEF IndexingInv, TypeOK
<1>1. CASE Prepare(u) \/ Begin(u)
  <2>1. /\ task[u] \in {"prepare", "begin"} /\ row[u] = "claimed"
        /\ task'[u] \in {"begin", "write", "release"}
        /\ UNCHANGED <<row, session, spoilt, joined, exposed, reopened>>
    BY <1>0, <1>1 DEF Prepare, Begin, TaskGoto, TypeOK, connVars, codeVars, RowInv, Writers
  <2>2. ReadyMeansCoded' /\ FaultInv'
    BY <1>0, <2>1 DEF ReadyMeansCoded, FaultInv
  <2>3. ASSUME NEW v \in Uploads PROVE RowInv(v)'
    <3>1. CASE v = u
      <4>1. session[u] \in Told => spoilt
        BY <1>0, <2>1 DEF ReadyMeansCoded, Told
      <4> QED
        BY <1>0, <2>1, <3>1, <4>1 DEF RowInv, Writers, Coded
    <3>2. CASE v # u
      BY <1>0, <2>1, <3>2 DEF RowInv
    <3> QED
      BY <3>1, <3>2
  <2>4. JoinedInv'
    BY <1>0, <2>1 DEF JoinedInv
  <2> QED
    BY <2>2, <2>3, <2>4 DEF IndexingInv
<1>2. CASE Tell(u) \/ Park(u) \/ MarkManifested(u) \/ MarkReady(u) \/ MarkFailed(u)
  <2>1. /\ UNCHANGED <<row, joined, exposed, reopened>>
        /\ \/ task[u] \in Coded /\ task'[u] \in Coded \cup {"none"}
           \/ task[u] = "failed" /\ task'[u] = "none"
    BY <1>0, <1>2
    DEF Tell, Park, MarkManifested, MarkReady, MarkFailed, TaskGoto, TypeOK, connVars, codeVars,
        Coded
  <2>2. /\ \A v \in Uploads \ {u} : session'[v] = session[v]
        /\ session'[u] \in Told => session'[u] = session[u] \/ task[u] \in Coded
    <3>1. CASE Tell(u) \/ Park(u)
      BY <3>1 DEF Tell, Park
    <3>2. CASE MarkManifested(u) \/ MarkReady(u)
      BY <3>2, MarkFates DEF MarkManifested, MarkReady, SessionStatus, Coded
    <3>3. CASE MarkFailed(u)
      BY <3>3, MarkFates DEF MarkFailed, SessionStatus, Told
    <3> QED
      BY <1>2, <3>1, <3>2, <3>3
  <2>3. ReadyMeansCoded'
    <3>1. ASSUME NEW v \in Uploads PROVE session'[v] \in Told => row[v] = "done" \/ spoilt
      BY <1>0, <2>2 DEF ReadyMeansCoded, Told, RowInv
    <3> QED
      BY <1>0, <2>1, <3>1 DEF ReadyMeansCoded, Told
  <2>4. ASSUME NEW v \in Uploads PROVE RowInv(v)'
    <3>1. CASE v = u
      BY <1>0, <2>1, <3>1 DEF RowInv, Writers, Coded
    <3>2. CASE v # u
      BY <1>0, <2>1, <2>2, <3>2 DEF RowInv
    <3> QED
      BY <3>1, <3>2
  <2>5. JoinedInv' /\ FaultInv'
    BY <1>0, <2>1 DEF JoinedInv, FaultInv, Coded
  <2> QED
    BY <2>3, <2>4, <2>5 DEF IndexingInv
<1>3. CASE ReleaseRow(u)
  <2>1. /\ task[u] = "release" /\ task'[u] = "failed"
        /\ row[u] \in {"claimed", "done"}
        /\ UNCHANGED <<session, exposed>>
        /\ session[u] \in Told => spoilt
        /\ row[u] = "done" => faults > 0
    BY <1>0, <1>3 DEF ReleaseRow, TaskGoto, TypeOK, RowInv
  <2>2. /\ \A v \in Uploads \ {u} : row'[v] = row[v]
        /\ \/ /\ row'[u] = "free"
              /\ reopened' = IF row[u] = "done" THEN reopened \cup {u} ELSE reopened
              /\ \/ joined' = joined
                 \/ joined' = joined \cup {<<u, row[u]>>} /\ Writing # {}
           \/ row'[u] = row[u] /\ UNCHANGED <<reopened, joined>>
    BY <1>3 DEF ReleaseRow, TypeOK
  <2>3. ReadyMeansCoded'
    BY <1>0, <2>1, <2>2 DEF ReadyMeansCoded, Told
  <2>4. ASSUME NEW v \in Uploads PROVE RowInv(v)'
    <3>1. CASE v = u
      <4>1. up[u] \notin BeforeRow
        BY <1>0, <2>1 DEF RowInv
      <4> QED
        BY <1>0, <2>1, <2>2, <3>1, <4>1 DEF RowInv, Writers, Coded
    <3>2. CASE v # u
      BY <1>0, <2>1, <2>2, <3>2 DEF RowInv
    <3> QED
      BY <3>1, <3>2
  <2>5. FaultInv'
    BY <1>0, <2>1, <2>2 DEF FaultInv
  <2>6. joined' # {} => \E v \in Uploads : task'[v] = "write"
    <3>1. joined' # {} => \E v \in Uploads : task[v] = "write"
      BY <1>0, <2>2 DEF JoinedInv, Writing
    <3> QED
      BY <1>0, <2>1, <3>1
  <2>7. ASSUME NEW v \in Uploads, NEW s \in RowStatus, <<v, s>> \in joined'
        PROVE  /\ task'[v] \in {"failed", "none"}
               /\ row'[v] = "free"
               /\ s = "done" => v \in reopened'
    <3>1. CASE <<v, s>> \in joined
      <4>1. v # u
        BY <1>0, <2>1, <3>1 DEF JoinedInv
      <4> QED
        BY <1>0, <2>2, <3>1, <4>1 DEF JoinedInv
    <3>2. CASE <<v, s>> \notin joined
      <4>1. v = u /\ s = row[u] /\ row'[u] = "free"
        BY <2>2, <2>7, <3>2
      <4> QED
        BY <2>1, <2>2, <3>2, <2>7, <4>1
    <3> QED
      BY <3>1, <3>2
  <2> QED
    BY <2>3, <2>4, <2>5, <2>6, <2>7 DEF IndexingInv, JoinedInv
<1> QED
  BY <1>1, <1>2, <1>3 DEF TaskStep

\* The loop of idx_bot, the crashes and /start keep the invariant.
LEMMA OtherKeeps ==
    ASSUME TypeOK, IndexingInv, [Next]_vars,
           \/ LoopStep \/ UpCrash \/ IdxCrash
           \/ \E u \in Uploads : StartStep(u)
    PROVE  IndexingInv'
<1>0. /\ \A v \in Uploads : RowInv(v)
      /\ ReadyMeansCoded /\ JoinedInv /\ FaultInv
      /\ faults \in Nat /\ faults' \in Nat /\ faults' >= faults
  BY FaultsGrow, IndexingAssumption DEF IndexingInv, TypeOK
<1>1. CASE \/ WakeUp \/ LoseWakeUp \/ ClaimNothing \/ Gathered \/ UpCrash
           \/ \E u \in Uploads : StartStep(u)
  <2>1. /\ UNCHANGED <<session, row, task, joined, spoilt, reopened>>
        /\ exposed' = exposed \/ exposed' = {}
        /\ idx' # "work" => \A v \in Uploads : task[v] = "none"
        /\ \A v \in Uploads : up'[v] \in BeforeRow => up[v] \in BeforeRow
    <3>1. CASE WakeUp \/ LoseWakeUp \/ ClaimNothing
      BY <1>0, <3>1 DEF WakeUp, TakeNotices, LoseWakeUp, ClaimNothing, RowInv, connVars, codeVars
    <3>2. CASE Gathered
      BY <3>2 DEF Gathered, codeVars
    <3>3. CASE UpCrash
      BY <1>0, <3>3 DEF UpCrash, RowInv, BeforeRow, idxVars, connVars, codeVars
    <3>4. ASSUME NEW u \in Uploads, StartStep(u)
          PROVE  UNCHANGED <<session, row, up, idxVars, reopened>>
      BY <3>4 DEF StartStep, SendParked, QueueDelete, DeleteParked
    <3> QED
      BY <1>0, <1>1, <3>1, <3>2, <3>3, <3>4 DEF idxVars, connVars, RowInv
  <2>2. ReadyMeansCoded' /\ JoinedInv' /\ FaultInv'
    BY <1>0, <2>1 DEF ReadyMeansCoded, JoinedInv, FaultInv
  <2>3. ASSUME NEW v \in Uploads PROVE RowInv(v)'
    BY <1>0, <2>1 DEF RowInv
  <2> QED
    BY <2>2, <2>3 DEF IndexingInv
<1>2. CASE ResetStale \/ Claim
  <2>1. /\ \A v \in Uploads : task[v] = "none"
        /\ joined = {} /\ idx # "work"
    BY <1>0, <1>2 DEF ResetStale, Claim, RowInv, JoinedInv
  <2>2. /\ UNCHANGED <<session, up, joined, exposed, spoilt, reopened>>
        /\ \A v \in Uploads : \/ row'[v] = row[v] /\ task'[v] = "none"
                              \/ row[v] = "claimed" /\ row'[v] = "free" /\ task'[v] = "none"
                              \/ /\ row[v] = "free" /\ row'[v] = "claimed"
                                 /\ task'[v] = "prepare" /\ idx' = "work"
    BY <2>1, <1>2 DEF ResetStale, Claim, Claimable, connVars, codeVars, TypeOK
  <2>3. ReadyMeansCoded' /\ FaultInv'
    BY <1>0, <2>2 DEF ReadyMeansCoded, FaultInv
  <2>4. JoinedInv'
    BY <2>1, <2>2 DEF JoinedInv
  <2>5. ASSUME NEW v \in Uploads PROVE RowInv(v)'
    BY <1>0, <2>2 DEF RowInv, Writers, Coded
  <2> QED
    BY <2>3, <2>4, <2>5 DEF IndexingInv
<1>3. CASE IdxCrash
  <2>1. /\ UNCHANGED <<session, up, spoilt, reopened>>
        /\ exposed' = {} /\ joined' = {}
        /\ \A v \in Uploads : task'[v] = "none"
    BY <1>3 DEF IdxCrash
  <2>2. \A v \in Uploads : \/ row'[v] = row[v]
                           \/ row[v] = "free" /\ row'[v] \in {"claimed", "done"}
    BY <1>3, WithoutFates DEF IdxCrash
  <2>3. ReadyMeansCoded' /\ JoinedInv' /\ FaultInv'
    BY <1>0, <2>1, <2>2 DEF ReadyMeansCoded, JoinedInv, FaultInv
  <2>4. ASSUME NEW v \in Uploads PROVE RowInv(v)'
    BY <1>0, <2>1, <2>2 DEF RowInv, Writers, Coded
  <2> QED
    BY <2>3, <2>4 DEF IndexingInv
<1> QED
  BY <1>1, <1>2, <1>3 DEF LoopStep

\* The invariant holds in every behaviour.
THEOREM Invariance == Spec => [](TypeOK /\ IndexingInv)
<1>1. Init => IndexingInv
  BY DEF Init, IndexingInv, RowInv, JoinedInv, FaultInv, ReadyMeansCoded, Writers, Coded
<1>2. TypeOK /\ IndexingInv /\ [Next]_vars => IndexingInv'
  <2> SUFFICES ASSUME TypeOK, IndexingInv, [Next]_vars PROVE IndexingInv'
    OBVIOUS
  <2>1. CASE Next
    BY <2>1, UpKeeps, CommitKeeps, TaskKeeps, OtherKeeps DEF Next
  <2>2. CASE UNCHANGED vars
    BY <2>2 DEF IndexingInv, RowInv, JoinedInv, FaultInv, ReadyMeansCoded, vars, idxVars, connVars,
                codeVars
  <2> QED
    BY <2>1, <2>2
<1> QED
  BY <1>1, <1>2, TypeCorrect, PTL DEF Spec

\* MANIFESTED and READY are only ever said of an upload whose row is completed, unless a
\* failed call was swallowed among overlapping transactions.
THEOREM ReadyIsTrue == Spec => []ReadyMeansCoded
<1>1. IndexingInv => ReadyMeansCoded
  BY DEF IndexingInv
<1> QED
  BY <1>1, Invariance, PTL

-----------------------------------------------------------------------------
(* What becomes of rows and codes.                                         *)

Recorded == {u \in Uploads : row[u] # "none"}
Opened   == [u \in Uploads |-> IF u \in reopened THEN 1 ELSE Done(u)]
Bit(b)   == IF b THEN 1 ELSE 0

\* Apart from the end of a transaction, fail_pending_upload and a crash of idx_bot nothing
\* completes a row or reopens a completed one, writes a code, or exposes a task.
LEMMA QuietSteps ==
    ASSUME TypeOK, IndexingInv, [Next]_vars, ~IdxCrash,
           \A u \in Uploads : ~Commit(u) /\ ~ReleaseRow(u)
    PROVE  /\ UNCHANGED <<codes, reopened>>
           /\ exposed' \subseteq exposed
           /\ \A v \in Uploads :
                /\ row'[v] = "done" <=> row[v] = "done"
                /\ task'[v] = "release" /\ row[v] = "done" => task[v] = "release"
           /\ (\A u \in Uploads : ~RecordLocal(u)) =>
                  \A v \in Uploads : row'[v] = "none" <=> row[v] = "none"
<1>0. \A v \in Uploads : RowInv(v)
  BY DEF IndexingInv
<1>1. ASSUME NEW u \in Uploads, UpStep(u) \/ ChooseOptions(u)
      PROVE  /\ UNCHANGED <<codes, reopened, exposed, task>>
             /\ \A v \in Uploads : row'[v] = "done" <=> row[v] = "done"
             /\ ~RecordLocal(u) => UNCHANGED row
  <2>1. CASE RecordLocal(u)
    BY <1>1, <2>1, UpFrame, RecordFates DEF idxVars, connVars, codeVars, TypeOK
  <2>2. CASE ~RecordLocal(u)
    BY <1>1, <2>2, UpFrame DEF idxVars, connVars, codeVars
  <2> QED
    BY <2>1, <2>2
<1>2. ASSUME NEW u \in Uploads, TaskStep(u)
      PROVE  /\ UNCHANGED <<codes, reopened, exposed, row>>
             /\ \A v \in Uploads : task'[v] = "release" /\ row[v] = "done" => task[v] = "release"
  <2>1. UNCHANGED <<codes, reopened, exposed, row>>
    BY <1>2 DEF TaskStep, Prepare, Begin, Tell, Park, MarkManifested, MarkReady, MarkFailed,
                connVars, codeVars
  <2>2. \A v \in Uploads \ {u} : task'[v] = task[v]
    BY <1>2, TaskFrame
  <2>3. task'[u] = "release" => task[u] \in Writers
    BY <1>2 DEF TaskStep, Prepare, Begin, Tell, Park, MarkManifested, MarkReady, MarkFailed,
                TaskGoto, TypeOK, Writers
  <2> QED
    BY <1>0, <2>1, <2>2, <2>3 DEF RowInv
<1>3. CASE LoopStep \/ UpCrash
  <2>1. /\ UNCHANGED <<codes, reopened>> /\ exposed' \subseteq exposed
        /\ \A v \in Uploads : row'[v] \in {row[v]} \/ {row[v], row'[v]} = {"free", "claimed"}
    BY <1>3 DEF LoopStep, WakeUp, LoseWakeUp, ResetStale, Claim, Claimable, ClaimNothing, Gathered,
                UpCrash, idxVars, connVars, codeVars, TypeOK
  <2>2. \A v \in Uploads : task'[v] \in {task[v], "prepare"}
    BY <1>3 DEF LoopStep, WakeUp, LoseWakeUp, ResetStale, Claim, ClaimNothing, Gathered,
                UpCrash, idxVars, TypeOK
  <2> QED
    BY <2>1, <2>2
<1>4. ASSUME NEW u \in Uploads, StartStep(u)
      PROVE  UNCHANGED <<codes, reopened, exposed, row, task>>
  BY <1>4 DEF StartStep, SendParked, QueueDelete, DeleteParked, idxVars, connVars
<1>5. CASE UNCHANGED vars
  BY <1>5 DEF vars, idxVars, connVars, codeVars
<1> QED
  BY <1>1, <1>2, <1>3, <1>4, <1>5 DEF Next

\* fail_pending_upload gives back its own row at most, and remembers a completed one.
LEMMA ReleaseFates ==
    ASSUME TypeOK, IndexingInv, NEW u \in Uploads, ReleaseRow(u)
    PROVE  /\ task[u] = "release" /\ row[u] \in {"claimed", "done"}
           /\ UNCHANGED <<codes, exposed>>
           /\ \A v \in Uploads \ {u} : row'[v] = row[v] /\ task'[v] = task[v]
           /\ task'[u] = "failed"
           /\ \/ /\ row'[u] = "free"
                 /\ reopened' = IF row[u] = "done" THEN reopened \cup {u} ELSE reopened
              \/ /\ row'[u] = row[u] /\ reopened' = reopened
                 /\ row[u] = "done" => spoilt' \/ faults' = faults + 1
BY DEF ReleaseRow, TaskGoto, Fails, TypeOK, IndexingInv, RowInv

\* A crash of idx_bot undoes what was given back in the transaction it interrupts.
LEMMA CrashFates ==
    ASSUME TypeOK, IndexingInv, IdxCrash
    PROVE  /\ UNCHANGED <<codes, reopened>> /\ exposed' = {}
           /\ \A v \in Uploads :
                /\ task'[v] = "none"
                /\ row'[v] = row[v] \/ Reverts(v)
BY WithoutFates DEF IdxCrash, Reverts

\* Every code without a completed row, and every completed row without a code, has a
\* failed call of its own: one that failed in the transaction, or one whose transaction
\* was mixed with it, or one after which a completed row is given back.
CodesInv(u) ==
    /\ codes[u] + Bit(u \in exposed) + Bit(task[u] = "release" /\ row[u] = "done")
          <= Done(u) + faults
    /\ codes[u] < Done(u) => faults > 0

LEMMA CodesStep ==
    ASSUME TypeOK, TypeOK', IndexingInv, [Next]_vars, NEW v \in Uploads, CodesInv(v)
    PROVE  CodesInv(v)'
<1>0. /\ faults \in Nat /\ faults' \in Nat /\ faults' >= faults
      /\ codes[v] \in Nat /\ codes'[v] \in Nat
      /\ FaultInv
  BY FaultsGrow, IndexingAssumption DEF TypeOK, IndexingInv
<1> USE DEF Bit, Done
<1>1. CASE ~IdxCrash /\ \A u \in Uploads : ~Commit(u) /\ ~ReleaseRow(u)
  <2>1. /\ codes'[v] = codes[v]
        /\ v \in exposed' => v \in exposed
        /\ row'[v] = "done" <=> row[v] = "done"
        /\ task'[v] = "release" /\ row'[v] = "done" => task[v] = "release"
    BY <1>1, QuietSteps
  <2> QED
    BY <1>0, <2>1 DEF CodesInv
<1>2. ASSUME NEW u \in Uploads, ReleaseRow(u) PROVE CodesInv(v)'
  <2>1. CASE v = u
    BY <1>0, <1>2, <2>1, ReleaseFates DEF CodesInv
  <2>2. CASE v # u
    BY <1>0, <1>2, <2>2, ReleaseFates DEF CodesInv
  <2> QED
    BY <2>1, <2>2
<1>3. CASE IdxCrash
  <2>1. /\ codes'[v] = codes[v] /\ exposed' = {} /\ task'[v] = "none"
        /\ row'[v] = row[v] \/ Reverts(v)
    BY <1>3, CrashFates
  <2>2. Reverts(v) => row[v] = "free" /\ (row'[v] = "claimed" \/ faults > 0)
    BY <1>0 DEF Reverts, FaultInv
  <2> QED
    BY <1>0, <2>1, <2>2 DEF CodesInv
<1>4. ASSUME NEW u \in Uploads, Commit(u) PROVE CodesInv(v)'
  <2>1. CASE v = u
    <3>1. task[v] = "write" /\ row[v] = "claimed"
      BY <1>4, <2>1, CommitFates
    <3>2. codes[v] + Bit(v \in exposed) <= faults
      BY <1>0, <3>1 DEF CodesInv
    <3>3. CASE CommitWorks(v)
      BY <1>0, <3>2, <3>3 DEF CommitWorks, CodesInv
    <3>4. CASE CommitFails(v)
      BY <1>0, <3>2, <3>4 DEF CommitFails, CodesInv
    <3>5. CASE CommitMixed(v)
      <4>1. faults > 0
        BY <1>0, <3>5 DEF CommitMixed, FaultInv
      <4> QED
        BY <1>0, <3>2, <3>5, <4>1 DEF CommitMixed, CodesInv
    <3> QED
      BY <1>4, <2>1, <3>3, <3>4, <3>5, CommitFates
  <2>2. CASE v # u
    <3>1. /\ codes'[v] = codes[v] /\ task'[v] = task[v]
          /\ row'[v] = row[v] \/ Reverts(v)
      BY <1>4, <2>2, CommitFates
    <3>2. (v \in exposed' => v \in exposed) \/ faults' = faults + 1
      BY <1>4, CommitFates DEF CommitWorks, CommitFails, CommitMixed
    <3>3. Reverts(v) => /\ row[v] = "free" /\ (row'[v] = "claimed" \/ faults > 0)
                        /\ task[v] # "release"
      BY <1>0 DEF Reverts, FaultInv
    <3> QED
      BY <1>0, <3>1, <3>2, <3>3 DEF CodesInv
  <2> QED
    BY <2>1, <2>2
<1> QED
  BY <1>1, <1>2, <1>3, <1>4

\* Codes and completed rows differ only by what failed calls account for.
THEOREM CodesHaveRows == Spec => []CodesMatchRows
<1> DEFINE AllCodes == \A u \in Uploads : CodesInv(u)
<1>1. Init => AllCodes
  <2> SUFFICES ASSUME Init, NEW u \in Uploads PROVE CodesInv(u)
    OBVIOUS
  <2>1. /\ codes[u] = 0 /\ faults = 0 /\ Done(u) = 0
        /\ Bit(u \in exposed) = 0
        /\ Bit(task[u] = "release" /\ row[u] = "done") = 0
    BY DEF Init, Bit, Done
  <2> QED
    BY <2>1 DEF CodesInv
<1>2. TypeOK /\ TypeOK' /\ IndexingInv /\ AllCodes /\ [Next]_vars => AllCodes'
  BY CodesStep
<1>3. TypeOK /\ IndexingInv /\ AllCodes => CodesMatchRows
  <2> SUFFICES ASSUME TypeOK, IndexingInv, AllCodes, NEW u \in Uploads
               PROVE  /\ codes[u] <= Done(u) + faults
                      /\ codes[u] < Done(u) => faults > 0
                      /\ u \in reopened => faults > 0
    BY DEF CodesMatchRows
  <2>1. codes[u] \in Nat /\ faults \in Nat /\ Done(u) \in Nat /\ CodesInv(u)
    BY IndexingAssumption DEF TypeOK, Done
  <2>2. u \in reopened => faults > 0
    BY DEF IndexingInv, FaultInv
  <2> QED
    BY <2>1, <2>2 DEF CodesInv, Bit
<1> HIDE DEF AllCodes
<1> QED
  BY <1>1, <1>2, <1>3, TypeCorrect, Invariance, PTL DEF Spec

-----------------------------------------------------------------------------
(* The refinement: recording the row submits the upload, completing it is   *)
(* the effect, and nothing else is visible to OnceOnlyWrites.               *)

\* Recorded uploads and their completion behave as OnceOnlyWrites says: a row is
\* completed at most once and only if it was recorded; it is for good, unless a failed
\* call has it reopened.
THEOREM Refinement == Spec => CompletedOnce
<1>1. Init => Abstract!Init
  BY DEF Init, Abstract!Init, Done
<1>2. TypeOK /\ IndexingInv /\ [Next]_vars => [Abstract!Next]_(Abstract!absVars)
  <2> SUFFICES ASSUME TypeOK, IndexingInv, [Next]_vars
               PROVE  [Abstract!Next]_(Abstract!absVars)
    OBVIOUS
  <2>1. ASSUME Recorded' = Recorded, Opened' = Opened
        PROVE  [Abstract!Next]_(Abstract!absVars)
    BY <2>1 DEF Recorded, Opened, Abstract!absVars
  <2>2. CASE ~IdxCrash /\ \A u \in Uploads : ~Commit(u) /\ ~ReleaseRow(u) /\ ~RecordLocal(u)
    <3>1. Recorded' = Recorded /\ Opened' = Opened
      BY <2>2, QuietSteps DEF Recorded, Opened, Done
    <3> QED
      BY <2>1, <3>1
  <2>3. ASSUME NEW u \in Uploads, RecordLocal(u) PROVE [Abstract!Next]_(Abstract!absVars)
    <3>1. row[u] = "none" /\ (row' = row \/ row' = [row EXCEPT ![u] = "free"])
      BY <2>3, RecordFates
    <3>2. reopened' = reopened
      BY <2>3, UpFrame DEF UpStep, codeVars
    <3>3. u \notin Recorded /\ Opened' = Opened
      BY <3>1, <3>2 DEF Recorded, Opened, Done, TypeOK
    <3>4. Recorded' = Recorded \/ Recorded' = Recorded \cup {u}
      BY <3>1 DEF TypeOK, Recorded
    <3>5. Abstract!Submit(u) \/ UNCHANGED (Abstract!absVars)
      BY <3>3, <3>4 DEF Recorded, Opened, Abstract!Submit, Abstract!absVars
    <3> QED
      BY <3>5 DEF Abstract!Next
  <2>4. ASSUME NEW u \in Uploads, ReleaseRow(u) PROVE [Abstract!Next]_(Abstract!absVars)
    <3>1. Recorded' = Recorded /\ Opened' = Opened
      BY <2>4, ReleaseFates DEF Recorded, Opened, Done
    <3> QED
      BY <2>1, <3>1
  <2>5. CASE IdxCrash
    <3>1. Recorded' = Recorded /\ Opened' = Opened
      BY <2>5, CrashFates DEF Reverts, Recorded, Opened, Done
    <3> QED
      BY <2>1, <3>1
  <2>6. ASSUME NEW u \in Uploads, Commit(u) PROVE [Abstract!Next]_(Abstract!absVars)
    <3>1. /\ row[u] = "claimed" /\ row'[u] \in {"claimed", "done"} /\ reopened' = reopened
          /\ \A v \in Uploads \ {u} : row'[v] = row[v] \/ Reverts(v)
      BY <2>6, CommitFates DEF CommitWorks, CommitFails, CommitMixed
    <3>2. Recorded' = Recorded /\ u \in Recorded
      BY <3>1 DEF Recorded, Reverts
    <3>3. \A v \in Uploads \ {u} : Opened'[v] = Opened[v]
      BY <3>1 DEF Opened, Done, Reverts
    <3>4. Opened'[u] = Opened[u] \/ (Opened[u] = 0 /\ Opened'[u] = 1)
      BY <3>1 DEF Opened, Done
    <3>5. Opened' = Opened \/ (Opened[u] = 0 /\ Opened' = [Opened EXCEPT ![u] = 1])
      BY <3>3, <3>4 DEF Opened
    <3>6. Abstract!TakeEffect(u) \/ UNCHANGED (Abstract!absVars)
      BY <3>2, <3>5 DEF Recorded, Opened, Abstract!TakeEffect, Abstract!absVars
    <3> QED
      BY <3>6 DEF Abstract!Next
  <2> QED
    BY <2>2, <2>3, <2>4, <2>5, <2>6
<1> QED
  BY <1>1, <1>2, Invariance, PTL DEF Spec, CompletedOnce, Abstract!Spec

-----------------------------------------------------------------------------
(* Messages and causes.  A message with the code of an upload may still come *)
(* without any further cause while the code is not announced, and once more  *)
(* while it is parked and /start has not sent it, or while its transaction   *)
(* may be mixed with one that failed.                                        *)

Announcing == {"tell", "retell", "park"}
Waiting(u) == u \in parked \ (reply \cup deleting)

Messages(u) ==
    Bit(row[u] # "done" \/ task[u] = "release") + Bit(task[u] \in Announcing)
        + Bit(Waiting(u)) + Bit(u \in exposed)

Cut(u) == crashes > 0 \/ faults > 1 \/ spoilt \/ (u \in Strangers /\ faults > 0)

\* What LossesHaveCauses asks, what a completed row that is not announced, a task that
\* repeats or parks its message and a parked code that was sent stand for, and the
\* messages that may still come.
Accounted(u) ==
    /\ Silent(u) => Cut(u)
    /\ task[u] \in {"retell", "park"} => u \in Strangers \/ faults > 0
    /\ u \in reply \cup deleting => told[u] > 0
    /\ told[u] + Messages(u) <= 1 + faults + crashes + eager[u]

\* For one upload a step only makes up for itself: what it adds to the messages sent or
\* to come it adds to the failures, the crashes and the codes sent early.
Balanced(u) ==
    told'[u] + Messages(u)' + faults + crashes + eager[u]
        <= told[u] + Messages(u) + faults' + crashes' + eager'[u]

Counting ==
    /\ faults \in Nat /\ crashes \in Nat
    /\ \A u \in Uploads : told[u] \in Nat /\ eager[u] \in Nat /\ Messages(u) \in Nat

LEMMA Counts == TypeOK => Counting
<1> SUFFICES ASSUME TypeOK PROVE Counting
  OBVIOUS
<1>1. faults \in Nat /\ crashes \in Nat
  BY IndexingAssumption DEF TypeOK
<1>2. ASSUME NEW u \in Uploads PROVE told[u] \in Nat /\ eager[u] \in Nat
  BY IndexingAssumption DEF TypeOK
<1>3. ASSUME NEW u \in Uploads PROVE Messages(u) \in Nat
  BY DEF Messages, Bit
<1> QED
  BY <1>1, <1>2, <1>3 DEF Counting

\* Crashes, messages and codes sent early are never taken back.
LEMMA HistoriesGrow ==
    ASSUME TypeOK, [Next]_vars, NEW v \in Uploads
    PROVE  /\ crashes' \in {crashes, crashes + 1}
           /\ told'[v] \in {told[v], told[v] + 1}
           /\ eager'[v] \in {eager[v], eager[v] + 1}
<1> DEFINE G == /\ crashes' \in {crashes, crashes + 1}
                /\ told'[v] \in {told[v], told[v] + 1}
                /\ eager'[v] \in {eager[v], eager[v] + 1}
<1>1. ASSUME NEW u \in Uploads, UpStep(u) \/ ChooseOptions(u) PROVE G
  BY <1>1, UpFrame DEF codeVars, startVars
<1>2. ASSUME NEW u \in Uploads, TaskStep(u) PROVE G
  BY <1>2 DEF TaskStep, Prepare, Begin, Commit, Tell, Park, MarkManifested, MarkReady, ReleaseRow,
              MarkFailed, codeVars, startVars, TypeOK
<1>3. CASE LoopStep \/ UpCrash \/ IdxCrash
  BY <1>3 DEF LoopStep, WakeUp, LoseWakeUp, ResetStale, Claim, ClaimNothing, Gathered, UpCrash,
              IdxCrash, codeVars, startVars
<1>4. ASSUME NEW u \in Uploads, StartStep(u) PROVE G
  BY <1>4 DEF StartStep, SendParked, QueueDelete, DeleteParked, TypeOK
<1>5. CASE UNCHANGED vars
  BY <1>5 DEF vars, codeVars, startVars
<1> QED
  BY <1>1, <1>2, <1>3, <1>4, <1>5 DEF Next

\* For any upload, the end of a transaction only adds what its failure accounts for: the
\* tasks it exposes, and a code that is announced though its row is not completed.
LEMMA CommitBalanced ==
    ASSUME TypeOK, TypeOK', IndexingInv, [Next]_vars, NEW u \in Uploads, Commit(u),
           NEW v \in Uploads
    PROVE  Balanced(v)
<1>0. /\ Counting /\ Counting'
      /\ UNCHANGED <<told, parked, reply, deleting, eager, crashes>>
  BY Counts, CommitFates, IndexingAssumption DEF startVars, Counting, TypeOK, Messages, Bit
<1> DEFINE w == Bit(Waiting(v))
<1>1. w \in Nat /\ Bit(Waiting(v))' = w
  BY <1>0 DEF Waiting, Bit
<1> HIDE DEF w
<1>2. CASE v # u
  <2>1. /\ task'[v] = task[v]
        /\ row'[v] = row[v] \/ Reverts(v)
        /\ faults' = faults + 1 \/ (faults' = faults /\ (v \in exposed' => v \in exposed))
    BY <1>2, CommitFates DEF CommitWorks, CommitFails, CommitMixed
  <2>2. /\ Messages(v) = Bit(row[v] # "done" \/ task[v] = "release")
                           + Bit(task[v] \in Announcing) + w + Bit(v \in exposed)
        /\ Messages(v)' = Bit(row'[v] # "done" \/ task'[v] = "release")
                           + Bit(task'[v] \in Announcing) + w + Bit(v \in exposed')
    BY <1>1 DEF Messages, w
  <2>3. Bit(row'[v] # "done" \/ task'[v] = "release")
           <= Bit(row[v] # "done" \/ task[v] = "release")
    BY <2>1 DEF Bit, Reverts
  <2> QED
    BY <1>0, <1>1, <2>1, <2>2, <2>3 DEF Balanced, Counting, Bit
<1>3. CASE v = u
  <2>1. task[v] = "write" /\ row[v] = "claimed"
    BY <1>3, CommitFates
  <2>2. /\ Messages(v) = 1 + w + Bit(v \in exposed)
        /\ Messages(v)' = Bit(row'[v] # "done" \/ task'[v] = "release")
                           + Bit(task'[v] \in Announcing) + w + Bit(v \in exposed')
    BY <1>1, <2>1 DEF Messages, Announcing, Bit, w
  <2>3. CASE CommitWorks(v)
    BY <1>0, <1>1, <2>2, <2>3 DEF CommitWorks, Balanced, Counting, Bit, Announcing
  <2>4. CASE CommitFails(v)
    BY <1>0, <1>1, <2>2, <2>4 DEF CommitFails, Balanced, Counting, Bit, Announcing
  <2>5. CASE CommitMixed(v)
    BY <1>0, <1>1, <2>2, <2>5 DEF CommitMixed, Balanced, Counting, Bit, Announcing
  <2> QED
    BY <1>3, <2>3, <2>4, <2>5, CommitFates
<1> QED
  BY <1>2, <1>3

\* A step after which no more messages can come than before.
LEMMA UntouchedBalanced ==
    ASSUME TypeOK, TypeOK', NEW u \in Uploads,
           faults' >= faults, crashes' >= crashes, eager'[u] >= eager[u],
           told'[u] = told[u],
           Waiting(u)' => Waiting(u),
           u \in exposed' => u \in exposed,
           row'[u] # "done" \/ task'[u] = "release" => row[u] # "done" \/ task[u] = "release",
           task'[u] \in Announcing => task[u] \in Announcing
    PROVE  Balanced(u)
<1>1. Counting /\ Counting'
  BY Counts, IndexingAssumption DEF Counting, TypeOK, Messages, Bit
<1>2. /\ Bit(row'[u] # "done" \/ task'[u] = "release")
            <= Bit(row[u] # "done" \/ task[u] = "release")
      /\ Bit(task'[u] \in Announcing) <= Bit(task[u] \in Announcing)
      /\ Bit(Waiting(u))' <= Bit(Waiting(u))
      /\ Bit(u \in exposed') <= Bit(u \in exposed)
  BY DEF Bit
<1>3. Messages(u)' <= Messages(u)
  <2>1. /\ Bit(row[u] # "done" \/ task[u] = "release") \in Nat
        /\ Bit(row'[u] # "done" \/ task'[u] = "release") \in Nat
        /\ Bit(task[u] \in Announcing) \in Nat /\ Bit(task'[u] \in Announcing) \in Nat
        /\ Bit(Waiting(u)) \in Nat /\ Bit(Waiting(u))' \in Nat
        /\ Bit(u \in exposed) \in Nat /\ Bit(u \in exposed') \in Nat
    BY DEF Bit
  <2>2. /\ Messages(u) = Bit(row[u] # "done" \/ task[u] = "release")
               + Bit(task[u] \in Announcing) + Bit(Waiting(u)) + Bit(u \in exposed)
        /\ Messages(u)' = Bit(row'[u] # "done" \/ task'[u] = "release")
               + Bit(task'[u] \in Announcing) + Bit(Waiting(u))' + Bit(u \in exposed')
    BY DEF Messages
  <2> QED
    BY <1>2, <2>1, <2>2
<1> QED
  BY <1>1, <1>3 DEF Balanced, Counting

\* Sending and parking a code, for the upload of the task.
LEMMA TaskBalanced ==
    ASSUME TypeOK, TypeOK', IndexingInv, NEW u \in Uploads, Tell(u) \/ Park(u)
    PROVE  Balanced(u)
<1>0. Counting /\ Counting'
  BY Counts, IndexingAssumption DEF Counting, TypeOK, Messages, Bit
<1>1. /\ UNCHANGED <<row, exposed, reply, deleting, eager, crashes>>
      /\ task[u] \in Announcing /\ task'[u] # "release"
  BY DEF Tell, Park, TaskGoto, TypeOK, Announcing, connVars, startVars
<1> DEFINE a == Bit(row[u] # "done" \/ task[u] = "release") + Bit(u \in exposed)
<1>2. /\ a \in Nat
      /\ Messages(u) = a + 1 + Bit(Waiting(u))
      /\ Messages(u)' = a + Bit(task'[u] \in Announcing) + Bit(Waiting(u))'
  BY <1>1 DEF Messages, Bit, Announcing
<1> HIDE DEF a
<1>3. CASE Tell(u)
  <2>1. /\ parked' = parked
        /\ \/ faults' = faults /\ told'[u] = told[u] + 1 /\ task'[u] = "manifested"
           \/ faults' = faults + 1 /\ told'[u] \in {told[u], told[u] + 1}
           \/ faults' = faults /\ told'[u] = told[u]
    BY <1>3 DEF Tell, TaskGoto, Works, Fails, TypeOK, startVars
  <2>2. Bit(Waiting(u))' = Bit(Waiting(u)) /\ Bit(Waiting(u)) \in Nat
    BY <1>1, <2>1 DEF Waiting, Bit
  <2>3. Bit(task'[u] \in Announcing) \in {0, 1}
        /\ (task'[u] = "manifested" => Bit(task'[u] \in Announcing) = 0)
    BY DEF Bit, Announcing
  <2> QED
    BY <1>0, <1>1, <1>2, <2>1, <2>2, <2>3 DEF Balanced, Counting
<1>4. CASE Park(u)
  <2>1. /\ told' = told /\ task'[u] = "manifested"
        /\ faults' = faults \/ faults' = faults + 1
    BY <1>4 DEF Park, TaskGoto, Works, Fails, TypeOK
  <2>2. /\ Bit(task'[u] \in Announcing) = 0
        /\ Bit(Waiting(u)) \in {0, 1} /\ Bit(Waiting(u))' \in {0, 1}
    BY <2>1 DEF Bit, Announcing
  <2>3. (Waiting(u)' => Waiting(u)) \/ faults' = faults
    BY <1>1, <1>4 DEF Park, Works, Fails, Waiting
  <2> QED
    BY <1>0, <1>1, <1>2, <2>1, <2>2, <2>3 DEF Balanced, Counting
<1> QED
  BY <1>3, <1>4

\* /start, for the upload whose parked code it sends.
LEMMA ParkedBalanced ==
    ASSUME TypeOK, TypeOK', NEW u \in Uploads, StartStep(u)
    PROVE  Balanced(u)
<1>0. Counting /\ Counting'
  BY Counts, IndexingAssumption DEF Counting, TypeOK, Messages, Bit
<1>1. UNCHANGED <<row, task, exposed, crashes>>
  BY DEF StartStep, SendParked, QueueDelete, DeleteParked, idxVars, connVars
<1> DEFINE a == Bit(row[u] # "done" \/ task[u] = "release") + Bit(task[u] \in Announcing)
                  + Bit(u \in exposed)
<1>2. /\ a \in Nat
      /\ Messages(u) = a + Bit(Waiting(u))
      /\ Messages(u)' = a + Bit(Waiting(u))'
  BY <1>1 DEF Messages, Bit
<1>3. Bit(Waiting(u)) \in {0, 1} /\ Bit(Waiting(u))' \in {0, 1}
  BY DEF Bit
<1> HIDE DEF a
<1>4. CASE SendParked(u)
  <2>1. /\ told'[u] = told[u] + 1 /\ parked' = parked /\ deleting' = deleting
        /\ u \in parked /\ u \notin reply
        /\ \/ faults' = faults /\ u \in reply'
           \/ faults' = faults + 1 /\ reply' = reply
        /\ \/ u \notin deleting /\ eager' = eager
           \/ u \in deleting /\ eager'[u] = eager[u] + 1
    BY <1>4 DEF SendParked, Works, Fails, TypeOK
  <2>2. CASE u \notin deleting /\ eager' = eager
    <3>1. Bit(Waiting(u)) = 1
      BY <2>1, <2>2 DEF Waiting, Bit
    <3>2. faults' = faults => Bit(Waiting(u))' = 0
      BY <1>0, <2>1 DEF Waiting, Bit, Counting
    <3> QED
      BY <1>0, <1>1, <1>2, <1>3, <2>1, <2>2, <3>1, <3>2 DEF Balanced, Counting
  <2>3. CASE u \in deleting /\ eager'[u] = eager[u] + 1
    <3>1. Bit(Waiting(u)) = 0 /\ Bit(Waiting(u))' = 0
      BY <2>1, <2>3 DEF Waiting, Bit
    <3> QED
      BY <1>0, <1>1, <1>2, <2>1, <2>3, <3>1 DEF Balanced, Counting
  <2> QED
    BY <2>1, <2>2, <2>3
<1>5. CASE QueueDelete(u) \/ DeleteParked(u)
  <2>1. /\ told' = told /\ eager' = eager
        /\ faults' = faults \/ faults' = faults + 1
    BY <1>5 DEF QueueDelete, DeleteParked, Works, Fails
  <2>2. (Waiting(u)' => Waiting(u)) \/ faults' = faults + 1
    BY <1>5 DEF QueueDelete, DeleteParked, Works, Fails, Waiting
  <2>3. Bit(Waiting(u))' <= Bit(Waiting(u)) \/ faults' = faults + 1
    BY <2>2 DEF Bit
  <2> QED
    BY <1>0, <1>1, <1>2, <1>3, <2>1, <2>3 DEF Balanced, Counting
<1> QED
  BY <1>4, <1>5 DEF StartStep

\* idx_bot dies: its tasks are gone, and what /start sent it may send again.
LEMMA CrashBalanced ==
    ASSUME TypeOK, TypeOK', IndexingInv, NEW u \in Uploads, IdxCrash
    PROVE  Balanced(u)
<1>0. Counting /\ Counting'
  BY Counts, IndexingAssumption DEF Counting, TypeOK, Messages, Bit
<1>1. /\ crashes' = crashes + 1
      /\ UNCHANGED <<told, parked, eager, faults>>
  BY DEF IdxCrash
<1>2. /\ Bit(row'[u] # "done" \/ task'[u] = "release")
            <= Bit(row[u] # "done" \/ task[u] = "release")
      /\ Bit(task'[u] \in Announcing) = 0
      /\ Bit(u \in exposed') = 0
  BY CrashFates DEF Bit, Reverts, Announcing
<1>3. Bit(Waiting(u)) \in Nat /\ Bit(Waiting(u))' \in {0, 1}
  BY DEF Bit
<1>4. /\ Bit(row[u] # "done" \/ task[u] = "release") \in Nat
      /\ Bit(row'[u] # "done" \/ task'[u] = "release") \in Nat
      /\ Bit(task[u] \in Announcing) \in Nat
      /\ Bit(u \in exposed) \in Nat
  BY DEF Bit
<1>5. Messages(u)' <= Messages(u) + 1
  <2>1. /\ Messages(u) = Bit(row[u] # "done" \/ task[u] = "release")
               + Bit(task[u] \in Announcing) + Bit(Waiting(u)) + Bit(u \in exposed)
        /\ Messages(u)' = Bit(row'[u] # "done" \/ task'[u] = "release")
               + Bit(task'[u] \in Announcing) + Bit(Waiting(u))' + Bit(u \in exposed')
    BY DEF Messages
  <2> QED
    BY <1>2, <1>3, <1>4, <2>1
<1> QED
  BY <1>0, <1>1, <1>5 DEF Balanced, Counting

LEMMA StepBalanced ==
    ASSUME TypeOK, TypeOK', IndexingInv, [Next]_vars, NEW v \in Uploads
    PROVE  Balanced(v)
<1>0. /\ faults' >= faults /\ crashes' >= crashes /\ eager'[v] >= eager[v]
      /\ RowInv(v)
  BY FaultsGrow, HistoriesGrow, IndexingAssumption DEF TypeOK, IndexingInv
<1>1. ASSUME NEW u \in Uploads, UpStep(u) \/ ChooseOptions(u) PROVE Balanced(v)
  <2>1. UNCHANGED <<told, parked, reply, deleting, task, exposed>>
    BY <1>1, UpFrame DEF idxVars, connVars, codeVars, startVars
  <2>2. row'[v] = "done" <=> row[v] = "done"
    <3>1. CASE RecordLocal(u)
      BY <3>1, RecordFates DEF TypeOK
    <3>2. CASE ~RecordLocal(u)
      BY <1>1, <3>2, UpFrame
    <3> QED
      BY <3>1, <3>2
  <2> QED
    BY <1>0, <2>1, <2>2, UntouchedBalanced DEF Waiting
<1>2. ASSUME NEW u \in Uploads, Tell(u) \/ Park(u), v # u PROVE Balanced(v)
  <2>1. /\ told'[v] = told[v] /\ task'[v] = task[v] /\ row'[v] = row[v]
        /\ UNCHANGED <<reply, deleting, exposed>>
        /\ v \in parked' <=> v \in parked
    BY <1>2 DEF Tell, Park, TaskGoto, TypeOK, connVars, startVars
  <2> QED
    BY <1>0, <2>1, UntouchedBalanced DEF Waiting
<1>3. ASSUME NEW u \in Uploads,
             \/ Prepare(u) \/ Begin(u) \/ MarkManifested(u) \/ MarkReady(u) \/ MarkFailed(u)
      PROVE  Balanced(v)
  <2>1. UNCHANGED <<told, parked, reply, deleting, row, exposed>>
    BY <1>3 DEF Prepare, Begin, MarkManifested, MarkReady, MarkFailed, connVars, codeVars, startVars
  <2>2. /\ task'[v] = "release" => task[v] = "release" \/ task[v] \in Writers
        /\ task'[v] \in Announcing => task[v] \in Announcing
    BY <1>3 DEF Prepare, Begin, MarkManifested, MarkReady, MarkFailed, TaskGoto, TypeOK, Announcing,
                Writers
  <2> QED
    BY <1>0, <2>1, <2>2, UntouchedBalanced DEF Waiting, RowInv
<1>4. ASSUME NEW u \in Uploads, ReleaseRow(u) PROVE Balanced(v)
  <2>1. UNCHANGED <<told, parked, reply, deleting, exposed>>
    BY <1>4 DEF ReleaseRow, startVars
  <2>2. /\ \/ row'[v] = row[v] /\ task'[v] = task[v]
           \/ task[v] = "release" /\ task'[v] = "failed"
    BY <1>4, ReleaseFates
  <2> QED
    BY <1>0, <2>1, <2>2, UntouchedBalanced DEF Waiting, Announcing
<1>5. CASE LoopStep \/ UpCrash
  <2>1. /\ UNCHANGED <<told, parked, reply, deleting>>
        /\ exposed' \subseteq exposed
        /\ row'[v] = "done" <=> row[v] = "done"
        /\ task'[v] \in {task[v], "prepare"}
    BY <1>5 DEF LoopStep, WakeUp, LoseWakeUp, ResetStale, Claim, Claimable, ClaimNothing, Gathered,
       UpCrash, idxVars, connVars, codeVars, startVars, TypeOK
  <2> QED
    BY <1>0, <2>1, UntouchedBalanced DEF Waiting, Announcing
<1>6. ASSUME NEW u \in Uploads, u # v, StartStep(u) PROVE Balanced(v)
  <2>1. /\ told'[v] = told[v] /\ (v \in parked' <=> v \in parked)
        /\ (v \in reply' <=> v \in reply) /\ (v \in deleting' <=> v \in deleting)
        /\ UNCHANGED <<row, task, exposed>>
    BY <1>6 DEF StartStep, SendParked, QueueDelete, DeleteParked, idxVars, connVars, TypeOK
  <2> QED
    BY <1>0, <2>1, UntouchedBalanced DEF Waiting
<1>7. CASE UNCHANGED vars
  BY <1>0, <1>7, UntouchedBalanced DEF vars, idxVars, connVars, codeVars, startVars, Waiting
<1> QED
  BY <1>1, <1>2, <1>3, <1>4, <1>5, <1>6, <1>7, CommitBalanced, TaskBalanced, ParkedBalanced,
     CrashBalanced
  DEF Next, TaskStep

\* A code that has been cut off by something stays cut off by it.
LEMMA CutGrows ==
    ASSUME TypeOK, TypeOK', IndexingInv, [Next]_vars, NEW u \in Uploads, Cut(u)
    PROVE  Cut(u)'
<1>1. /\ faults \in Nat /\ faults' \in Nat /\ faults' >= faults
      /\ crashes \in Nat /\ crashes' \in {crashes, crashes + 1}
  BY FaultsGrow, HistoriesGrow, IndexingAssumption DEF TypeOK
<1>2. spoilt => spoilt'
  <2>1. ASSUME NEW v \in Uploads, UpStep(v) \/ ChooseOptions(v) PROVE spoilt' = spoilt
    BY <2>1, UpFrame DEF idxVars, connVars
  <2>2. CASE LoopStep \/ UpCrash \/ IdxCrash
    BY <2>2 DEF LoopStep, WakeUp, LoseWakeUp, ResetStale, Claim, ClaimNothing, Gathered, UpCrash,
                IdxCrash, idxVars, connVars
  <2>3. ASSUME NEW v \in Uploads, StartStep(v) PROVE spoilt' = spoilt
    BY <2>3 DEF StartStep, SendParked, QueueDelete, DeleteParked, idxVars, connVars
  <2>4. CASE UNCHANGED vars
    BY <2>4 DEF vars, idxVars, connVars
  <2> QED
    BY <2>1, <2>2, <2>3, <2>4, TaskFrame DEF Next
<1> QED
  BY <1>1, <1>2 DEF Cut

\* A code gets silent only with a cause.
LEMMA SilenceHasCauses ==
    ASSUME TypeOK, TypeOK', IndexingInv, [Next]_vars, NEW v \in Uploads, Accounted(v), Silent(v)'
    PROVE  Cut(v)'
<1>0. /\ faults \in Nat /\ faults' \in Nat /\ faults' >= faults
      /\ crashes \in Nat /\ crashes' \in {crashes, crashes + 1}
      /\ told[v] = 0 /\ row'[v] = "done" /\ v \notin parked'
      /\ task'[v] \notin {"tell", "retell", "park", "release"}
      /\ RowInv(v) /\ FaultInv
  BY FaultsGrow, HistoriesGrow, IndexingAssumption DEF TypeOK, Silent, IndexingInv
<1>1. CASE Silent(v)
  BY <1>1, CutGrows DEF Accounted
<1>2. CASE ~Silent(v)
  <2>0. row[v] # "done" \/ task[v] \in {"tell", "retell", "park", "release"} \/ v \in parked
    BY <1>0, <1>2 DEF Silent
  <2>1. ASSUME NEW u \in Uploads, Commit(u) PROVE Cut(v)'
    <3>1. CASE v = u
      BY <1>0, <2>1, <3>1, CommitFates DEF CommitWorks, CommitFails, CommitMixed
    <3>2. CASE v # u
      <4>1. task'[v] = task[v] /\ parked' = parked /\ (row'[v] = row[v] \/ Reverts(v))
        BY <2>1, <3>2, CommitFates DEF startVars
      <4>2. row'[v] # row[v] /\ faults > 0
        BY <1>0, <2>0, <4>1 DEF Reverts, FaultInv
      <4>3. ~CommitWorks(u)
        BY <3>2, <4>2 DEF CommitWorks, TypeOK
      <4> QED
        BY <1>0, <2>1, <4>2, <4>3, CommitFates DEF CommitFails, CommitMixed, Cut
    <3> QED
      BY <3>1, <3>2
  <2>2. ASSUME NEW u \in Uploads, ReleaseRow(u) PROVE Cut(v)'
    <3>1. parked' = parked
      BY <2>2 DEF ReleaseRow, startVars
    <3>2. v = u
      BY <1>0, <2>0, <2>2, <3>1, ReleaseFates
    <3>3. row[v] = "done" /\ faults > 0 /\ (spoilt' \/ faults' = faults + 1)
      BY <1>0, <2>2, <3>2, ReleaseFates DEF RowInv
    <3> QED
      BY <1>0, <3>3 DEF Cut
  <2>3. ASSUME NEW u \in Uploads, Park(u) PROVE Cut(v)'
    <3>1. row' = row /\ \A w \in Uploads \ {u} : task'[w] = task[w] /\ (w \in parked' <=> w \in parked)
      BY <2>3 DEF Park, TaskGoto, TypeOK
    <3>2. v = u
      BY <1>0, <2>0, <3>1
    <3>3. task[v] = "park" /\ (spoilt' \/ faults' = faults + 1)
      BY <1>0, <2>3, <3>2 DEF Park, Fails
    <3>4. v \in Strangers \/ faults > 0
      BY <3>3 DEF Accounted
    <3> QED
      BY <1>0, <3>3, <3>4 DEF Cut
  <2>4. ASSUME NEW u \in Uploads, Tell(u) PROVE FALSE
    <3>1. /\ row' = row /\ parked' = parked
          /\ \A w \in Uploads \ {u} : task'[w] = task[w]
      BY <2>4 DEF Tell, TaskGoto, TypeOK, startVars
    <3>2. v = u
      BY <1>0, <2>0, <3>1
    <3>3. told'[v] = told[v] + 1 \/ task'[v] \in {"retell", "park"}
      BY <2>4, <3>2 DEF Tell, TaskGoto, TypeOK
    <3> QED
      BY <1>0, <3>3 DEF Silent
  <2>5. CASE IdxCrash
    BY <1>0, <2>5 DEF IdxCrash, Cut
  <2>6. ASSUME NEW u \in Uploads, StartStep(u) PROVE FALSE
    <3>1. /\ UNCHANGED <<row, task>>
          /\ v \in parked => v \in parked' \/ v \in deleting
      BY <2>6 DEF StartStep, SendParked, QueueDelete, DeleteParked, idxVars
    <3>2. v \notin deleting
      BY <1>0 DEF Accounted
    <3> QED
      BY <1>0, <2>0, <3>1, <3>2
  <2>7. ASSUME NEW u \in Uploads, UpStep(u) \/ ChooseOptions(u) PROVE FALSE
    <3>1. UNCHANGED <<task, parked>>
      BY <2>7, UpFrame DEF idxVars, codeVars, startVars
    <3>2. row'[v] = "done" => row[v] = "done"
      <4>1. CASE RecordLocal(u)
        BY <4>1, RecordFates DEF TypeOK
      <4>2. CASE ~RecordLocal(u)
        BY <2>7, <4>2, UpFrame
      <4> QED
        BY <4>1, <4>2
    <3> QED
      BY <1>0, <2>0, <3>1, <3>2
  <2>8. ASSUME NEW u \in Uploads,
               Prepare(u) \/ Begin(u) \/ MarkManifested(u) \/ MarkReady(u) \/ MarkFailed(u)
        PROVE  FALSE
    <3>1. /\ UNCHANGED <<row, parked>>
          /\ task[v] \in {"tell", "retell", "park", "release"} => task'[v] = task[v]
      BY <2>8 DEF Prepare, Begin, MarkManifested, MarkReady, MarkFailed, TaskGoto, TypeOK, codeVars,
                  startVars
    <3> QED
      BY <1>0, <2>0, <3>1
  <2>9. CASE LoopStep \/ UpCrash
    <3>1. /\ UNCHANGED parked
          /\ row'[v] = "done" <=> row[v] = "done"
          /\ task'[v] = task[v] \/ row[v] # "done"
      BY <2>9 DEF LoopStep, WakeUp, LoseWakeUp, ResetStale, Claim, Claimable, ClaimNothing,
                  Gathered, UpCrash, idxVars, codeVars, startVars, TypeOK
    <3> QED
      BY <1>0, <2>0, <3>1
  <2>10. CASE UNCHANGED vars
    BY <1>0, <2>0, <2>10 DEF vars, idxVars, codeVars, startVars
  <2> QED
    BY <2>1, <2>2, <2>3, <2>4, <2>5, <2>6, <2>7, <2>8, <2>9, <2>10 DEF Next, TaskStep
<1> QED
  BY <1>1, <1>2

\* A message is repeated or parked, and a parked code is sent, only with a cause.
LEMMA RepeatsHaveCauses ==
    ASSUME TypeOK, TypeOK', IndexingInv, [Next]_vars, NEW v \in Uploads, Accounted(v)
    PROVE  /\ task'[v] \in {"retell", "park"} => v \in Strangers \/ faults' > 0
           /\ v \in reply' \cup deleting' => told'[v] > 0
<1> DEFINE G == /\ task'[v] \in {"retell", "park"} =>
                       task[v] \in {"retell", "park"} \/ v \in Strangers \/ faults' = faults + 1
                /\ v \in reply' \cup deleting' =>
                       v \in reply \cup deleting \/ told'[v] = told[v] + 1
<1>0. /\ faults \in Nat /\ faults' \in Nat /\ faults' >= faults
      /\ told[v] \in Nat /\ told'[v] \in {told[v], told[v] + 1}
  BY FaultsGrow, HistoriesGrow, IndexingAssumption DEF TypeOK
<1>1. ASSUME NEW u \in Uploads, UpStep(u) \/ ChooseOptions(u) PROVE G
  BY <1>1, UpFrame DEF idxVars, codeVars, startVars
<1>2. ASSUME NEW u \in Uploads, TaskStep(u) PROVE G
  <2>1. UNCHANGED <<reply, deleting>>
    BY <1>2 DEF TaskStep, Prepare, Begin, Commit, Tell, Park, MarkManifested, MarkReady,
                ReleaseRow, MarkFailed, codeVars, startVars
  <2>2. CASE v # u
    BY <1>2, <2>1, <2>2, TaskFrame
  <2>3. CASE v = u /\ Tell(u)
    BY <2>1, <2>3 DEF Tell, TaskGoto, Works, Fails, TypeOK
  <2>4. CASE v = u /\ Commit(u)
    BY <2>1, <2>4, CommitFates DEF CommitWorks, CommitFails, CommitMixed
  <2>5. CASE v = u /\ ~Tell(u) /\ ~Commit(u)
    <3>1. task'[v] \notin {"retell", "park"}
      BY <1>2, <2>5 DEF TaskStep, Prepare, Begin, Park, MarkManifested, MarkReady, ReleaseRow,
                        MarkFailed, TaskGoto, TypeOK
    <3> QED
      BY <2>1, <3>1
  <2> QED
    BY <2>2, <2>3, <2>4, <2>5
<1>3. ASSUME LoopStep \/ UpCrash \/ IdxCrash PROVE G
  <2>1. task'[v] \in {task[v], "prepare", "none"}
    BY <1>3 DEF LoopStep, WakeUp, LoseWakeUp, ResetStale, Claim, ClaimNothing, Gathered, UpCrash,
                IdxCrash, idxVars, TypeOK
  <2>2. reply' \subseteq reply /\ deleting' = deleting
    BY <1>3 DEF LoopStep, WakeUp, LoseWakeUp, ResetStale, Claim, ClaimNothing, Gathered, UpCrash,
                IdxCrash, codeVars, startVars
  <2> QED
    BY <2>1, <2>2
<1>4. ASSUME NEW u \in Uploads, StartStep(u) PROVE G
  <2>1. task' = task
    BY <1>4 DEF StartStep, SendParked, QueueDelete, DeleteParked, idxVars
  <2>2. v \in reply' \cup deleting' => v \in reply \cup deleting \/ told'[v] = told[v] + 1
    BY <1>4 DEF StartStep, SendParked, QueueDelete, DeleteParked, TypeOK
  <2> QED
    BY <2>1, <2>2
<1>5. ASSUME UNCHANGED vars PROVE G
  <2>1. UNCHANGED <<task, reply, deleting>>
    BY <1>5 DEF vars, idxVars, codeVars, startVars
  <2> QED
    BY <2>1
<1> HIDE DEF G
<1>6. G
  BY <1>1, <1>2, <1>3, <1>4, <1>5 DEF Next
<1>7. task'[v] \in {"retell", "park"} => v \in Strangers \/ faults' > 0
  BY <1>0, <1>6 DEF G, Accounted
<1>8. v \in reply' \cup deleting' => told'[v] > 0
  BY <1>0, <1>6 DEF G, Accounted
<1> QED
  BY <1>7, <1>8

\* What is accounted for stays accounted for.
LEMMA StepAccounted ==
    ASSUME TypeOK, IndexingInv, [Next]_vars, NEW u \in Uploads, Accounted(u), TypeOK'
    PROVE  Accounted(u)'
<1>1. Counting /\ Counting'
  <2>1. Counting
    BY Counts
  <2>2. faults' \in Nat /\ crashes' \in Nat
    BY IndexingAssumption DEF TypeOK
  <2>3. ASSUME NEW v \in Uploads
        PROVE  told'[v] \in Nat /\ eager'[v] \in Nat /\ Messages(v)' \in Nat
    <3>1. Messages(v)' \in Nat
      BY DEF Messages, Bit
    <3>2. told'[v] \in Nat /\ eager'[v] \in Nat
      BY IndexingAssumption DEF TypeOK
    <3> QED
      BY <3>1, <3>2
  <2> QED
    BY <2>1, <2>2, <2>3 DEF Counting
<1>2. told'[u] + Messages(u)' <= 1 + faults' + crashes' + eager'[u]
  BY <1>1, StepBalanced DEF Balanced, Accounted, Counting
<1>3. Silent(u)' => Cut(u)'
  BY SilenceHasCauses
<1> QED
  BY <1>2, <1>3, RepeatsHaveCauses DEF Accounted

\* A code that was neither sent nor parked was cut off by a crash, by a failed or refused
\* send and a failed parking, or among overlapping transactions, and every message too
\* many has a failure, a crash or a queued delete of its own.
THEOREM LossesExplained == Spec => []LossesHaveCauses
<1> DEFINE AllAccounted == \A u \in Uploads : Accounted(u)
<1>1. Init => AllAccounted
  <2> SUFFICES ASSUME Init, NEW u \in Uploads PROVE Accounted(u)
    OBVIOUS
  <2>1. /\ ~Silent(u) /\ task[u] = "none" /\ u \notin reply /\ u \notin deleting
        /\ told[u] = 0 /\ faults = 0 /\ crashes = 0 /\ eager[u] = 0
    BY DEF Init, Silent
  <2>2. Messages(u) = 1
    BY DEF Init, Messages, Announcing, Waiting, Bit
  <2> QED
    BY <2>1, <2>2 DEF Accounted
<1>2. TypeOK /\ IndexingInv /\ AllAccounted /\ [Next]_vars /\ TypeOK' => AllAccounted'
  <2> SUFFICES ASSUME TypeOK, IndexingInv, AllAccounted, [Next]_vars, TypeOK',
                      NEW u \in Uploads
               PROVE  Accounted(u)'
    OBVIOUS
  <2> QED
    BY StepAccounted
<1>3. TypeOK /\ AllAccounted => LossesHaveCauses
  <2> SUFFICES ASSUME TypeOK, AllAccounted, NEW u \in Uploads
               PROVE  /\ Silent(u) => \/ crashes > 0 \/ faults > 1 \/ spoilt
                                      \/ u \in Strangers /\ faults > 0
                      /\ told[u] > 1 => told[u] - 1 <= faults + crashes + eager[u]
    BY DEF LossesHaveCauses
  <2>1. Accounted(u) /\ Counting
    BY Counts
  <2> QED
    BY <2>1 DEF Accounted, Cut, Counting
<1> HIDE DEF AllAccounted
<1> QED
  BY <1>1, <1>2, <1>3, TypeCorrect, Invariance, PTL DEF Spec
=============================================================================
