-------------------------- MODULE EventOutboxProofs --------------------------
(***************************************************************************)
(* Theorems about EventOutbox, for any set of events and workers and any   *)
(* bounds: types, finality of settled events, completion by the holder of  *)
(* the present lease only, the grounds of every compensation intent, and   *)
(* the causes of every repeated call.                                      *)
(***************************************************************************)
EXTENDS EventOutbox, FiniteSetTheorems, TLAPS

-----------------------------------------------------------------------------
(* Types.                                                                  *)

\* A step of a worker that has an event in its hands.
Busy == {"calling", "returned", "raised", "retrying", "giving up", "buried"}

\* A busy worker has a job, which is why row[job[w].event] makes sense.
Working == \A w \in Workers : pc[w] \in Busy => job[w] \in Jobs

Typed == TypeOK /\ Working

\* What the helpers make of a typed row is a typed row.
LEMMA RowHelpers ==
    ASSUME NEW r \in Rows
    PROVE  /\ Freed(r) \in Rows
           /\ Renewed(r) \in Rows
           /\ [r EXCEPT !.status = "pending"] \in Rows
           /\ [r EXCEPT !.status = "completed"] \in Rows
           /\ [r EXCEPT !.status = "dlq"] \in Rows
           /\ [r EXCEPT !.expired = TRUE] \in Rows
<1>1. Freed(r) \in Rows
  BY DEF Rows, Statuses, Freed
<1>2. Renewed(r) \in Rows
  <2>1. r.version + 1 \in Nat
    BY DEF Rows
  <2>2. [r EXCEPT !.version = r.version + 1] \in Rows
    BY <2>1 DEF Rows
  <2>3. Renewed(r) = [[r EXCEPT !.version = r.version + 1] EXCEPT !.expired = FALSE]
    BY DEF Rows, Renewed
  <2> QED  BY <2>2, <2>3 DEF Rows
<1>3. [r EXCEPT !.status = "pending"] \in Rows
  BY DEF Rows, Statuses
<1>4. [r EXCEPT !.status = "completed"] \in Rows
  BY DEF Rows, Statuses
<1>5. [r EXCEPT !.status = "dlq"] \in Rows
  BY DEF Rows, Statuses
<1>6. [r EXCEPT !.expired = TRUE] \in Rows
  BY DEF Rows
<1> QED  BY <1>1, <1>2, <1>3, <1>4, <1>5, <1>6

\* A counter that goes up stays a counter.
LEMMA CountUp ==
    ASSUME NEW f \in [Events -> Nat], NEW e \in Events
    PROVE  [f EXCEPT ![e] = @ + 1] \in [Events -> Nat]
OBVIOUS

LEMMA InitTyped == Init => Typed
BY OutboxAssumption DEF Init, Typed, TypeOK, Working, Busy, Steps, Rows, Statuses,
   Jobs, NoJob

\* Steps of the rows alone.
LEMMA RowStepTyped ==
    ASSUME Typed, (\E e \in Events : Add(e) \/ Expire(e)) \/ Reclaim
    PROVE  Typed'
<1>1. CASE \E e \in Events : Add(e)
  <2> PICK e \in Events : Add(e)  BY <1>1
  <2> QED  BY RowHelpers DEF Add, Typed, TypeOK, Working, workerVars
<1>2. CASE \E e \in Events : Expire(e)
  <2> PICK e \in Events : Expire(e)  BY <1>2
  <2>1. row' \in [Events -> Rows] /\ causes' \in [Events -> Nat]
    BY RowHelpers, CountUp DEF Expire, Typed, TypeOK
  <2> QED  BY <2>1 DEF Expire, Typed, TypeOK, Working, workerVars
<1>3. CASE Reclaim
  BY <1>3, RowHelpers DEF Reclaim, Typed, TypeOK, Working, workerVars
<1> QED  BY <1>1, <1>2, <1>3

\* Steps of run_once around an event.
LEMMA BatchStepTyped ==
    ASSUME Typed, NEW w \in Workers,
           Claim(w) \/ Fetch(w) \/ Call(w) \/ Bury(w) \/ Finish(w) \/ Abort(w)
    PROVE  Typed'
<1>1. CASE Claim(w)
  <2> PICK S \in SUBSET WithStatus("pending") :
        /\ row' = [e \in Events |->
                      IF e \in S
                      THEN [status |-> "in_flight", owner |-> w, expired |-> FALSE,
                            version |-> row[e].version + 1,
                            attempts |-> row[e].attempts + 1]
                      ELSE row[e]]
        /\ tenures' = [e \in Events |-> tenures[e] + (IF e \in S THEN 1 ELSE 0)]
    BY <1>1 DEF Claim
  <2>1. row' \in [Events -> Rows]
    BY DEF Typed, TypeOK, Rows, Statuses
  <2>2. tenures' \in [Events -> Nat]
    BY DEF Typed, TypeOK
  <2> QED
    BY <1>1, <2>1, <2>2 DEF Claim, Goto, Typed, TypeOK, Working, Busy, Steps
<1>2. CASE Fetch(w)
  <2>1. {[event |-> e, version |-> row[e].version, tenure |-> tenures[e]] :
            e \in HeldBy(w)} \in SUBSET Jobs
    BY DEF HeldBy, WithStatus, Jobs, Typed, TypeOK, Rows
  <2> QED
    BY <1>2, <2>1 DEF Fetch, Goto, Typed, TypeOK, Working, Busy, Steps
<1>3. CASE Call(w)
  <2> PICK j \in batch[w] :
        /\ job' = [job EXCEPT ![w] = j]
        /\ batch' = [batch EXCEPT ![w] = @ \ {j}]
        /\ calls' = [calls EXCEPT ![j.event] = @ + 1]
    BY <1>3 DEF Call
  <2>1. j \in Jobs
    BY DEF Typed, TypeOK
  <2>2. calls' \in [Events -> Nat] /\ batch' \in [Workers -> SUBSET Jobs]
    BY <2>1 DEF Typed, TypeOK, Jobs
  <2> QED
    BY <1>3, <2>1, <2>2 DEF Call, Goto, Typed, TypeOK, Working, Busy, Steps
<1>4. CASE Bury(w)
  <2> PICK j \in batch[w] :
        /\ job' = [job EXCEPT ![w] = j]
        /\ batch' = [batch EXCEPT ![w] = @ \ {j}]
        /\ IF CanMoveToDlq(j.event)
           THEN /\ row' = [row EXCEPT ![j.event].status = "dlq"]
                /\ audit' = audit \cup {j.event}
           ELSE UNCHANGED <<row, audit>>
    BY <1>4 DEF Bury
  <2>1. j \in Jobs /\ j.event \in Events
    BY DEF Typed, TypeOK, Jobs
  <2>2. row' \in [Events -> Rows] /\ audit' \subseteq Events
    <3>1. row \in [Events -> Rows] /\ audit \subseteq Events
      BY DEF Typed, TypeOK
    <3>2. [row EXCEPT ![j.event].status = "dlq"] \in [Events -> Rows]
      BY <2>1, <3>1, RowHelpers
    <3> QED  BY <2>1, <3>1, <3>2
  <2>3. batch' \in [Workers -> SUBSET Jobs]
    BY DEF Typed, TypeOK
  <2> QED
    BY <1>4, <2>1, <2>2, <2>3 DEF Bury, Goto, Typed, TypeOK, Working, Busy, Steps
<1>5. CASE Finish(w)
  BY <1>5 DEF Finish, Goto, Typed, TypeOK, Working, Busy, Steps
<1>6. CASE Abort(w)
  <2>1. faults' \in 0..MaxFaults
    BY <1>6, OutboxAssumption DEF Abort, Typed, TypeOK
  <2>2. causes' \in [Events -> Nat]
    BY <1>6 DEF Abort, Typed, TypeOK
  <2> QED
    BY <1>6, <2>1, <2>2 DEF Abort, Drop, Goto, Typed, TypeOK, Working, Busy, Steps
<1> QED  BY <1>1, <1>2, <1>3, <1>4, <1>5, <1>6

\* Steps of process_event.
LEMMA ProcessTyped ==
    ASSUME Typed, NEW w \in Workers, Process(w)
    PROVE  Typed'
<1>0. /\ pc[w] \in Busy
      /\ job[w] \in Jobs
      /\ job[w].event \in Events
      /\ job[w].version \in Nat
  BY DEF Process, Return, Raise, Renew, RenewCancelled, StopBatch, Complete,
         FailSelect, FailRetry, FailBury, Compensate, Busy, Typed, Working, Jobs
<1>1. row' \in [Events -> Rows]
  <2>1. row \in [Events -> Rows]
    BY DEF Typed, TypeOK
  <2> DEFINE e == job[w].event
  <2>2. /\ [row EXCEPT ![e] = Renewed(@)] \in [Events -> Rows]
        /\ [row EXCEPT ![e] = Freed(@)] \in [Events -> Rows]
        /\ [row EXCEPT ![e].status = "completed"] \in [Events -> Rows]
        /\ [row EXCEPT ![e].status = "dlq"] \in [Events -> Rows]
    BY <1>0, <2>1, RowHelpers
  <2> QED
    BY <2>1, <2>2 DEF Process, Return, Raise, Renew, RenewCancelled, StopBatch,
       Complete, FailSelect, FailRetry, FailBury, Compensate
<1>2. causes' \in [Events -> Nat]
  <2>1. causes \in [Events -> Nat]
    BY DEF Typed, TypeOK
  <2>2. [causes EXCEPT ![job[w].event] = @ + 1] \in [Events -> Nat]
    BY <1>0, <2>1, CountUp
  <2> QED
    BY <2>1, <2>2 DEF Process, Return, Raise, Renew, RenewCancelled, StopBatch,
       Complete, FailSelect, FailRetry, FailBury, Compensate, CauseAgain
<1>3. intents' \subseteq Events
  BY <1>0 DEF Process, Return, Raise, Renew, RenewCancelled, StopBatch, Complete,
         FailSelect, FailRetry, FailBury, Compensate, Typed, TypeOK
<1>4. batch' \in [Workers -> SUBSET Jobs]
  BY DEF Process, Return, Raise, Renew, RenewCancelled, StopBatch, Complete,
         FailSelect, FailRetry, FailBury, Compensate, Drop, Typed, TypeOK
<1>5. /\ pc' \in [Workers -> Steps]
      /\ job' \in [Workers -> Jobs \cup {NoJob}]
      /\ Working'
  <2>1. CASE Return(w) \/ Raise(w) \/ RenewCancelled(w) \/ FailBury(w)
    BY <1>0, <2>1 DEF Return, Raise, RenewCancelled, FailBury, Goto, Typed, TypeOK,
       Working, Steps, Busy
  <2>2. CASE Renew(w)
    <3>1. [job[w] EXCEPT !.version = @ + 1] \in Jobs
      BY <1>0 DEF Jobs
    <3> QED  BY <2>2, <3>1 DEF Renew, Typed, TypeOK, Working
  <2>3. CASE StopBatch(w)
    BY <2>3 DEF StopBatch, Drop, Goto, Typed, TypeOK, Working, Steps, Busy
  <2>4. CASE Complete(w) \/ FailRetry(w) \/ Compensate(w)
    BY <2>4 DEF Complete, FailRetry, Compensate, Continue, Goto, Typed, TypeOK,
       Working, Steps, Busy
  <2>5. CASE FailSelect(w)
    BY <1>0, <2>5 DEF FailSelect, Continue, Goto, Typed, TypeOK, Working, Steps, Busy
  <2> QED  BY <2>1, <2>2, <2>3, <2>4, <2>5 DEF Process
<1>6. UNCHANGED <<audit, tenures, calls, faults>>
  BY DEF Process, Return, Raise, Renew, RenewCancelled, StopBatch, Complete,
         FailSelect, FailRetry, FailBury, Compensate
<1> QED
  BY <1>1, <1>2, <1>3, <1>4, <1>5, <1>6 DEF Typed, TypeOK

LEMMA StepTyped == Typed /\ [Next]_vars => Typed'
<1> SUFFICES ASSUME Typed, [Next]_vars PROVE Typed'
  OBVIOUS
<1>1. CASE (\E e \in Events : Add(e) \/ Expire(e)) \/ Reclaim
  BY <1>1, RowStepTyped
<1>2. ASSUME NEW w \in Workers,
             Claim(w) \/ Fetch(w) \/ Call(w) \/ Bury(w) \/ Finish(w) \/ Abort(w)
      PROVE  Typed'
  BY <1>2, BatchStepTyped
<1>3. ASSUME NEW w \in Workers, Process(w) PROVE Typed'
  BY <1>3, ProcessTyped
<1>4. CASE UNCHANGED vars
  BY <1>4 DEF vars, workerVars, Typed, TypeOK, Working
<1> QED
  BY <1>1, <1>2, <1>3, <1>4 DEF Next

LEMMA AlwaysTyped == Spec => []Typed
BY InitTyped, StepTyped, PTL DEF Spec

\* Every variable of the outbox keeps its type.
THEOREM TypeCorrect == Spec => []TypeOK
BY AlwaysTyped, PTL DEF Typed

-----------------------------------------------------------------------------
(* What any step does to a row.                                            *)

\* Its fencing token moves when it is leased or renewed and never back; its
\* attempts never go down; once settled it stays.
Advances(e) ==
    /\ \/ row'[e].version = row[e].version /\ tenures'[e] = tenures[e]
       \/ row'[e].version > row[e].version
    /\ row'[e].attempts >= row[e].attempts
    /\ row[e].status \in {"completed", "dlq"} => row'[e] = row[e]

\* A row that is not written advances; so does one that is freed or renewed while
\* it is in flight, or takes another status before it is settled.
LEMMA RowSteps ==
    ASSUME Typed, NEW e \in Events, NEW d \in Events, tenures' = tenures,
           \/ row' = row
           \/ row' = [row EXCEPT ![d] = Freed(@)] /\ row[d].status = "in_flight"
           \/ row' = [row EXCEPT ![d] = Renewed(@)] /\ row[d].status = "in_flight"
           \/ /\ \E s \in Statuses : row' = [row EXCEPT ![d].status = s]
              /\ row[d].status \notin {"completed", "dlq"}
           \/ row' = [row EXCEPT ![d].expired = TRUE] /\ row[d].status = "in_flight"
    PROVE  Advances(e)
<1>0. row \in [Events -> Rows]
  BY DEF Typed, TypeOK
<1>1. row[e] \in Rows /\ row[e].version \in Nat /\ row[e].attempts \in Nat
  BY <1>0 DEF Rows
<1>2. CASE row'[e] = row[e]
  BY <1>1, <1>2 DEF Advances
<1>3. CASE row'[e] = Freed(row[e]) /\ row[e].status = "in_flight"
  BY <1>1, <1>3 DEF Advances, Freed, Rows
<1>4. CASE row'[e] = Renewed(row[e]) /\ row[e].status = "in_flight"
  BY <1>1, <1>4 DEF Advances, Renewed, Rows
<1>5. CASE /\ \E s \in Statuses : row'[e] = [row[e] EXCEPT !.status = s]
           /\ row[e].status \notin {"completed", "dlq"}
  BY <1>1, <1>5 DEF Advances, Rows
<1>6. CASE row'[e] = [row[e] EXCEPT !.expired = TRUE] /\ row[e].status = "in_flight"
  BY <1>1, <1>6 DEF Advances, Rows
<1> QED
  BY <1>0, <1>2, <1>3, <1>4, <1>5, <1>6

LEMMA StepAdvances ==
    ASSUME Typed, [Next]_vars, NEW e \in Events
    PROVE  Advances(e)
<1>0. row \in [Events -> Rows] /\ tenures \in [Events -> Nat]
  BY DEF Typed, TypeOK
<1>1. ASSUME NEW d \in Events, Add(d) \/ Expire(d) PROVE Advances(e)
  <2>1. "pending" \in Statuses
    BY DEF Statuses
  <2> QED  BY <1>1, <2>1, RowSteps DEF Add, Expire
<1>2. CASE Reclaim
  <2>1. \/ row'[e] = row[e]
        \/ row'[e] = Freed(row[e]) /\ row[e].status = "in_flight"
    BY <1>2 DEF Reclaim
  <2>2. row[e] \in Rows /\ row[e].version \in Nat /\ row[e].attempts \in Nat
    BY <1>0 DEF Rows
  <2>3. tenures' = tenures
    BY <1>2 DEF Reclaim
  <2>4. CASE row'[e] = row[e]
    BY <2>2, <2>3, <2>4 DEF Advances
  <2>5. CASE row'[e] = Freed(row[e]) /\ row[e].status = "in_flight"
    BY <2>2, <2>3, <2>5 DEF Advances, Freed, Rows
  <2> QED  BY <2>1, <2>4, <2>5
<1>3. ASSUME NEW w \in Workers, Claim(w) PROVE Advances(e)
  <2> PICK S \in SUBSET WithStatus("pending") :
        /\ row' = [d \in Events |->
                      IF d \in S
                      THEN [status |-> "in_flight", owner |-> w, expired |-> FALSE,
                            version |-> row[d].version + 1,
                            attempts |-> row[d].attempts + 1]
                      ELSE row[d]]
        /\ tenures' = [d \in Events |-> tenures[d] + (IF d \in S THEN 1 ELSE 0)]
    BY <1>3 DEF Claim
  <2>1. row[e].version \in Nat /\ row[e].attempts \in Nat /\ tenures[e] \in Nat
    BY <1>0 DEF Rows
  <2>2. CASE e \in S
    BY <2>1, <2>2 DEF Advances, WithStatus
  <2>3. CASE e \notin S
    BY <2>1, <2>3 DEF Advances
  <2> QED  BY <2>2, <2>3
<1>4. ASSUME NEW w \in Workers, Fetch(w) \/ Call(w) \/ Finish(w) \/ Abort(w)
      PROVE  Advances(e)
  BY <1>4, RowSteps DEF Fetch, Call, Finish, Abort
<1>5. ASSUME NEW w \in Workers, Bury(w) PROVE Advances(e)
  <2> PICK j \in batch[w] :
        IF CanMoveToDlq(j.event) THEN row' = [row EXCEPT ![j.event].status = "dlq"]
                                 ELSE row' = row
    BY <1>5 DEF Bury
  <2>1. j.event \in Events
    BY DEF Typed, TypeOK, Jobs
  <2> QED  BY <1>5, <2>1, RowSteps DEF Bury, CanMoveToDlq, Statuses
<1>6. ASSUME NEW w \in Workers, Process(w) PROVE Advances(e)
  <2> DEFINE d == job[w].event
  <2>1. d \in Events
    BY <1>6 DEF Process, Return, Raise, Renew, RenewCancelled, StopBatch, Complete,
       FailSelect, FailRetry, FailBury, Compensate, Busy, Typed, Working, Jobs
  <2>2. tenures' = tenures
    BY <1>6 DEF Process, Return, Raise, Renew, RenewCancelled, StopBatch, Complete,
       FailSelect, FailRetry, FailBury, Compensate
  <2>3. CASE Return(w) \/ Raise(w) \/ StopBatch(w) \/ FailSelect(w) \/ Compensate(w)
    <3>1. row' = row
      BY <2>3 DEF Return, Raise, StopBatch, FailSelect, Compensate
    <3> QED  BY <2>2, <3>1, RowSteps
  <2>4. CASE Renew(w) \/ RenewCancelled(w)
    <3>1. row' = [row EXCEPT ![d] = Renewed(@)] /\ row[d].status = "in_flight"
      BY <2>4 DEF Renew, RenewCancelled, Matches
    <3> HIDE DEF d
    <3> QED  BY <2>1, <2>2, <3>1, RowSteps
  <2>5. CASE Complete(w)
    <3>1. \/ row' = row
          \/ row' = [row EXCEPT ![d].status = "completed"] /\ row[d].status = "in_flight"
      BY <2>5 DEF Complete, Matches
    <3> HIDE DEF d
    <3> QED  BY <2>1, <2>2, <3>1, RowSteps DEF Statuses
  <2>6. CASE FailRetry(w)
    <3>1. \/ row' = row
          \/ row' = [row EXCEPT ![d] = Freed(@)] /\ row[d].status = "in_flight"
      BY <2>6 DEF FailRetry, CanFail
    <3> HIDE DEF d
    <3> QED  BY <2>1, <2>2, <3>1, RowSteps
  <2>7. CASE FailBury(w)
    <3>1. \/ row' = row
          \/ row' = [row EXCEPT ![d].status = "dlq"] /\ row[d].status = "in_flight"
      BY <2>7 DEF FailBury, CanFail
    <3> HIDE DEF d
    <3> QED  BY <2>1, <2>2, <3>1, RowSteps DEF Statuses
  <2> QED  BY <1>6, <2>3, <2>4, <2>5, <2>6, <2>7 DEF Process
<1>7. CASE UNCHANGED vars
  BY <1>7, RowSteps DEF vars
<1> QED
  BY <1>1, <1>2, <1>3, <1>4, <1>5, <1>6, <1>7 DEF Next

\* A completed or buried event is final.
THEOREM SettledIsFinal == Spec => SettledStays
<1>1. Typed /\ [Next]_vars =>
        [\A e \in Events : row[e].status \in {"completed", "dlq"} => row'[e] = row[e]]_vars
  BY StepAdvances DEF Advances
<1> QED  BY <1>1, AlwaysTyped, PTL DEF Spec, SettledStays

-----------------------------------------------------------------------------
(* The fencing token.                                                      *)

\* The token of a job is the row's only while nobody has leased the row since.
FencedJob(j) ==
    /\ j.version <= row[j.event].version
    /\ j.version = row[j.event].version => j.tenure = tenures[j.event]

Fenced ==
    \A w \in Workers :
        /\ \A j \in batch[w] : FencedJob(j)
        /\ pc[w] \in Busy => FencedJob(job[w])

\* A job nobody touches stays fenced.
LEMMA JobStaysFenced ==
    ASSUME Typed, [Next]_vars, Typed', NEW j \in Jobs, FencedJob(j)
    PROVE  FencedJob(j)'
<1>1. j.event \in Events /\ j.version \in Nat
  BY DEF Jobs
<1>2. row[j.event].version \in Nat /\ row'[j.event].version \in Nat
  BY <1>1 DEF Typed, TypeOK, Rows
<1>3. Advances(j.event)
  BY <1>1, StepAdvances
<1> QED  BY <1>1, <1>2, <1>3 DEF Advances, FencedJob

\* A worker's new jobs are its old ones, what it has just read, or the one whose
\* lease it renewed.
LEMMA StepFenced ==
    ASSUME Typed, Fenced, [Next]_vars
    PROVE  Fenced'
<1>0. Typed'
  BY StepTyped
<1> SUFFICES ASSUME NEW v \in Workers
             PROVE  /\ \A j \in batch'[v] : FencedJob(j)'
                    /\ pc'[v] \in Busy => FencedJob(job[v])'
  BY DEF Fenced, FencedJob
<1>1. \A j \in batch[v] : FencedJob(j)'
  <2> TAKE j \in batch[v]
  <2>1. j \in Jobs /\ FencedJob(j)
    BY DEF Typed, TypeOK, Fenced
  <2> QED  BY <1>0, <2>1, JobStaysFenced
<1>2. pc[v] \in Busy /\ job'[v] = job[v] => FencedJob(job[v])'
  <2> SUFFICES ASSUME pc[v] \in Busy, job'[v] = job[v] PROVE FencedJob(job[v])'
    OBVIOUS
  <2> DEFINE j == job[v]
  <2>1. j \in Jobs /\ FencedJob(j)
    BY DEF Typed, Working, Fenced
  <2>2. ASSUME NEW i \in Jobs, i = job[v], FencedJob(i)
        PROVE  FencedJob(job[v])'
    <3>1. FencedJob(i)'
      BY <1>0, <2>2, JobStaysFenced
    <3> QED  BY <2>2, <3>1 DEF FencedJob
  <2> QED  BY <2>1, <2>2
<1>3. CASE batch'[v] = batch[v] /\ pc'[v] = pc[v] /\ job'[v] = job[v]
  BY <1>1, <1>2, <1>3
<1>4. CASE (\E e \in Events : Add(e) \/ Expire(e)) \/ Reclaim \/ UNCHANGED vars
  BY <1>3, <1>4 DEF Add, Expire, Reclaim, vars, workerVars
<1>5. ASSUME NEW w \in Workers, w # v,
             Claim(w) \/ Fetch(w) \/ Call(w) \/ Bury(w) \/ Finish(w) \/ Abort(w)
             \/ Process(w)
      PROVE  batch'[v] = batch[v] /\ pc'[v] = pc[v] /\ job'[v] = job[v]
  BY <1>5 DEF Claim, Fetch, Call, Bury, Finish, Abort, Process, Return, Raise, Renew,
     RenewCancelled, StopBatch, Complete, FailSelect, FailRetry, FailBury, Compensate,
     Goto, Drop, Continue, Typed, TypeOK
<1>6. CASE Claim(v) \/ Finish(v) \/ Abort(v) \/ StopBatch(v)
  BY <1>1, <1>6 DEF Claim, Finish, Abort, StopBatch, Drop, Goto, Typed, TypeOK, Busy
<1>7. CASE Fetch(v)
  <2>1. pc'[v] = "next" /\ row' = row /\ tenures' = tenures
    BY <1>7 DEF Fetch, Goto, Typed, TypeOK
  <2>2. \A j \in batch'[v] : \E e \in Events :
           j = [event |-> e, version |-> row[e].version, tenure |-> tenures[e]]
    BY <1>7 DEF Fetch, HeldBy, WithStatus, Typed, TypeOK
  <2>3. \A e \in Events : row[e].version \in Nat
    BY DEF Typed, TypeOK, Rows
  <2> QED  BY <2>1, <2>2, <2>3 DEF FencedJob, Busy
<1>8. CASE Call(v) \/ Bury(v)
  <2> PICK j \in batch[v] :
        /\ job' = [job EXCEPT ![v] = j]
        /\ batch' = [batch EXCEPT ![v] = @ \ {j}]
    BY <1>8 DEF Call, Bury
  <2>1. job'[v] = j /\ batch'[v] \subseteq batch[v]
    BY DEF Typed, TypeOK
  <2>2. FencedJob(j)'
    BY <1>1
  <2> QED  BY <1>1, <2>1, <2>2 DEF FencedJob
<1>9. CASE \/ Return(v) \/ Raise(v) \/ RenewCancelled(v) \/ Complete(v)
           \/ FailSelect(v) \/ FailRetry(v) \/ FailBury(v) \/ Compensate(v)
  <2>1. batch'[v] = batch[v] /\ pc[v] \in Busy
    BY <1>9 DEF Return, Raise, RenewCancelled, Complete, FailSelect, FailRetry,
       FailBury, Compensate, Busy
  <2>2. job'[v] = job[v] \/ pc'[v] = "next"
    BY <1>9 DEF Return, Raise, RenewCancelled, Complete, FailSelect, FailRetry,
       FailBury, Compensate, Continue, Goto, Typed, TypeOK
  <2> QED  BY <1>1, <1>2, <2>1, <2>2 DEF Busy, FencedJob
<1>10. CASE Renew(v)
  <2> DEFINE e == job[v].event
  <2>1. pc[v] \in Busy /\ job[v] \in Jobs /\ e \in Events /\ FencedJob(job[v])
    BY <1>10 DEF Renew, Busy, Typed, Working, Jobs, Fenced
  <2>2. /\ row[e] \in Rows /\ row[e].version \in Nat
        /\ row[e].version = job[v].version
    BY <1>10, <2>1 DEF Renew, Matches, Typed, TypeOK, Rows
  <2>3. row'[e].version = row[e].version + 1
    BY <1>10, <2>1, <2>2 DEF Renew, Renewed, Typed, TypeOK, Rows
  <2>4. /\ job'[v].version = job[v].version + 1
        /\ job'[v].event = e
        /\ job'[v].tenure = job[v].tenure
        /\ tenures' = tenures /\ batch' = batch
    BY <1>10, <2>1 DEF Renew, Typed, TypeOK, Jobs
  <2>5. FencedJob(job[v])'
    BY <2>1, <2>2, <2>3, <2>4 DEF FencedJob
  <2> QED  BY <1>1, <2>4, <2>5
<1> QED
  BY <1>3, <1>4, <1>5, <1>6, <1>7, <1>8, <1>9, <1>10 DEF Next, Process

LEMMA AlwaysFenced == Spec => [](Typed /\ Fenced)
<1>1. Init => Typed /\ Fenced
  BY InitTyped DEF Init, Fenced, Busy
<1>2. Typed /\ Fenced /\ [Next]_vars => (Typed /\ Fenced)'
  BY StepTyped, StepFenced
<1> QED  BY <1>1, <1>2, PTL DEF Spec

\* A worker completes an event only while it holds the present lease of it.
THEOREM CompletionByHolder == Spec => CompletedByHolder
<1>1. Typed /\ Fenced /\ [Next]_vars =>
        [\A w \in Workers : Complete(w) /\ row' # row =>
            job[w].tenure = tenures[job[w].event]]_vars
  BY DEF Fenced, FencedJob, Complete, Matches, Busy
<1> QED  BY <1>1, AlwaysFenced, PTL DEF Spec, CompletedByHolder

-----------------------------------------------------------------------------
(* Compensation intents.                                                   *)

\* The event has no provider or has used its attempts.
Grounds(e) == e \in Unserved \/ row[e].attempts >= MaxAttempts

\* So has an event a worker is about to give up.
Grounded ==
    /\ \A e \in intents : Grounds(e)
    /\ \A w \in Workers : pc[w] \in {"giving up", "buried"} => Grounds(job[w].event)

LEMMA GroundsStay ==
    ASSUME Typed, [Next]_vars, NEW e \in Events, Grounds(e)
    PROVE  Grounds(e)'
<1>1. Advances(e) /\ Typed'
  BY StepAdvances, StepTyped
<1>2. row[e].attempts \in Nat /\ row'[e].attempts \in Nat /\ MaxAttempts \in Nat
  BY <1>1, OutboxAssumption DEF Typed, TypeOK, Rows
<1> QED  BY <1>1, <1>2 DEF Advances, Grounds

LEMMA StepGrounded ==
    ASSUME Typed, Grounded, [Next]_vars
    PROVE  Grounded'
<1>1. intents \subseteq Events
  BY DEF Typed, TypeOK
<1>2. \A e \in intents' : Grounds(e)'
  <2>1. ASSUME NEW e \in intents' PROVE e \in Events /\ Grounds(e)
    <3>1. CASE e \in intents
      BY <1>1, <3>1 DEF Grounded
    <3>2. CASE e \notin intents
      <4> PICK w \in Workers : Compensate(w) /\ e = job[w].event
        BY <2>1, <3>2 DEF Next, Add, Expire, Reclaim, Claim, Fetch, Call, Bury, Finish,
           Abort, Process, Return, Raise, Renew, RenewCancelled, StopBatch, Complete,
           FailSelect, FailRetry, FailBury, Compensate, vars
      <4> QED  BY DEF Compensate, Grounded, Typed, Working, Busy, Jobs
    <3> QED  BY <3>1, <3>2
  <2> QED  BY <2>1, GroundsStay DEF Grounds
<1>3. ASSUME NEW v \in Workers, pc'[v] \in {"giving up", "buried"}
      PROVE  Grounds(job[v].event)'
  <2>1. job'[v] \in Jobs /\ job'[v].event \in Events
    BY <1>3, StepTyped DEF Typed, Working, Busy, Jobs
  <2>2. Grounds(job'[v].event)
    <3>1. CASE pc[v] \in {"giving up", "buried"} /\ job'[v] = job[v]
      BY <3>1 DEF Grounded
    <3>2. CASE Bury(v)
      BY <3>2 DEF Bury, Grounds, Typed, TypeOK
    <3>3. CASE FailSelect(v)
      BY <1>3, <3>3 DEF FailSelect, Continue, Goto, OverLimit, Grounds, Typed, TypeOK
    <3>4. CASE FailBury(v)
      BY <3>4 DEF FailBury, Grounded
    <3>5. CASE (\E e \in Events : Add(e) \/ Expire(e)) \/ Reclaim \/ UNCHANGED vars
      BY <1>3, <3>1, <3>5 DEF Add, Expire, Reclaim, vars, workerVars
    <3>6. ASSUME NEW w \in Workers, w # v,
                 Claim(w) \/ Fetch(w) \/ Call(w) \/ Bury(w) \/ Finish(w) \/ Abort(w)
                 \/ Process(w)
          PROVE  pc'[v] = pc[v] /\ job'[v] = job[v]
      BY <3>6 DEF Claim, Fetch, Call, Bury, Finish, Abort, Process, Return, Raise, Renew,
         RenewCancelled, StopBatch, Complete, FailSelect, FailRetry, FailBury,
         Compensate, Goto, Drop, Continue, Typed, TypeOK
    <3>7. CASE \/ Claim(v) \/ Fetch(v) \/ Call(v) \/ Finish(v) \/ Abort(v) \/ Return(v)
               \/ Raise(v) \/ Renew(v) \/ RenewCancelled(v) \/ StopBatch(v)
               \/ Complete(v) \/ FailRetry(v) \/ Compensate(v)
      BY <1>3, <3>7 DEF Claim, Fetch, Call, Finish, Abort, Return, Raise, Renew,
         RenewCancelled, StopBatch, Complete, FailRetry, Compensate, Goto, Drop,
         Continue, Typed, TypeOK
    <3> QED
      BY <1>3, <3>1, <3>2, <3>3, <3>4, <3>5, <3>6, <3>7 DEF Next, Process
  <2> QED  BY <2>1, <2>2, GroundsStay DEF Grounds
<1> QED  BY <1>2, <1>3 DEF Grounded, Grounds

\* Compensation is intended only for events with no provider or no attempts left.
THEOREM GroundsOfIntents == Spec => []IntentsHaveGrounds
<1>1. Init => Grounded
  BY DEF Init, Grounded
<1>2. Typed /\ Grounded /\ [Next]_vars => Grounded'
  BY StepGrounded
<1>3. Grounded => IntentsHaveGrounds
  BY DEF Grounded, Grounds, IntentsHaveGrounds
<1> QED  BY <1>1, <1>2, <1>3, AlwaysTyped, PTL DEF Spec
-----------------------------------------------------------------------------
(* Repeated calls.  A "turn" of an event is a call of its provider that may *)
(* still come without any further cause.  The turns and the calls together  *)
(* are never more than the causes allow.                                    *)

Leased(w, e)  == row[e].status = "in_flight" /\ row[e].owner = w

\* The worker's batch is in order: empty outside a run, one job of an event, and
\* the version of a job is the row's as long as the worker has the lease.
OrderlyWorker(w) ==
    /\ pc[w] \in {"idle", "leased"} => batch[w] = {}
    /\ \A i, j \in batch[w] : i.event = j.event => i = j
    /\ pc[w] \in Busy => \A j \in batch[w] : j.event # job[w].event
    /\ \A j \in batch[w] : Leased(w, j.event) => row[j.event].version = j.version

OwnersWork == \A e \in Events : row[e].status = "in_flight" => row[e].owner \in Workers

Orderly == OwnersWork /\ \A w \in Workers : OrderlyWorker(w)

InBatch(w, e) == \E j \in batch[w] : j.event = e

\* The worker has called the provider and holds the lease it called it under.
Handles(w, e) ==
    /\ pc[w] \in Busy \ {"buried"}
    /\ job[w].event = e
    /\ Leased(w, e)
    /\ row[e].version = job[w].version

Attends(w, e) == InBatch(w, e) \/ Handles(w, e)

Bit(b) == IF b THEN 1 ELSE 0

\* The row has a turn while it waits, one more if its lease is going to be
\* reclaimed, and one if its owner will fetch it again.
RowTurns(e) ==
    IF row[e].status \in {"absent", "pending"} THEN 1
    ELSE IF row[e].status = "in_flight"
         THEN Bit(row[e].expired) + Bit(~Attends(row[e].owner, e))
         ELSE 0

\* A worker has a turn if the event is still in its batch or if it is going to
\* give the row back.
HasTurn(w, e) ==
    \/ InBatch(w, e)
    \/ pc[w] = "raised" /\ Handles(w, e)
    \/ pc[w] = "retrying" /\ job[w].event = e

Holders(e) == {w \in Workers : HasTurn(w, e)}

Affordable(e) ==
    /\ IsFiniteSet(Holders(e))
    /\ calls[e] + RowTurns(e) + Cardinality(Holders(e)) <= 1 + causes[e]

Afforded == \A e \in Events : Affordable(e)

\* All but one worker are as they were.
OthersRest(w) ==
    \A v \in Workers \ {w} : batch'[v] = batch[v] /\ pc'[v] = pc[v] /\ job'[v] = job[v]

LEMMA OneMoves ==
    ASSUME Typed, NEW w \in Workers,
           Claim(w) \/ Fetch(w) \/ Call(w) \/ Bury(w) \/ Finish(w) \/ Abort(w) \/ Process(w)
    PROVE  OthersRest(w)
BY DEF Claim, Fetch, Call, Bury, Finish, Abort, Process, Return, Raise, Renew,
   RenewCancelled, StopBatch, Complete, FailSelect, FailRetry, FailBury, Compensate,
   Goto, Drop, Continue, Typed, TypeOK, OthersRest

\* The size of a set in which only one element comes or goes, or none comes.
LEMMA OneComesOrGoes ==
    ASSUME NEW H, NEW G, NEW w, IsFiniteSet(H), G \ {w} \subseteq H
    PROVE  /\ IsFiniteSet(G)
           /\ Cardinality(G) \in Nat /\ Cardinality(H) \in Nat
           /\ Cardinality(G) <= Cardinality(H) + Bit(w \in G) - Bit(w \in H)
<1>1. /\ IsFiniteSet(H \cup {w}) /\ IsFiniteSet(H \ {w})
      /\ Cardinality(H \cup {w}) = IF w \in H THEN Cardinality(H) ELSE Cardinality(H) + 1
      /\ Cardinality(H \ {w}) = IF w \in H THEN Cardinality(H) - 1 ELSE Cardinality(H)
  BY FS_AddElement, FS_RemoveElement
<1>2. Cardinality(H) \in Nat
  BY FS_CardinalityType
<1>3. CASE w \in G
  <2>1. G \in SUBSET (H \cup {w})
    BY <1>3
  <2>2. IsFiniteSet(G) /\ Cardinality(G) <= Cardinality(H \cup {w})
    BY <1>1, <2>1, FS_Subset
  <2>3. Cardinality(G) \in Nat
    BY <2>2, FS_CardinalityType
  <2> QED  BY <1>1, <1>2, <1>3, <2>2, <2>3 DEF Bit
<1>4. CASE w \notin G
  <2>1. G \in SUBSET (H \ {w})
    BY <1>4
  <2>2. IsFiniteSet(G) /\ Cardinality(G) <= Cardinality(H \ {w})
    BY <1>1, <2>1, FS_Subset
  <2>3. Cardinality(G) \in Nat
    BY <2>2, FS_CardinalityType
  <2> QED  BY <1>1, <1>2, <1>4, <2>2, <2>3 DEF Bit
<1> QED  BY <1>3, <1>4

LEMMA NoneComes ==
    ASSUME NEW H, NEW G, IsFiniteSet(H), G \subseteq H
    PROVE  /\ IsFiniteSet(G)
           /\ Cardinality(G) \in Nat /\ Cardinality(H) \in Nat
           /\ Cardinality(G) <= Cardinality(H)
BY FS_Subset, FS_CardinalityType

\* No lease is given or renewed: what is in flight was so, under the same lease.
LeasesOnlyEnd ==
    \A e \in Events : row'[e].status = "in_flight" =>
        /\ row[e].status = "in_flight"
        /\ row'[e].owner = row[e].owner
        /\ row'[e].version = row[e].version

LEMMA RowsAloneEndLeases ==
    ASSUME Typed, (\E e \in Events : Add(e) \/ Expire(e)) \/ Reclaim \/ UNCHANGED vars
    PROVE  LeasesOnlyEnd /\ UNCHANGED workerVars
<1>1. row \in [Events -> Rows]
  BY DEF Typed, TypeOK
<1>2. ASSUME NEW e \in Events, Add(e) \/ Expire(e)
      PROVE  LeasesOnlyEnd /\ UNCHANGED workerVars
  BY <1>1, <1>2 DEF Add, Expire, LeasesOnlyEnd, Rows
<1>3. CASE Reclaim
  BY <1>1, <1>3 DEF Reclaim, Freed, LeasesOnlyEnd, Rows
<1>4. CASE UNCHANGED vars
  BY <1>4 DEF vars, LeasesOnlyEnd
<1> QED  BY <1>2, <1>3, <1>4

LEMMA WorkersEndLeases ==
    ASSUME Typed, NEW w \in Workers,
           \/ Fetch(w) \/ Call(w) \/ Bury(w) \/ Finish(w) \/ Abort(w) \/ Return(w)
           \/ Raise(w) \/ StopBatch(w) \/ Complete(w) \/ FailSelect(w) \/ FailRetry(w)
           \/ FailBury(w) \/ Compensate(w)
    PROVE  LeasesOnlyEnd
<1>1. row \in [Events -> Rows]
  BY DEF Typed, TypeOK
<1>2. CASE \/ Fetch(w) \/ Call(w) \/ Finish(w) \/ Abort(w) \/ Return(w) \/ Raise(w)
           \/ StopBatch(w) \/ FailSelect(w) \/ Compensate(w)
  BY <1>2 DEF Fetch, Call, Finish, Abort, Return, Raise, StopBatch, FailSelect,
     Compensate, LeasesOnlyEnd
<1>3. CASE Bury(w)
  BY <1>1, <1>3 DEF Bury, LeasesOnlyEnd, Rows
<1>4. CASE Complete(w) \/ FailBury(w) \/ FailRetry(w)
  BY <1>1, <1>4 DEF Complete, FailBury, FailRetry, Freed, LeasesOnlyEnd, Rows
<1> QED  BY <1>2, <1>3, <1>4

\* A worker that is not at work stays in order when leases only end, and when
\* another worker gets or renews one.
LEMMA RestingOrderly ==
    ASSUME Typed, Orderly, NEW v \in Workers,
           batch'[v] = batch[v], pc'[v] = pc[v], job'[v] = job[v],
           \A e \in Events : row'[e].status = "in_flight" /\ row'[e].owner = v =>
              /\ Leased(v, e)
              /\ row'[e].version = row[e].version
    PROVE  OrderlyWorker(v)'
<1>1. \A j \in batch[v] : j.event \in Events
  BY DEF Typed, TypeOK, Jobs
<1> QED  BY <1>1 DEF OrderlyWorker, Orderly, Leased

LEMMA StepOrderly ==
    ASSUME Typed, Orderly, [Next]_vars
    PROVE  Orderly'
<1>0. row \in [Events -> Rows]
  BY DEF Typed, TypeOK
<1>1. CASE (\E e \in Events : Add(e) \/ Expire(e)) \/ Reclaim \/ UNCHANGED vars
  <2>1. LeasesOnlyEnd /\ UNCHANGED workerVars
    BY <1>1, RowsAloneEndLeases
  <2>2. \A v \in Workers : OrderlyWorker(v)'
    BY <2>1, RestingOrderly DEF LeasesOnlyEnd, workerVars, Leased
  <2> QED  BY <2>1, <2>2 DEF LeasesOnlyEnd, Orderly, OwnersWork
<1>2. ASSUME NEW w \in Workers,
             \/ Fetch(w) \/ Call(w) \/ Bury(w) \/ Finish(w) \/ Abort(w) \/ Return(w)
             \/ Raise(w) \/ StopBatch(w) \/ Complete(w) \/ FailSelect(w) \/ FailRetry(w)
             \/ FailBury(w) \/ Compensate(w)
      PROVE  Orderly'
  <2>1. LeasesOnlyEnd /\ OthersRest(w)
    BY <1>2, WorkersEndLeases, OneMoves DEF Process
  <2>2. ASSUME NEW v \in Workers \ {w} PROVE OrderlyWorker(v)'
    BY <2>1, RestingOrderly DEF LeasesOnlyEnd, OthersRest, Leased
  <2>3. OrderlyWorker(w)'
    <3>1. CASE batch'[w] = {}
      BY <3>1 DEF OrderlyWorker
    <3>2. CASE Fetch(w)
      <4>1. /\ pc'[w] = "next" /\ row' = row
            /\ batch'[w] = {[event |-> e, version |-> row[e].version,
                             tenure |-> tenures[e]] : e \in HeldBy(w)}
        BY <3>2 DEF Fetch, Goto, Typed, TypeOK
      <4> QED  BY <4>1 DEF OrderlyWorker, Busy
    <3>3. CASE Call(w) \/ Bury(w)
      <4> PICK j \in batch[w] :
            /\ job' = [job EXCEPT ![w] = j]
            /\ batch' = [batch EXCEPT ![w] = @ \ {j}]
        BY <3>3 DEF Call, Bury
      <4>1. job'[w] = j /\ batch'[w] = batch[w] \ {j} /\ pc'[w] \in {"calling", "buried"}
        BY <3>3 DEF Call, Bury, Goto, Typed, TypeOK
      <4>2. \A i \in batch[w] : i.event \in Events
        BY DEF Typed, TypeOK, Jobs
      <4> QED  BY <2>1, <4>1, <4>2 DEF OrderlyWorker, Orderly, LeasesOnlyEnd, Leased
    <3>4. CASE \/ Return(w) \/ Raise(w) \/ Complete(w) \/ FailSelect(w) \/ FailRetry(w)
               \/ FailBury(w) \/ Compensate(w)
      <4>1. /\ batch'[w] = batch[w] /\ pc[w] \in Busy
            /\ pc'[w] \notin {"idle", "leased"}
            /\ job'[w] = job[w] \/ pc'[w] = "next"
        BY <3>4 DEF Return, Raise, Complete, FailSelect, FailRetry, FailBury, Compensate,
           Continue, Goto, Busy, Typed, TypeOK
      <4>2. \A i \in batch[w] : i.event \in Events
        BY DEF Typed, TypeOK, Jobs
      <4>3. OrderlyWorker(w)
        BY DEF Orderly
      <4>4. \A i \in batch[w] : Leased(w, i.event)' => row'[i.event].version = i.version
        BY <2>1, <4>2, <4>3 DEF OrderlyWorker, LeasesOnlyEnd, Leased
      <4>5. pc'[w] \in Busy => \A i \in batch[w] : i.event # job'[w].event
        BY <4>1, <4>3 DEF OrderlyWorker, Busy
      <4> QED  BY <4>1, <4>3, <4>4, <4>5 DEF OrderlyWorker
    <3>5. CASE Finish(w) \/ Abort(w) \/ StopBatch(w)
      <4>1. batch'[w] = {}
        BY <3>5 DEF Finish, Abort, StopBatch, Drop, Typed, TypeOK
      <4> QED  BY <3>1, <4>1
    <3> QED  BY <1>2, <3>2, <3>3, <3>4, <3>5
  <2> QED  BY <2>1, <2>2, <2>3 DEF LeasesOnlyEnd, Orderly, OwnersWork
<1>3. ASSUME NEW w \in Workers, Claim(w) PROVE Orderly'
  <2> PICK S \in SUBSET WithStatus("pending") :
        row' = [e \in Events |->
                  IF e \in S
                  THEN [status |-> "in_flight", owner |-> w, expired |-> FALSE,
                        version |-> row[e].version + 1,
                        attempts |-> row[e].attempts + 1]
                  ELSE row[e]]
    BY <1>3 DEF Claim
  <2>1. /\ batch' = batch /\ job' = job
        /\ pc[w] = "idle" /\ pc'[w] = "leased" /\ \A v \in Workers \ {w} : pc'[v] = pc[v]
    BY <1>3 DEF Claim, Goto, Typed, TypeOK
  <2>2. \A e \in Events :
           \/ row'[e] = row[e]
           \/ row'[e].owner = w
    OBVIOUS
  <2>3. ASSUME NEW v \in Workers \ {w} PROVE OrderlyWorker(v)'
    BY <2>1, <2>2, RestingOrderly DEF Leased
  <2>4. OrderlyWorker(w)'
    BY <2>1 DEF OrderlyWorker, Orderly
  <2> QED  BY <2>2, <2>3, <2>4 DEF Orderly, OwnersWork
<1>4. ASSUME NEW w \in Workers, Renew(w) \/ RenewCancelled(w) PROVE Orderly'
  <2> DEFINE d == job[w].event
  <2>1. /\ pc[w] = "calling" /\ d \in Events /\ Leased(w, d)
        /\ row' = [row EXCEPT ![d] = Renewed(@)]
    BY <1>4 DEF Renew, RenewCancelled, Matches, Leased, Typed, Working, Busy, Jobs
  <2>2. /\ row'[d].owner = w
        /\ \A e \in Events \ {d} : row'[e] = row[e]
    BY <1>0, <2>1 DEF Renewed, Rows, Leased
  <2>3. OthersRest(w)
    BY <1>4, OneMoves DEF Process
  <2>4. ASSUME NEW v \in Workers \ {w} PROVE OrderlyWorker(v)'
    BY <2>1, <2>2, <2>3, RestingOrderly DEF OthersRest, Leased
  <2>5. /\ batch'[w] = batch[w] /\ pc'[w] \in Busy
        /\ job'[w].event = d
    BY <1>4, <2>1 DEF Renew, RenewCancelled, Goto, Busy, Typed, TypeOK, Working, Jobs
  <2>6. \A i \in batch[w] : i.event \in Events \ {d}
    <3>1. batch[w] \subseteq Jobs /\ pc[w] \in Busy /\ OrderlyWorker(w)
      BY <2>1 DEF Typed, TypeOK, Orderly, Busy
    <3> QED  BY <3>1 DEF OrderlyWorker, Jobs
  <2>7. OrderlyWorker(w)'
    BY <2>2, <2>5, <2>6 DEF OrderlyWorker, Orderly, Leased, Busy
  <2> QED  BY <2>1, <2>2, <2>4, <2>7 DEF Orderly, OwnersWork
<1> QED  BY <1>1, <1>2, <1>3, <1>4 DEF Next, Process

-----------------------------------------------------------------------------
(* Turns and causes, step by step.                                         *)

Turn(w, e) == Bit(HasTurn(w, e))

\* What a step adds to the calls and turns of an event, it adds to the causes.
Paid(w, e) ==
    calls'[e] + RowTurns(e)' + Turn(w, e)' + causes[e]
        <= calls[e] + RowTurns(e) + Turn(w, e) + causes'[e]

\* No other worker gets a turn when none but w acts and no lease becomes theirs.
LEMMA OthersKeepTurns ==
    ASSUME NEW w \in Workers, OthersRest(w), NEW e \in Events,
           \A v \in Workers \ {w} : row'[e].status = "in_flight" /\ row'[e].owner = v =>
              Leased(v, e) /\ row'[e].version = row[e].version
    PROVE  Holders(e)' \ {w} \subseteq Holders(e)
BY DEF OthersRest, Holders, HasTurn, InBatch, Handles, Leased

LEMMA PaidAffords ==
    ASSUME Typed, Typed', NEW w \in Workers, NEW e \in Events, Affordable(e),
           Holders(e)' \ {w} \subseteq Holders(e), Paid(w, e)
    PROVE  Affordable(e)'
<1>1. /\ calls[e] \in Nat /\ calls'[e] \in Nat /\ causes[e] \in Nat /\ causes'[e] \in Nat
  BY DEF Typed, TypeOK
<1>2. RowTurns(e) \in Nat /\ RowTurns(e)' \in Nat
  BY DEF RowTurns, Bit
<1>3. /\ IsFiniteSet(Holders(e)')
      /\ Cardinality(Holders(e)') \in Nat /\ Cardinality(Holders(e)) \in Nat
      /\ Cardinality(Holders(e)')
            <= Cardinality(Holders(e)) + Bit(w \in Holders(e)') - Bit(w \in Holders(e))
  <2>1. IsFiniteSet(Holders(e))
    BY DEF Affordable
  <2> QED  BY <2>1, OneComesOrGoes
<1>4. /\ Bit(w \in Holders(e)') = Turn(w, e)' /\ Bit(w \in Holders(e)) = Turn(w, e)
      /\ Turn(w, e) \in Nat /\ Turn(w, e)' \in Nat
  BY DEF Turn, Holders, Bit
<1>5. calls[e] + RowTurns(e) + Cardinality(Holders(e)) <= 1 + causes[e]
  BY DEF Affordable
<1>6. calls'[e] + RowTurns(e)' + Cardinality(Holders(e)') <= 1 + causes'[e]
  BY <1>1, <1>2, <1>3, <1>4, <1>5 DEF Paid
<1> QED  BY <1>3, <1>6 DEF Affordable

\* A row that is not written, when none but w acts.
LEMMA RowKept ==
    ASSUME Typed, Orderly, NEW w \in Workers, OthersRest(w),
           NEW e \in Events, row'[e] = row[e]
    PROVE  /\ RowTurns(e) \in Nat /\ RowTurns(e)' \in Nat
           /\ RowTurns(e)' <= RowTurns(e) + 1
           /\ ~Leased(w, e) => RowTurns(e)' = RowTurns(e)
           /\ (Attends(w, e) => Attends(w, e)') => RowTurns(e)' <= RowTurns(e)
           /\ Leased(w, e) /\ ~Attends(w, e) /\ Attends(w, e)'
                 => RowTurns(e)' + 1 = RowTurns(e)
<1>1. RowTurns(e) \in Nat /\ RowTurns(e)' \in Nat
  BY DEF RowTurns, Bit
<1>2. CASE row[e].status # "in_flight"
  BY <1>1, <1>2 DEF RowTurns, Leased
<1>3. CASE row[e].status = "in_flight"
  <2> DEFINE v == row[e].owner
  <2>1. v \in Workers
    BY <1>3 DEF Orderly, OwnersWork
  <2>2. /\ RowTurns(e) = Bit(row[e].expired) + Bit(~Attends(v, e))
        /\ RowTurns(e)' = Bit(row[e].expired)
              + Bit(~((\E j \in batch'[v] : j.event = e)
                      \/ /\ pc'[v] \in Busy \ {"buried"}
                         /\ job'[v].event = e
                         /\ row'[e].status = "in_flight" /\ row'[e].owner = v
                         /\ row'[e].version = job'[v].version))
    BY <1>3 DEF RowTurns, Attends, InBatch, Handles, Leased
  <2>3. CASE v = w
    <3>1. RowTurns(e)' = Bit(row[e].expired) + Bit(~Attends(w, e)')
      BY <2>2, <2>3 DEF Attends, InBatch, Handles, Leased
    <3>2. Bit(row[e].expired) \in {0, 1}
      BY DEF Bit
    <3>3. /\ Bit(~Attends(w, e)) = IF Attends(w, e) THEN 0 ELSE 1
          /\ Bit(~Attends(w, e)') = IF Attends(w, e)' THEN 0 ELSE 1
      BY DEF Bit
    <3>4. RowTurns(e) = Bit(row[e].expired) + Bit(~Attends(w, e))
      BY <2>2, <2>3
    <3>5. Leased(w, e)
      BY <1>3, <2>3 DEF Leased
    <3> HIDE DEF v
    <3> QED  BY <1>1, <3>1, <3>2, <3>3, <3>4, <3>5
  <2>4. CASE v # w
    <3>1. RowTurns(e)' = RowTurns(e)
      BY <2>1, <2>2, <2>4 DEF OthersRest, Attends, InBatch, Handles, Leased
    <3> QED  BY <1>1, <2>4, <3>1 DEF Leased
  <2> QED  BY <2>3, <2>4
<1> QED  BY <1>2, <1>3

\* Steps of the rows alone: an expiry adds a turn and a cause.
LEMMA RowStepAffords ==
    ASSUME Typed, Typed', NEW e \in Events, Affordable(e),
           (\E d \in Events : Add(d) \/ Expire(d)) \/ Reclaim \/ UNCHANGED vars
    PROVE  Affordable(e)'
<1>0. row \in [Events -> Rows] /\ row[e] \in Rows
  BY DEF Typed, TypeOK
<1>1. /\ calls[e] \in Nat /\ causes[e] \in Nat /\ causes'[e] \in Nat /\ calls'[e] = calls[e]
  BY DEF Typed, TypeOK, Add, Expire, Reclaim, vars
<1>2. RowTurns(e) \in Nat /\ RowTurns(e)' \in Nat
  BY DEF RowTurns, Bit
<1>3. LeasesOnlyEnd /\ UNCHANGED workerVars
  BY RowsAloneEndLeases
<1>4. Holders(e)' \subseteq Holders(e)
  BY <1>3 DEF LeasesOnlyEnd, workerVars, Holders, HasTurn, InBatch, Handles, Leased
<1>5. /\ IsFiniteSet(Holders(e)')
      /\ Cardinality(Holders(e)') \in Nat /\ Cardinality(Holders(e)) \in Nat
      /\ Cardinality(Holders(e)') <= Cardinality(Holders(e))
  BY <1>4, NoneComes DEF Affordable
<1>6. RowTurns(e)' + causes[e] <= RowTurns(e) + causes'[e]
  <2>1. CASE row'[e] = row[e] /\ causes'[e] = causes[e]
    <3>1. RowTurns(e)' = RowTurns(e)
      BY <1>3, <2>1 DEF workerVars, RowTurns, Attends, InBatch, Handles, Leased
    <3> QED  BY <1>1, <1>2, <2>1, <3>1
  <2>2. CASE Add(e)
    <3>1. RowTurns(e)' = 1 /\ RowTurns(e) = 1 /\ causes' = causes
      BY <1>0, <2>2 DEF Add, RowTurns, Rows
    <3> QED  BY <1>1, <3>1
  <2>3. CASE Expire(e)
    <3>1. /\ row'[e].status = "in_flight" /\ row[e].status = "in_flight"
          /\ row'[e].owner = row[e].owner /\ row'[e].version = row[e].version
          /\ row[e].expired = FALSE /\ row'[e].expired = TRUE
          /\ causes'[e] = causes[e] + 1
      BY <1>0, <2>3 DEF Expire, Rows, Typed, TypeOK
    <3>2. RowTurns(e) = Bit(~Attends(row[e].owner, e))
      BY <3>1 DEF RowTurns, Bit
    <3>3. RowTurns(e)' = 1 + Bit(~Attends(row[e].owner, e))
      BY <1>3, <3>1 DEF workerVars, RowTurns, Attends, InBatch, Handles, Leased, Bit
    <3>4. Bit(~Attends(row[e].owner, e)) \in Nat
      BY DEF Bit
    <3> QED  BY <1>1, <3>1, <3>2, <3>3, <3>4
  <2>4. CASE Reclaim
    <3>1. causes' = causes
      BY <2>4 DEF Reclaim
    <3>2. CASE row[e].status = "in_flight" /\ row[e].expired
      <4>1. row'[e].status = "pending"
        BY <1>0, <2>4, <3>2 DEF Reclaim, Freed, Rows
      <4>2. RowTurns(e)' = 1
        BY <4>1 DEF RowTurns
      <4>3. RowTurns(e) >= 1
        BY <3>2 DEF RowTurns, Bit
      <4> QED  BY <1>1, <1>2, <3>1, <4>2, <4>3
    <3>3. CASE ~(row[e].status = "in_flight" /\ row[e].expired)
      <4>1. row'[e] = row[e]
        BY <2>4, <3>3 DEF Reclaim
      <4> QED  BY <2>1, <3>1, <4>1
    <3> QED  BY <3>2, <3>3
  <2>5. ASSUME NEW d \in Events, d # e, Add(d) \/ Expire(d)
        PROVE  row'[e] = row[e] /\ causes'[e] = causes[e]
    BY <2>5 DEF Add, Expire, Typed, TypeOK
  <2>6. CASE UNCHANGED vars
    BY <2>1, <2>6 DEF vars
  <2> QED  BY <2>1, <2>2, <2>3, <2>4, <2>5, <2>6
<1> QED  BY <1>1, <1>2, <1>5, <1>6 DEF Affordable

\* Steps of run_once around an event: fetching turns the row's turn into the
\* worker's, a call uses the worker's up.
LEMMA BatchStepPaid ==
    ASSUME Typed, Orderly, NEW w \in Workers, NEW e \in Events,
           Claim(w) \/ Fetch(w) \/ Call(w) \/ Bury(w) \/ Finish(w) \/ Abort(w)
    PROVE  Paid(w, e)
<1>0. /\ row \in [Events -> Rows] /\ row[e] \in Rows /\ OrderlyWorker(w)
      /\ calls[e] \in Nat /\ causes[e] \in Nat
      /\ Turn(w, e) \in {0, 1} /\ Turn(w, e)' \in {0, 1}
      /\ RowTurns(e) \in Nat /\ RowTurns(e)' \in Nat
  BY DEF Typed, TypeOK, Orderly, Turn, RowTurns, Bit
<1>r. OthersRest(w)
  BY OneMoves
<1>1. CASE Claim(w)
  <2> PICK S \in SUBSET WithStatus("pending") :
        row' = [d \in Events |->
                  IF d \in S
                  THEN [status |-> "in_flight", owner |-> w, expired |-> FALSE,
                        version |-> row[d].version + 1,
                        attempts |-> row[d].attempts + 1]
                  ELSE row[d]]
    BY <1>1 DEF Claim
  <2>1. /\ batch' = batch /\ batch[w] = {} /\ pc[w] = "idle" /\ pc'[w] = "leased"
        /\ calls' = calls /\ causes' = causes
    BY <1>0, <1>1 DEF Claim, Goto, Typed, TypeOK, OrderlyWorker
  <2>2. ~InBatch(w, e) /\ ~InBatch(w, e)' /\ ~Attends(w, e)
    BY <2>1 DEF InBatch, Attends, Handles, Busy
  <2>3. Turn(w, e)' = 0
    BY <2>1, <2>2 DEF Turn, HasTurn, Handles, Bit
  <2>4. RowTurns(e)' <= RowTurns(e)
    <3>1. CASE e \in S
      <4>1. RowTurns(e) = 1
        BY <3>1 DEF RowTurns, WithStatus
      <4>2. row'[e].status = "in_flight" /\ row'[e].expired = FALSE
        BY <3>1
      <4>3. RowTurns(e)' <= 1
        BY <4>2 DEF RowTurns, Bit
      <4> QED  BY <4>1, <4>3
    <3>2. CASE e \notin S
      <4>1. row'[e] = row[e]
        BY <3>2
      <4> QED  BY <1>r, <2>2, <4>1, RowKept
    <3> QED  BY <3>1, <3>2
  <2> QED  BY <1>0, <2>1, <2>3, <2>4 DEF Paid
<1>2. CASE Fetch(w)
  <2>1. /\ row' = row /\ pc[w] = "leased" /\ pc'[w] = "next" /\ batch[w] = {}
        /\ batch'[w] = {[event |-> d, version |-> row[d].version,
                         tenure |-> tenures[d]] : d \in HeldBy(w)}
        /\ calls' = calls /\ causes' = causes
    BY <1>0, <1>2 DEF Fetch, Goto, Typed, TypeOK, OrderlyWorker
  <2>2. /\ ~InBatch(w, e) /\ ~Attends(w, e)
        /\ InBatch(w, e)' <=> Leased(w, e)
    <3>1. ~InBatch(w, e) /\ ~Attends(w, e)
      BY <2>1 DEF InBatch, Attends, Handles, Busy
    <3>2. e \in HeldBy(w) <=> Leased(w, e)
      BY DEF HeldBy, WithStatus, Leased
    <3>3. (\E j \in batch'[w] : j.event = e) <=> e \in HeldBy(w)
      <4> DEFINE fetched(d) == [event |-> d, version |-> row[d].version,
                                tenure |-> tenures[d]]
      <4>1. batch'[w] = {fetched(d) : d \in HeldBy(w)}
        BY <2>1
      <4>2. \A d : fetched(d).event = d
        OBVIOUS
      <4> HIDE DEF fetched
      <4> QED  BY <4>1, <4>2
    <3> QED  BY <3>1, <3>2, <3>3 DEF InBatch
  <2>3. CASE Leased(w, e)
    <3>1. Attends(w, e)'
      BY <2>2, <2>3 DEF Attends
    <3>2. RowTurns(e)' + 1 = RowTurns(e)
      BY <1>r, <2>1, <2>2, <2>3, <3>1, RowKept
    <3> QED  BY <1>0, <2>1, <3>2 DEF Paid
  <2>4. CASE ~Leased(w, e)
    <3>1. Turn(w, e)' = 0
      BY <2>1, <2>2, <2>4 DEF Turn, HasTurn, Bit
    <3>2. RowTurns(e)' = RowTurns(e)
      BY <1>r, <2>1, <2>4, RowKept
    <3> QED  BY <1>0, <2>1, <3>1, <3>2 DEF Paid
  <2> QED  BY <2>3, <2>4
<1>3. CASE Call(w)
  <2> PICK j \in batch[w] :
        /\ job' = [job EXCEPT ![w] = j]
        /\ batch' = [batch EXCEPT ![w] = @ \ {j}]
        /\ calls' = [calls EXCEPT ![j.event] = @ + 1]
    BY <1>3 DEF Call
  <2>1. /\ row' = row /\ pc[w] = "next" /\ pc'[w] = "calling" /\ causes' = causes
        /\ job'[w] = j /\ batch'[w] = batch[w] \ {j} /\ j \in Jobs
        /\ calls'[e] = IF j.event = e THEN calls[e] + 1 ELSE calls[e]
    BY <1>3 DEF Call, Goto, Typed, TypeOK
  <2>2. CASE j.event = e
    <3>1. InBatch(w, e) /\ ~InBatch(w, e)'
      BY <1>0, <2>1, <2>2 DEF InBatch, OrderlyWorker
    <3>2. Turn(w, e) = 1 /\ Turn(w, e)' = 0
      BY <2>1, <3>1 DEF Turn, HasTurn, Bit
    <3>3. Leased(w, e) => Attends(w, e)'
      BY <1>0, <2>1, <2>2 DEF Attends, Handles, Leased, Busy, OrderlyWorker
    <3>4. RowTurns(e)' <= RowTurns(e)
      BY <1>0, <1>r, <2>1, <3>3, RowKept
    <3> QED  BY <1>0, <2>1, <2>2, <3>2, <3>4 DEF Paid
  <2>3. CASE j.event # e
    <3>1. InBatch(w, e)' <=> InBatch(w, e)
      BY <2>1, <2>3 DEF InBatch
    <3>2. Turn(w, e)' = Turn(w, e)
      BY <2>1, <3>1 DEF Turn, HasTurn, Bit
    <3>3. RowTurns(e)' <= RowTurns(e)
      BY <1>r, <2>1, <3>1, RowKept DEF Attends, Handles, Busy
    <3> QED  BY <1>0, <2>1, <2>3, <3>2, <3>3 DEF Paid
  <2> QED  BY <2>2, <2>3
<1>4. CASE Bury(w)
  <2> PICK j \in batch[w] :
        /\ job' = [job EXCEPT ![w] = j]
        /\ batch' = [batch EXCEPT ![w] = @ \ {j}]
        /\ IF CanMoveToDlq(j.event) THEN row' = [row EXCEPT ![j.event].status = "dlq"]
                                    ELSE row' = row
    BY <1>4 DEF Bury
  <2>1. /\ pc[w] = "next" /\ pc'[w] = "buried" /\ causes' = causes /\ calls' = calls
        /\ job'[w] = j /\ batch'[w] = batch[w] \ {j} /\ j \in Jobs
    BY <1>4 DEF Bury, Goto, Typed, TypeOK
  <2>2. CASE j.event = e
    <3>1. Turn(w, e)' = 0
      BY <1>0, <2>1, <2>2 DEF Turn, HasTurn, InBatch, Bit, OrderlyWorker
    <3>2. RowTurns(e)' <= RowTurns(e)
      <4>1. CASE CanMoveToDlq(e)
        <5>1. row'[e].status = "dlq"
          BY <1>0, <2>2, <4>1 DEF Rows
        <5> QED  BY <1>0, <5>1 DEF RowTurns
      <4>2. CASE ~CanMoveToDlq(e)
        <5>1. row'[e] = row[e] /\ ~Leased(w, e)
          BY <2>2, <4>2 DEF CanMoveToDlq, Leased
        <5> QED  BY <1>0, <1>r, <5>1, RowKept
      <4> QED  BY <4>1, <4>2
    <3> QED  BY <1>0, <2>1, <3>1, <3>2 DEF Paid
  <2>3. CASE j.event # e
    <3>1. InBatch(w, e)' <=> InBatch(w, e)
      BY <2>1, <2>3 DEF InBatch
    <3>2. Turn(w, e)' = Turn(w, e)
      BY <2>1, <3>1 DEF Turn, HasTurn, Bit
    <3>3. row'[e] = row[e]
      BY <1>0, <2>1, <2>3 DEF Jobs
    <3>4. RowTurns(e)' <= RowTurns(e)
      BY <1>r, <2>1, <3>1, <3>3, RowKept DEF Attends, Handles, Busy
    <3> QED  BY <1>0, <2>1, <3>2, <3>4 DEF Paid
  <2> QED  BY <2>2, <2>3
<1>5. CASE Finish(w)
  <2>1. /\ row' = row /\ pc[w] = "next" /\ pc'[w] = "idle" /\ batch' = batch /\ batch[w] = {}
        /\ calls' = calls /\ causes' = causes
    BY <1>5 DEF Finish, Goto, Typed, TypeOK
  <2>2. ~InBatch(w, e) /\ ~InBatch(w, e)' /\ ~Attends(w, e)
    BY <2>1 DEF InBatch, Attends, Handles, Busy
  <2>3. Turn(w, e)' = 0
    BY <2>1, <2>2 DEF Turn, HasTurn, Bit
  <2>4. RowTurns(e)' <= RowTurns(e)
    BY <1>r, <2>1, <2>2, RowKept
  <2> QED  BY <1>0, <2>1, <2>3, <2>4 DEF Paid
<1>6. CASE Abort(w)
  <2>1. /\ row' = row /\ pc'[w] = "idle" /\ batch'[w] = {} /\ calls' = calls
        /\ causes'[e] = causes[e] + (IF Leased(w, e) THEN 1 ELSE 0)
    BY <1>6 DEF Abort, Drop, Goto, HeldBy, WithStatus, Leased, Typed, TypeOK
  <2>2. Turn(w, e)' = 0
    BY <2>1 DEF Turn, HasTurn, InBatch, Bit
  <2>3. RowTurns(e)' <= RowTurns(e) + 1 /\ (~Leased(w, e) => RowTurns(e)' = RowTurns(e))
    BY <1>r, <2>1, RowKept
  <2> QED  BY <1>0, <2>1, <2>2, <2>3 DEF Paid
<1> QED  BY <1>1, <1>2, <1>3, <1>4, <1>5, <1>6

\* Steps of process_event.  Giving a row back turns the worker's turn into the
\* row's; an error of the provider and a renewal nobody notes are causes.
LEMMA ProcessPaid ==
    ASSUME Typed, Orderly, NEW w \in Workers, NEW e \in Events, Process(w)
    PROVE  Paid(w, e)
<1> DEFINE d == job[w].event
<1>0. /\ row \in [Events -> Rows] /\ row[e] \in Rows /\ OrderlyWorker(w)
      /\ calls[e] \in Nat /\ causes[e] \in Nat
      /\ Turn(w, e) \in {0, 1} /\ Turn(w, e)' \in {0, 1}
      /\ RowTurns(e) \in Nat /\ RowTurns(e)' \in Nat
  BY DEF Typed, TypeOK, Orderly, Turn, RowTurns, Bit
<1>r. OthersRest(w)
  BY OneMoves
<1>b. /\ pc[w] \in Busy /\ job[w] \in Jobs /\ d \in Events /\ calls' = calls
      /\ ~InBatch(w, d)
  <2>1. pc[w] \in Busy /\ calls' = calls
    BY DEF Process, Return, Raise, Renew, RenewCancelled, StopBatch, Complete,
       FailSelect, FailRetry, FailBury, Compensate, Busy
  <2>2. job[w] \in Jobs
    BY <2>1 DEF Typed, Working
  <2>3. ~InBatch(w, d)
    BY <1>0, <2>1 DEF OrderlyWorker, InBatch
  <2> QED  BY <2>1, <2>2, <2>3 DEF Jobs
<1>1. CASE StopBatch(w)
  <2>1. /\ row' = row /\ pc[w] = "calling" /\ pc'[w] = "idle" /\ batch'[w] = {}
        /\ causes'[e] = IF d = e THEN causes[e] + 1 ELSE causes[e]
    BY <1>1 DEF StopBatch, Drop, Goto, CauseAgain, Typed, TypeOK
  <2>2. Turn(w, e)' = 0
    BY <2>1 DEF Turn, HasTurn, InBatch, Bit
  <2>3. RowTurns(e)' <= RowTurns(e) + 1 /\ (Attends(w, e) \/ RowTurns(e)' <= RowTurns(e))
    BY <1>r, <2>1, RowKept
  <2>4. d # e /\ Attends(w, e) => Turn(w, e) = 1
    BY DEF Attends, Handles, Turn, HasTurn, Bit
  <2> QED  BY <1>0, <1>b, <2>1, <2>2, <2>3, <2>4 DEF Paid
<1>2. ASSUME batch'[w] = batch[w], d # e, row'[e] = row[e], causes'[e] = causes[e],
             job'[w] = NoJob \/ job'[w].event = d
      PROVE  Paid(w, e)
  <2>0. NoJob.event # e
    BY OutboxNames DEF NoJob
  <2>1. Turn(w, e)' = Turn(w, e)
    BY <1>2, <2>0 DEF Turn, HasTurn, InBatch, Handles, Bit
  <2>2. RowTurns(e)' <= RowTurns(e)
    BY <1>r, <1>2, RowKept DEF Attends, InBatch, Handles
  <2> QED  BY <1>0, <1>b, <1>2, <2>1, <2>2 DEF Paid
<1>3. CASE d # e /\ ~StopBatch(w)
  <2>1. batch'[w] = batch[w] /\ (job'[w] = NoJob \/ job'[w].event = d)
    BY <1>3, <1>b DEF Process, Return, Raise, Renew, RenewCancelled, Complete,
       FailSelect, FailRetry, FailBury, Compensate, Continue, Jobs, Typed, TypeOK
  <2>2. row'[e] = row[e]
    BY <1>0, <1>3, <1>b DEF Process, Return, Raise, Renew, RenewCancelled, Complete,
       FailSelect, FailRetry, FailBury, Compensate
  <2>3. causes'[e] = causes[e]
    BY <1>3, <1>b DEF Process, Return, Raise, Renew, RenewCancelled, Complete,
       FailSelect, FailRetry, FailBury, Compensate, CauseAgain, Typed, TypeOK
  <2> QED  BY <1>2, <1>3, <2>1, <2>2, <2>3
<1>4. ASSUME d = e, batch'[w] = batch[w]
      PROVE  /\ ~InBatch(w, e) /\ ~InBatch(w, e)'
             /\ pc'[w] = "next" => Turn(w, e)' = 0
             /\ pc'[w] \in {"returned", "giving up", "buried"} => Turn(w, e)' = 0
  BY <1>b, <1>4 DEF InBatch, Turn, HasTurn, Bit
<1>5. CASE d = e /\ (Return(w) \/ Raise(w))
  <2>1. /\ row' = row /\ batch'[w] = batch[w] /\ job'[w] = job[w]
        /\ pc[w] \in Busy \ {"buried"} /\ pc'[w] \in Busy \ {"buried"}
        /\ \/ pc'[w] = "returned" /\ causes'[e] = causes[e]
           \/ causes'[e] = causes[e] + 1
    BY <1>5 DEF Return, Raise, Goto, CauseAgain, Busy, Typed, TypeOK
  <2>2. RowTurns(e)' <= RowTurns(e)
    BY <1>r, <2>1, RowKept DEF Attends, InBatch, Handles, Leased
  <2>3. Turn(w, e)' + causes[e] <= Turn(w, e) + causes'[e]
    <3>1. pc'[w] = "returned" => Turn(w, e)' = 0
      BY <1>4, <1>5, <2>1
    <3> QED  BY <1>0, <2>1, <3>1
  <2>4. causes'[e] \in Nat
    BY <1>0, <2>1
  <2> QED  BY <1>0, <1>b, <2>2, <2>3, <2>4 DEF Paid
<1>6. CASE d = e /\ Renew(w)
  <2>1. /\ pc[w] = "calling" /\ pc'[w] = "calling" /\ batch'[w] = batch[w]
        /\ causes' = causes /\ job'[w] = [job[w] EXCEPT !.version = @ + 1]
        /\ row'[e] = Renewed(row[e]) /\ Leased(w, e) /\ row[e].version = job[w].version
    BY <1>0, <1>6, <1>b DEF Renew, Matches, Leased, Typed, TypeOK
  <2>2. /\ row'[e].status = "in_flight" /\ row'[e].owner = w
        /\ row'[e].expired = FALSE /\ row'[e].version = job'[w].version
        /\ job'[w].event = e
    BY <1>0, <1>6, <1>b, <2>1 DEF Renewed, Leased, Rows, Jobs
  <2>3. RowTurns(e)' = 0
    <3>1. /\ pc'[w] \in Busy \ {"buried"} /\ job'[w].event = e
          /\ row'[e].version = job'[w].version
      BY <2>1, <2>2 DEF Busy
    <3>2. RowTurns(e)' = Bit(FALSE) + Bit(~TRUE)
      BY <2>2, <3>1 DEF RowTurns, Attends, Handles, Leased, Bit
    <3> QED  BY <3>2 DEF Bit
  <2>4. Turn(w, e)' = 0
    BY <1>4, <1>6, <2>1 DEF Turn, HasTurn, Bit
  <2> QED  BY <1>0, <1>b, <2>1, <2>3, <2>4 DEF Paid
<1>7. CASE d = e /\ RenewCancelled(w)
  <2>1. /\ pc'[w] \in {"returned", "raised"} /\ batch'[w] = batch[w]
        /\ causes'[e] = causes[e] + 1 /\ job'[w] = job[w]
        /\ row'[e] = Renewed(row[e]) /\ Leased(w, e) /\ row[e].version = job[w].version
    BY <1>0, <1>7, <1>b DEF RenewCancelled, Matches, Leased, CauseAgain, Goto, Typed, TypeOK
  <2>2. /\ row'[e].expired = FALSE /\ row'[e].version # job'[w].version
        /\ row'[e].status = "in_flight"
    BY <1>0, <1>7, <1>b, <2>1 DEF Renewed, Leased, Rows, Jobs
  <2>3. RowTurns(e)' <= 1
    BY <2>2 DEF RowTurns, Bit
  <2>4. Turn(w, e)' = 0
    BY <1>4, <1>7, <2>1, <2>2 DEF Turn, HasTurn, Handles, Bit
  <2> QED  BY <1>0, <1>b, <2>1, <2>3, <2>4 DEF Paid
<1>8. CASE d = e /\ Complete(w)
  <2>1. pc[w] = "returned" /\ pc'[w] = "next" /\ batch'[w] = batch[w] /\ causes' = causes
    BY <1>8 DEF Complete, Continue, Goto, Typed, TypeOK
  <2>2. RowTurns(e)' <= RowTurns(e)
    <3>1. CASE Matches(w)
      <4>1. row'[e].status = "completed"
        BY <1>0, <1>8, <1>b, <3>1 DEF Complete, Rows
      <4> QED  BY <1>0, <4>1 DEF RowTurns
    <3>2. CASE ~Matches(w)
      <4>1. row' = row /\ ~Attends(w, e)
        BY <1>4, <1>8, <2>1, <3>2 DEF Complete, Matches, Attends, Handles, Leased
      <4> QED  BY <1>r, <4>1, RowKept
    <3> QED  BY <3>1, <3>2
  <2> QED  BY <1>0, <1>4, <1>8, <1>b, <2>1, <2>2 DEF Paid
<1>9. CASE d = e /\ FailSelect(w)
  <2>1. row' = row /\ pc[w] = "raised" /\ batch'[w] = batch[w] /\ causes' = causes
    BY <1>9 DEF FailSelect
  <2>2. CASE Matches(w)
    <3>1. pc'[w] \in {"giving up", "retrying"} /\ job' = job
      BY <1>9, <2>2 DEF FailSelect, Goto, Typed, TypeOK
    <3>2. Turn(w, e) = 1
      BY <1>9, <2>1, <2>2 DEF Turn, HasTurn, Handles, Matches, Leased, Busy, Bit
    <3>3. Attends(w, e)'
      BY <1>9, <2>1, <2>2, <3>1 DEF Attends, Handles, Matches, Leased, Busy
    <3>4. RowTurns(e)' <= RowTurns(e)
      BY <1>r, <2>1, <3>3, RowKept
    <3> QED  BY <1>0, <1>b, <2>1, <3>2, <3>4 DEF Paid
  <2>3. CASE ~Matches(w)
    <3>1. pc'[w] = "next"
      BY <1>9, <2>3 DEF FailSelect, Continue, Goto, Typed, TypeOK
    <3>2. ~Attends(w, e)
      BY <1>4, <1>9, <2>1, <2>3 DEF Matches, Attends, Handles, Leased
    <3>3. RowTurns(e)' <= RowTurns(e)
      BY <1>r, <2>1, <3>2, RowKept
    <3> QED  BY <1>0, <1>4, <1>9, <1>b, <2>1, <3>1, <3>3 DEF Paid
  <2> QED  BY <2>2, <2>3
<1>10. CASE d = e /\ FailRetry(w)
  <2>1. /\ pc[w] = "retrying" /\ pc'[w] = "next" /\ batch'[w] = batch[w]
        /\ causes' = causes
    BY <1>10 DEF FailRetry, Continue, Goto, Typed, TypeOK
  <2>2. Turn(w, e) = 1 /\ Turn(w, e)' = 0
    BY <1>4, <1>10, <2>1 DEF Turn, HasTurn, Bit
  <2>3. CASE CanFail(e)
    <3>1. row'[e].status = "pending"
      BY <1>0, <1>10, <1>b, <2>3 DEF FailRetry, Freed, Rows
    <3>2. RowTurns(e)' = 1
      BY <3>1 DEF RowTurns
    <3> QED  BY <1>0, <1>b, <2>1, <2>2, <3>2 DEF Paid
  <2>4. CASE ~CanFail(e)
    <3>1. row' = row /\ ~Leased(w, e)
      BY <1>10, <2>4 DEF FailRetry, CanFail, Leased
    <3>2. RowTurns(e)' = RowTurns(e)
      BY <1>r, <3>1, RowKept
    <3> QED  BY <1>0, <1>b, <2>1, <2>2, <3>2 DEF Paid
  <2> QED  BY <2>3, <2>4
<1>11. CASE d = e /\ FailBury(w)
  <2>1. pc'[w] = "buried" /\ batch'[w] = batch[w] /\ causes' = causes
    BY <1>11 DEF FailBury, Goto, Typed, TypeOK
  <2>2. RowTurns(e)' <= RowTurns(e)
    <3>1. CASE CanFail(e)
      <4>1. row'[e].status = "dlq"
        BY <1>0, <1>11, <1>b, <3>1 DEF FailBury, Rows
      <4> QED  BY <1>0, <4>1 DEF RowTurns
    <3>2. CASE ~CanFail(e)
      <4>1. row' = row /\ ~Leased(w, e)
        BY <1>11, <3>2 DEF FailBury, CanFail, Leased
      <4> QED  BY <1>0, <1>r, <4>1, RowKept
    <3> QED  BY <3>1, <3>2
  <2> QED  BY <1>0, <1>4, <1>11, <1>b, <2>1, <2>2 DEF Paid
<1>12. CASE d = e /\ Compensate(w)
  <2>1. /\ pc[w] = "buried" /\ pc'[w] = "next" /\ batch'[w] = batch[w]
        /\ causes' = causes /\ row' = row
    BY <1>12 DEF Compensate, Continue, Goto, Typed, TypeOK
  <2>2. ~Attends(w, e)
    BY <1>4, <1>12, <2>1 DEF Attends, Handles
  <2>3. RowTurns(e)' <= RowTurns(e)
    BY <1>r, <2>1, <2>2, RowKept
  <2> QED  BY <1>0, <1>4, <1>12, <1>b, <2>1, <2>3 DEF Paid
<1> HIDE DEF d
<1> QED
  BY <1>1, <1>3, <1>5, <1>6, <1>7, <1>8, <1>9, <1>10, <1>11, <1>12 DEF Process

LEMMA StepAfforded ==
    ASSUME Typed, Orderly, Afforded, [Next]_vars
    PROVE  Afforded'
<1>0. Typed'
  BY StepTyped
<1> SUFFICES ASSUME NEW e \in Events PROVE Affordable(e)'
  BY DEF Afforded
<1>a. Affordable(e)
  BY DEF Afforded
<1>1. CASE (\E d \in Events : Add(d) \/ Expire(d)) \/ Reclaim \/ UNCHANGED vars
  BY <1>0, <1>1, <1>a, RowStepAffords
<1>2. ASSUME NEW w \in Workers,
             \/ Claim(w) \/ Fetch(w) \/ Call(w) \/ Bury(w) \/ Finish(w) \/ Abort(w)
             \/ Process(w)
      PROVE  Affordable(e)'
  <2>1. OthersRest(w) /\ Paid(w, e)
    BY <1>2, OneMoves, BatchStepPaid, ProcessPaid
  <2>2. \A v \in Workers \ {w} : row'[e].status = "in_flight" /\ row'[e].owner = v =>
           Leased(v, e) /\ row'[e].version = row[e].version
    <3>0. row \in [Events -> Rows]
      BY DEF Typed, TypeOK
    <3>1. CASE Claim(w)
      <4>1. row'[e] = row[e] \/ row'[e].owner = w
        BY <3>1 DEF Claim
      <4> QED  BY <4>1 DEF Leased
    <3>2. CASE Renew(w) \/ RenewCancelled(w)
      <4>1. row'[e] = row[e] \/ row'[e].owner = w
        BY <3>0, <3>2 DEF Renew, RenewCancelled, Matches, Renewed, Rows
      <4> QED  BY <4>1 DEF Leased
    <3>3. CASE ~Claim(w) /\ ~Renew(w) /\ ~RenewCancelled(w)
      <4>1. LeasesOnlyEnd
        BY <1>2, <3>3, WorkersEndLeases DEF Process
      <4> QED  BY <4>1 DEF LeasesOnlyEnd, Leased
    <3> QED  BY <3>1, <3>2, <3>3
  <2>3. Holders(e)' \ {w} \subseteq Holders(e)
    BY <2>1, <2>2, OthersKeepTurns
  <2> QED  BY <1>0, <1>a, <2>1, <2>3, PaidAffords
<1> QED  BY <1>1, <1>2 DEF Next

LEMMA InitAfforded == Init => Orderly /\ Afforded
<1> SUFFICES ASSUME Init PROVE Orderly /\ Afforded
  OBVIOUS
<1>1. Orderly
  BY DEF Init, Orderly, OwnersWork, OrderlyWorker, Busy
<1>2. ASSUME NEW e \in Events PROVE Affordable(e)
  <2>1. Holders(e) = {}
    BY DEF Init, Holders, HasTurn, InBatch
  <2>2. RowTurns(e) = 1 /\ calls[e] = 0 /\ causes[e] = 0
    BY DEF Init, RowTurns
  <2> QED  BY <2>1, <2>2, FS_EmptySet DEF Affordable
<1> QED  BY <1>1, <1>2 DEF Afforded

\* A provider is called again for an event only for a cause: an expired lease, an
\* error of the provider, a cancelled renewal or a worker that failed.
THEOREM ExtraCallsExplained == Spec => []ExtraCallsHaveCauses
<1>1. Init => Orderly /\ Afforded
  BY InitAfforded
<1>2. Typed /\ Orderly /\ Afforded /\ [Next]_vars => Orderly' /\ Afforded'
  BY StepOrderly, StepAfforded
<1>3. Typed /\ Afforded => ExtraCallsHaveCauses
  <2> SUFFICES ASSUME Typed, Afforded, NEW e \in Events
               PROVE  calls[e] <= 1 + causes[e]
    BY DEF ExtraCallsHaveCauses
  <2>1. RowTurns(e) \in Nat
    BY DEF RowTurns, Bit
  <2>2. Cardinality(Holders(e)) \in Nat
    BY FS_CardinalityType DEF Afforded, Affordable
  <2>3. calls[e] \in Nat /\ causes[e] \in Nat
    BY DEF Typed, TypeOK
  <2> QED  BY <2>1, <2>2, <2>3 DEF Afforded, Affordable
<1> QED  BY <1>1, <1>2, <1>3, AlwaysTyped, PTL DEF Spec
=============================================================================
