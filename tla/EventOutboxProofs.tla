-------------------------- MODULE EventOutboxProofs --------------------------
(***************************************************************************)
(* Proofs about EventOutbox for every set of events, drainers and task     *)
(* identifiers and every bound.                                            *)
(***************************************************************************)
EXTENDS EventOutbox, TLAPS

(***************************************************************************)
(* The parts of the inductive invariant that the properties do not state.  *)
(***************************************************************************)
\* A stored task carries an event one of whose async subscriptions yields its
\* identifier.
TaskShape ==
  \A t \in TaskIds : taskSt[t] # "none" =>
    /\ taskEvt[t] \in Events
    /\ \E i \in AsyncOf(taskEvt[t]) : TaskId[taskEvt[t]][i] = t

\* A drainer marks only rows it has claimed, and publishes an unmarked one.
DrainShape ==
  \A d \in Drainers :
    /\ drPc[d] = "dispatch" => cur[d] \in Unmarked(d)
    /\ drPc[d] = "idle" => batch[d] = {}
    /\ \A e \in Events : eff[d][e] # "none" => e \in batch[d]

Shape == TypeOK /\ TaskShape /\ DrainShape

\* Storing a task keeps the types of what Redis holds.
LEMMA StoreTaskType ==
  ASSUME TypeOK, NEW t \in TaskIds, NEW e \in Events, StoreTask(t, e)
  PROVE  /\ taskSt' \in [TaskIds -> TaskStates]
         /\ taskEvt' \in [TaskIds -> Events \cup {NoEvent}]
         /\ taskTries' \in [TaskIds -> 0..TaskMaxRetry]
<1>1. /\ taskSt \in [TaskIds -> TaskStates]
      /\ taskEvt \in [TaskIds -> Events \cup {NoEvent}]
      /\ taskTries \in [TaskIds -> 0..TaskMaxRetry]
  BY DEF TypeOK
<1>2. CASE taskSt[t] = "none"
  BY <1>1, <1>2, BoundsAssumption DEF StoreTask, TaskStates
<1>3. CASE taskSt[t] # "none"
  BY <1>1, <1>3 DEF StoreTask, taskVars
<1>4. QED BY <1>2, <1>3

\* One iteration of the dispatch loop keeps every type.
LEMMA DispatchType ==
  ASSUME TypeOK, NEW x \in Actors, NEW e \in Events, DispatchStep(x, e)
  PROVE  TypeOK'
<1>1. /\ disp[x].i \in 1..Len(Subs[e])
      /\ TaskId[e][disp[x].i] \in TaskIds
  BY SubsAssumption DEF TypeOK, Locals, DispatchStep, Dispatched
<1>2. /\ taskSt' \in [TaskIds -> TaskStates]
      /\ taskEvt' \in [TaskIds -> Events \cup {NoEvent}]
      /\ taskTries' \in [TaskIds -> 0..TaskMaxRetry]
  BY <1>1, StoreTaskType
     DEF DispatchStep, EnqueueOk, EnqueueErr, RunSync, taskVars, TypeOK
<1>3. disp' \in [Actors -> Locals] /\ faults' \in 0..MaxFaults
  <2>1. disp \in [Actors -> Locals] /\ faults \in 0..MaxFaults /\ MaxFaults \in Nat
    BY BoundsAssumption DEF TypeOK
  <2>2. CASE EnqueueOk(x, e)
    BY <2>1, <2>2 DEF EnqueueOk, NoFault, Locals
  <2>3. CASE EnqueueErr(x, e)
    BY <2>1, <2>3 DEF EnqueueErr, Fault, Locals
  <2>4. CASE RunSync(x, e)
    <3>1. CASE disp' = [disp EXCEPT ![x].i = @ + 1] /\ NoFault
      BY <2>1, <3>1 DEF NoFault, Locals
    <3>2. CASE Fault /\ disp' = [disp EXCEPT ![x] = [i |-> @.i + 1, enq |-> @.enq, crit |-> TRUE]]
      BY <2>1, <3>2 DEF Fault, Locals
    <3>3. QED BY <2>4, <3>1, <3>2 DEF RunSync
  <2>5. QED BY <2>2, <2>3, <2>4 DEF DispatchStep
<1>4. UNCHANGED <<rowVars, done, pubPc, drVars>>
  BY DEF DispatchStep
<1>5. QED BY <1>2, <1>3, <1>4 DEF TypeOK, rowVars, drVars

\* So do the marks a transaction applies to the outbox table.
LEMMA MarksType ==
  ASSUME TypeOK, NEW marks, ApplyMarks(marks)
  PROVE  /\ rowSt' \in [Events -> RowStates]
         /\ retry' \in [Events -> Nat]
         /\ cooling' \in [Events -> BOOLEAN]
         /\ dead' \in [Events -> Nat]
<1>1. rowSt' \in [Events -> RowStates]
  BY DEF TypeOK, ApplyMarks, RowStates
<1>2. retry' \in [Events -> Nat] /\ dead' \in [Events -> Nat]
  BY DEF TypeOK, ApplyMarks
<1>3. cooling' \in [Events -> BOOLEAN]
  BY DEF TypeOK, ApplyMarks
<1>4. QED BY <1>1, <1>2, <1>3

\* The locals a dispatch starts with, and the empty marks, are well typed.
LEMMA StartType == DispatchStart \in Locals /\ NoMarks \in [Events -> Marks]
BY DEF DispatchStart, Locals, NoMarks, Marks

\* A task that is archived or completed leaves Redis well typed.
LEMMA EndTaskType ==
  ASSUME TypeOK, NEW t \in TaskIds, Archive(t) \/ Complete(t)
  PROVE  /\ taskSt' \in [TaskIds -> TaskStates]
         /\ taskEvt' \in [TaskIds -> Events \cup {NoEvent}]
         /\ taskTries' \in [TaskIds -> 0..TaskMaxRetry]
<1>1. CASE Archive(t)
  BY <1>1 DEF Archive, TypeOK, TaskStates
<1>2. CASE Complete(t)
  BY <1>2, BoundsAssumption DEF Complete, TypeOK, TaskStates
<1>3. QED BY <1>1, <1>2

\* What a run of the handlers adds to done.
LEMMA HandlersType ==
  ASSUME TypeOK, TaskShape, NEW t \in TaskIds, Decodable(t),
         NEW S \in SUBSET AsyncOf(taskEvt[t]), Ran(taskEvt[t], S)
  PROVE  done' \subseteq Events \X Nat
<1>1. taskEvt[t] \in Events /\ S \subseteq Nat
  BY SubsAssumption DEF TaskShape, Decodable, AsyncOf
<1>2. QED BY <1>1 DEF Ran, TypeOK

\* The initial state is well typed.
LEMMA InitType == Init => TypeOK
BY StartType, BoundsAssumption
   DEF Init, TypeOK, RowStates, TaskStates, PubStates

\* Every step keeps the types.
LEMMA NextType ==
  ASSUME TypeOK, TaskShape, DrainShape, [Next]_vars
  PROVE  TypeOK'
<1> USE StartType
<1>0. MaxFaults \in Nat /\ faults \in 0..MaxFaults
  BY BoundsAssumption DEF TypeOK
<1>1. ASSUME NEW e \in Events, PublishStep(e) PROVE TypeOK'
  <2>1. CASE PublishInTx(e)
    BY <2>1 DEF PublishInTx, TypeOK, PubStates, RowStates, taskVars, drVars
  <2>2. CASE CommitTx(e)
    BY <2>2 DEF CommitTx, TypeOK, PubStates, RowStates, taskVars, drVars
  <2>3. CASE RollbackTx(e)
    BY <2>3 DEF RollbackTx, TypeOK, PubStates, RowStates, taskVars, drVars
  <2>4. CASE CommitDomain(e)
    BY <2>4 DEF CommitDomain, TypeOK, PubStates, rowVars, taskVars, drVars
  <2>5. CASE PublishDirect(e)
    <3>1. rowSt' \in [Events -> RowStates]
      BY <2>5 DEF PublishDirect, TypeOK, RowStates
    <3>2. faults' \in 0..MaxFaults
      BY <2>5, <1>0 DEF PublishDirect, Fault, NoFault
    <3>3. pubPc' \in [Events -> PubStates]
      BY <2>5 DEF PublishDirect, TypeOK, PubStates
    <3>4. QED
      BY <2>5, <3>1, <3>2, <3>3 DEF PublishDirect, TypeOK, taskVars, drVars
  <2>6. CASE FinishDirect(e)
    <3>1. /\ rowSt' \in [Events -> RowStates]
          /\ retry' \in [Events -> Nat]
          /\ cooling' \in [Events -> BOOLEAN]
          /\ dead' \in [Events -> Nat]
      BY <2>6, MarksType DEF FinishDirect, rowVars, TypeOK
    <3>2. pubPc' \in [Events -> PubStates] /\ disp' \in [Actors -> Locals]
      BY <2>6 DEF FinishDirect, TypeOK, PubStates, PublishResult, Actors
    <3>3. faults' \in 0..MaxFaults
      BY <2>6, <1>0 DEF FinishDirect, Fault, NoFault
    <3>4. QED
      BY <2>6, <3>1, <3>2, <3>3 DEF FinishDirect, TypeOK, taskVars, drVars
  <2>7. CASE DispatchStep(e, e)
    BY <2>7, DispatchType DEF Actors
  <2>8. QED
    BY <1>1, <2>1, <2>2, <2>3, <2>4, <2>5, <2>6, <2>7 DEF PublishStep
<1>2. ASSUME NEW e \in Events, CrashDirect(e) PROVE TypeOK'
  BY <1>0, <1>2
     DEF CrashDirect, Fault, TypeOK, PubStates, Actors, rowVars, taskVars,
         drVars
<1>3. ASSUME NEW e \in Events, BackoffElapses(e) PROVE TypeOK'
  BY <1>3 DEF BackoffElapses, TypeOK, taskVars, drVars
<1>4. ASSUME NEW e \in Events, Sweep(e) PROVE TypeOK'
  BY <1>4 DEF Sweep, TypeOK, RowStates, taskVars, drVars
<1>5. ASSUME NEW d \in Drainers, DrainStep(d) PROVE TypeOK'
  <2>1. CASE ClaimBatch(d)
    <3>1. \A S \in FirstRows(PendingRows) : S \subseteq Events
      BY DEF FirstRows, PendingRows
    <3>2. QED
      BY <2>1, <3>1 DEF ClaimBatch, TypeOK, rowVars, taskVars
  <2>2. CASE DeadLetterRow(d)
    BY <2>2 DEF DeadLetterRow, Unmarked, TypeOK, Marks, rowVars, taskVars
  <2>3. CASE PublishRow(d)
    BY <2>3 DEF PublishRow, Unmarked, TypeOK, rowVars, taskVars
  <2>4. CASE MarkRow(d)
    BY <2>4 DEF MarkRow, TypeOK, Marks, Actors, rowVars, taskVars
  <2>5. CASE drPc[d] = "dispatch" /\ DispatchStep(d, cur[d])
    <3>1. cur[d] \in Events
      BY <2>5 DEF DrainShape, Unmarked, TypeOK
    <3>2. QED BY <2>5, <3>1, DispatchType DEF Actors
  <2>6. CASE CommitBatch(d)
    <3>1. UNCHANGED <<taskVars, done, pubPc, faults>> /\ EndBatch(d)
      BY <2>6 DEF CommitBatch
    <3>2. /\ rowSt' \in [Events -> RowStates]
          /\ retry' \in [Events -> Nat]
          /\ cooling' \in [Events -> BOOLEAN]
          /\ dead' \in [Events -> Nat]
      BY <2>6, MarksType DEF CommitBatch
    <3>3. QED
      BY <3>1, <3>2 DEF EndBatch, TypeOK, Actors, taskVars
  <2>7. QED
    BY <1>5, <2>1, <2>2, <2>3, <2>4, <2>5, <2>6 DEF DrainStep
<1>6. ASSUME NEW d \in Drainers, AbortBatch(d) PROVE TypeOK'
  BY <1>0, <1>6
     DEF AbortBatch, EndBatch, Fault, TypeOK, Actors, rowVars, taskVars
<1>7. ASSUME NEW t \in TaskIds, WorkerStep(t) PROVE TypeOK'
  <2>1. CASE TaskSkipped(t)
    <3>1. /\ taskSt' \in [TaskIds -> TaskStates]
          /\ taskEvt' \in [TaskIds -> Events \cup {NoEvent}]
          /\ taskTries' \in [TaskIds -> 0..TaskMaxRetry]
      BY <2>1, EndTaskType DEF TaskSkipped
    <3>2. QED
      BY <2>1, <3>1 DEF TaskSkipped, TypeOK, rowVars, drVars
  <2>2. CASE TaskSucceeds(t)
    <3>1. done' \subseteq Events \X Nat
      BY <2>2, HandlersType DEF TaskSucceeds
    <3>2. QED
      BY <2>2, <3>1, BoundsAssumption
         DEF TaskSucceeds, Complete, TypeOK, TaskStates, rowVars, drVars
  <2>3. CASE TaskFails(t)
    <3>1. done' \subseteq Events \X Nat
      BY <2>3, HandlersType DEF TaskFails
    <3>2. faults' \in 0..MaxFaults
      BY <1>0, <2>3 DEF TaskFails, Fault
    <3>3. /\ taskSt' \in [TaskIds -> TaskStates]
          /\ taskEvt' \in [TaskIds -> Events \cup {NoEvent}]
          /\ taskTries' \in [TaskIds -> 0..TaskMaxRetry]
      BY <2>3, EndTaskType, BoundsAssumption, SMTT(30) DEF TaskFails, TypeOK
    <3>4. QED
      BY <2>3, <3>1, <3>2, <3>3 DEF TaskFails, TypeOK, rowVars, drVars
  <2>4. QED BY <1>7, <2>1, <2>2, <2>3 DEF WorkerStep
<1>8. ASSUME NEW t \in TaskIds, TaskInterrupted(t) PROVE TypeOK'
  <2>1. done' \subseteq Events \X Nat
    BY <1>8, HandlersType DEF TaskInterrupted
  <2>2. faults' \in 0..MaxFaults
    BY <1>0, <1>8 DEF TaskInterrupted, Fault
  <2>3. QED
    BY <1>8, <2>1, <2>2 DEF TaskInterrupted, TypeOK, rowVars, taskVars, drVars
<1>9. CASE UNCHANGED vars
  BY <1>9 DEF vars, rowVars, taskVars, drVars, TypeOK
<1>10. QED
  BY <1>1, <1>2, <1>3, <1>4, <1>5, <1>6, <1>7, <1>8, <1>9 DEF Next

\* No task, no claim and no mark exists initially.
LEMMA InitShape == Init => TaskShape /\ DrainShape
BY DEF Init, TaskShape, DrainShape, NoMarks

-----------------------------------------------------------------------------
\* The only steps that touch Redis: storing a task, or ending one.
LEMMA DispatchTaskShape ==
  ASSUME TypeOK, TaskShape, NEW x \in Actors, NEW e \in Events,
         DispatchStep(x, e)
  PROVE  TaskShape'
<1>1. /\ disp[x].i \in 1..Len(Subs[e])
      /\ TaskId[e][disp[x].i] \in TaskIds
  BY SubsAssumption DEF TypeOK, Locals, DispatchStep, Dispatched
<1>2. CASE UNCHANGED taskVars
  BY <1>2 DEF TaskShape, taskVars
<1>3. CASE Subs[e][disp[x].i] = "async" /\ StoreTask(TaskId[e][disp[x].i], e)
  <2>1. disp[x].i \in AsyncOf(e)
    BY <1>1, <1>3 DEF AsyncOf
  <2>2. CASE taskSt[TaskId[e][disp[x].i]] = "none"
    <3> DEFINE u == TaskId[e][disp[x].i]
    <3>1. /\ taskSt' = [taskSt EXCEPT ![u] = "queued"]
          /\ taskEvt' = [taskEvt EXCEPT ![u] = e]
      BY <1>3, <2>2 DEF StoreTask
    <3>2. taskEvt'[u] = e /\ \E i \in AsyncOf(e) : TaskId[e][i] = u
      BY <1>1, <2>1, <3>1 DEF TypeOK
    <3>3. ASSUME NEW t \in TaskIds, t # u
          PROVE  taskSt'[t] = taskSt[t] /\ taskEvt'[t] = taskEvt[t]
      BY <3>1, <3>3 DEF TypeOK
    <3> HIDE DEF u
    <3>4. QED BY <3>2, <3>3 DEF TaskShape
  <2>3. QED BY <1>2, <1>3, <2>2 DEF StoreTask
<1>4. QED
  BY <1>2, <1>3 DEF DispatchStep, EnqueueOk, EnqueueErr, RunSync

\* Every step keeps a stored task under an identifier of its event.
LEMMA NextTaskShape ==
  ASSUME TypeOK, TaskShape, DrainShape, [Next]_vars
  PROVE  TaskShape'
<1>1. CASE UNCHANGED taskVars
  BY <1>1 DEF TaskShape, taskVars
<1>2. ASSUME NEW t \in TaskIds, WorkerStep(t) PROVE TaskShape'
  <2>1. CASE Archive(t) /\ taskSt[t] = "queued"
    BY <2>1 DEF Archive, TaskShape, TypeOK
  <2>2. CASE Complete(t)
    BY <2>2 DEF Complete, TaskShape, TypeOK
  <2>3. CASE UNCHANGED <<taskSt, taskEvt>>
    BY <2>3 DEF TaskShape
  <2>4. QED
    BY <1>2, <2>1, <2>2, <2>3
       DEF WorkerStep, TaskSkipped, TaskSucceeds, TaskFails, Decodable
<1>3. ASSUME NEW e \in Events, DispatchStep(e, e) PROVE TaskShape'
  BY <1>3, DispatchTaskShape DEF Actors
<1>4. ASSUME NEW d \in Drainers, drPc[d] = "dispatch", DispatchStep(d, cur[d])
      PROVE TaskShape'
  BY <1>4, DispatchTaskShape DEF Actors, DrainShape, Unmarked, TypeOK
<1>5. QED
  BY <1>1, <1>2, <1>3, <1>4
     DEF Next, vars, PublishStep, DrainStep, PublishInTx, CommitTx, RollbackTx,
         CommitDomain, PublishDirect, FinishDirect, CrashDirect, BackoffElapses,
         Sweep, ClaimBatch, DeadLetterRow, PublishRow, MarkRow, CommitBatch,
         AbortBatch, TaskInterrupted

\* Only the drainer's own steps move its transaction.
LEMMA NextDrainShape ==
  ASSUME TypeOK, DrainShape, [Next]_vars
  PROVE  DrainShape'
<1>1. CASE UNCHANGED drVars
  BY <1>1 DEF drVars, DrainShape, Unmarked
<1>2. ASSUME NEW d \in Drainers, DrainStep(d) PROVE DrainShape'
  <2>1. CASE ClaimBatch(d)
    BY <2>1 DEF ClaimBatch, DrainShape, Unmarked, TypeOK
  <2>2. CASE DeadLetterRow(d)
    BY <2>2 DEF DeadLetterRow, DrainShape, Unmarked, TypeOK
  <2>3. CASE PublishRow(d)
    BY <2>3 DEF PublishRow, DrainShape, Unmarked, TypeOK
  <2>4. CASE MarkRow(d)
    BY <2>4 DEF MarkRow, DrainShape, Unmarked, TypeOK
  <2>5. CASE CommitBatch(d)
    BY <2>5 DEF CommitBatch, EndBatch, DrainShape, Unmarked, TypeOK, NoMarks
  <2>6. QED
    BY <1>1, <1>2, <2>1, <2>2, <2>3, <2>4, <2>5 DEF DrainStep, DispatchStep
<1>3. ASSUME NEW d \in Drainers, AbortBatch(d) PROVE DrainShape'
  BY <1>3 DEF AbortBatch, EndBatch, DrainShape, Unmarked, TypeOK, NoMarks
<1>4. QED
  BY <1>1, <1>2, <1>3
     DEF Next, vars, PublishStep, DispatchStep, PublishInTx, CommitTx,
         RollbackTx,
         CommitDomain, PublishDirect, FinishDirect, CrashDirect, BackoffElapses,
         Sweep, WorkerStep, TaskSkipped, TaskSucceeds, TaskFails, TaskInterrupted

\* Type correctness of the pipeline for every value of the constants: no
\* interleaving of publishers, drainers, workers and the sweep leaves a
\* variable outside its type.
THEOREM TypeCorrect == Spec => []TypeOK
<1>1. Init => Shape
  BY InitType, InitShape DEF Shape
<1>2. Shape /\ [Next]_vars => Shape'
  BY NextType, NextTaskShape, NextDrainShape DEF Shape
<1>3. Shape => TypeOK
  BY DEF Shape
<1>4. QED BY <1>1, <1>2, <1>3, PTL DEF Spec

-----------------------------------------------------------------------------
(***************************************************************************)
(* Claims, retries, dead letters and dedupe keys                           *)
(***************************************************************************)
\* An uncommitted row belongs to an open service transaction, and a request
\* that has not written its row yet has none.
PublishShape ==
  \A e \in Events :
    /\ pubPc[e] \in {"start", "domain"} => rowSt[e] = "none"
    /\ pubPc[e] = "inTx" => rowSt[e] = IF Subs[e] = <<>> THEN "none" ELSE "open"
    /\ rowSt[e] = "open" => pubPc[e] = "inTx"

\* A claimed row still has an attempt left.
ClaimedRetryable ==
  \A d \in Drainers : \A e \in batch[d] : retry[e] < MaxRetry

RowInv ==
  /\ PublishShape /\ ClaimedRetryable /\ ExclusiveClaim
  /\ DeadLetteredOnce /\ OneRowPerKey /\ AttemptsBounded

\* The table is empty initially, so nothing is claimed or duplicated.
LEMMA InitRowInv == Init => RowInv
BY BoundsAssumption
   DEF Init, RowInv, PublishShape, ClaimedRetryable, ExclusiveClaim,
       DeadLetteredOnce, OneRowPerKey, AttemptsBounded

\* Steps that leave the table, the requests and the claims alone.
LEMMA RowInvStable ==
  ASSUME RowInv, UNCHANGED <<rowSt, retry, dead, pubPc, batch>>
  PROVE  RowInv'
BY DEF RowInv, PublishShape, ClaimedRetryable, ExclusiveClaim,
       DeadLetteredOnce, OneRowPerKey, AttemptsBounded, SameKey

\* An insert that neither waits for the dedupe index nor violates it.
LEMMA FreshKey ==
  ASSUME NEW e \in Events, OneRowPerKey, ~KeyBusy(e), ~KeyTaken(e),
         rowSt \in [Events -> RowStates],
         NEW st, rowSt' = [rowSt EXCEPT ![e] = st]
  PROVE  OneRowPerKey'
<1>1. \A f \in Events : SameKey(e, f) => rowSt[f] \notin {"open", "pending"}
  BY DEF KeyBusy, KeyTaken
<1>2. \A f \in Events : SameKey(f, e) => SameKey(e, f)
  BY DEF SameKey
<1>3. \A f \in Events \ {e} : rowSt'[f] = rowSt[f]
  OBVIOUS
<1>4. ASSUME NEW f \in Events, NEW g \in Events, SameKey(f, g),
             rowSt'[f] \in {"open", "pending"}, rowSt'[g] \in {"open", "pending"}
      PROVE FALSE
  <2>1. f # e \/ g # e
    BY <1>4 DEF SameKey
  <2>2. CASE f # e /\ g # e
    BY <1>3, <1>4, <2>2 DEF OneRowPerKey
  <2>3. CASE f = e
    BY <1>1, <1>3, <1>4, <2>1, <2>3
  <2>4. CASE g = e
    BY <1>1, <1>2, <1>3, <1>4, <2>1, <2>4
  <2>5. QED BY <2>2, <2>3, <2>4
<1>5. QED BY <1>4 DEF OneRowPerKey, SameKey

\* Every step keeps the table, the claims and the requests in accord.
LEMMA NextRowInv ==
  ASSUME Shape, RowInv, [Next]_vars
  PROVE  RowInv'
<1> USE DEF Shape
<1>0. /\ rowSt \in [Events -> RowStates] /\ retry \in [Events -> Nat]
      /\ dead \in [Events -> Nat] /\ pubPc \in [Events -> PubStates]
      /\ batch \in [Drainers -> SUBSET Events] /\ MaxRetry \in Nat
  BY BoundsAssumption DEF TypeOK
<1>1. ASSUME NEW e \in Events, PublishInTx(e) PROVE RowInv'
  <2>1. /\ pubPc[e] = "start" /\ rowSt[e] = "none"
        /\ UNCHANGED <<retry, dead, batch>>
    BY <1>1 DEF PublishInTx, RowInv, PublishShape, drVars
  <2>2. CASE rowSt' = rowSt /\ pubPc' = [pubPc EXCEPT ![e] = "err"]
    BY <1>0, <2>1, <2>2
       DEF RowInv, PublishShape, ClaimedRetryable, ExclusiveClaim,
           DeadLetteredOnce, OneRowPerKey, AttemptsBounded, SameKey
  <2>3. CASE /\ Subs[e] = <<>> /\ rowSt' = rowSt
             /\ pubPc' = [pubPc EXCEPT ![e] = "inTx"]
    BY <1>0, <2>1, <2>3
       DEF RowInv, PublishShape, ClaimedRetryable, ExclusiveClaim,
           DeadLetteredOnce, OneRowPerKey, AttemptsBounded, SameKey
  <2>4. CASE /\ Subs[e] # <<>> /\ ~KeyBusy(e) /\ ~KeyTaken(e)
             /\ rowSt' = [rowSt EXCEPT ![e] = "open"]
             /\ pubPc' = [pubPc EXCEPT ![e] = "inTx"]
    <3>1. OneRowPerKey'
      BY <1>0, <2>4, FreshKey DEF RowInv
    <3>2. PublishShape' /\ ClaimedRetryable' /\ ExclusiveClaim'
      BY <1>0, <2>1, <2>4
         DEF RowInv, PublishShape, ClaimedRetryable, ExclusiveClaim
    <3>3. DeadLetteredOnce' /\ AttemptsBounded'
      BY <1>0, <2>1, <2>4 DEF RowInv, DeadLetteredOnce, AttemptsBounded
    <3>4. QED BY <3>1, <3>2, <3>3 DEF RowInv
  <2>5. rowSt = [rowSt EXCEPT ![e] = rowSt[e]]
    BY <1>0
  <2>6. QED BY <1>0, <1>1, <2>2, <2>3, <2>4, <2>5 DEF PublishInTx
<1>2. ASSUME NEW e \in Events, CommitTx(e) PROVE RowInv'
  BY <1>0, <1>2
     DEF CommitTx, PubStates, RowStates, drVars, RowInv, PublishShape,
         ClaimedRetryable, ExclusiveClaim,
         DeadLetteredOnce, OneRowPerKey, AttemptsBounded, SameKey
<1>3. ASSUME NEW e \in Events, RollbackTx(e) PROVE RowInv'
  BY <1>0, <1>3, SMTT(30)
     DEF RollbackTx, PubStates, RowStates, drVars, RowInv, PublishShape,
         ClaimedRetryable, ExclusiveClaim,
         DeadLetteredOnce, OneRowPerKey, AttemptsBounded, SameKey
<1>4. ASSUME NEW e \in Events, CommitDomain(e) PROVE RowInv'
  BY <1>0, <1>4
     DEF CommitDomain, PubStates, rowVars, drVars, RowInv, PublishShape,
         ClaimedRetryable, ExclusiveClaim,
         DeadLetteredOnce, OneRowPerKey, AttemptsBounded, SameKey
<1>5. ASSUME NEW e \in Events, PublishDirect(e) PROVE RowInv'
  <2>1. /\ pubPc[e] = "domain" /\ rowSt[e] = "none"
        /\ pubPc' = [pubPc EXCEPT ![e] = "dispatch"]
        /\ UNCHANGED <<retry, dead, batch>>
    BY <1>5 DEF PublishDirect, RowInv, PublishShape, drVars
  <2>2. CASE UNCHANGED rowSt
    BY <1>0, <2>1, <2>2
       DEF RowInv, PublishShape, ClaimedRetryable, ExclusiveClaim,
           DeadLetteredOnce, OneRowPerKey, AttemptsBounded, SameKey
  <2>3. CASE /\ ~KeyBusy(e) /\ ~KeyTaken(e)
             /\ rowSt' = [rowSt EXCEPT ![e] = "pending"]
    <3>1. OneRowPerKey'
      BY <1>0, <2>3, FreshKey DEF RowInv
    <3>2. PublishShape' /\ ClaimedRetryable' /\ ExclusiveClaim'
      BY <1>0, <2>1, <2>3
         DEF RowInv, PublishShape, ClaimedRetryable, ExclusiveClaim
    <3>3. DeadLetteredOnce' /\ AttemptsBounded'
      BY <1>0, <2>1, <2>3 DEF RowInv, DeadLetteredOnce, AttemptsBounded
    <3>4. QED BY <3>1, <3>2, <3>3 DEF RowInv
  <2>4. rowSt = [rowSt EXCEPT ![e] = rowSt[e]]
    BY <1>0
  <2>5. QED BY <1>0, <1>5, <2>2, <2>3, <2>4 DEF PublishDirect
<1>6. ASSUME NEW e \in Events, FinishDirect(e) PROVE RowInv'
  <2>1. /\ pubPc[e] = "dispatch" /\ UNCHANGED batch
        /\ pubPc' = [pubPc EXCEPT ![e] = PublishResult(e)]
        /\ PublishResult(e) \in {"ok", "err"}
    BY <1>6 DEF FinishDirect, PublishResult, drVars
  <2>2. CASE UNCHANGED rowVars
    BY <1>0, <2>1, <2>2
       DEF rowVars, RowInv, PublishShape, ClaimedRetryable, ExclusiveClaim,
           DeadLetteredOnce, OneRowPerKey, AttemptsBounded, SameKey
  <2>3. CASE /\ ~Locked(e)
             /\ ApplyMarks([NoMarks EXCEPT ![e] = IF disp[e].enq THEN "ok" ELSE "fail"])
    <3>1. \A f \in Events \ {e} : /\ rowSt'[f] = rowSt[f] /\ retry'[f] = retry[f]
                                  /\ dead'[f] = dead[f]
      BY <2>3 DEF ApplyMarks, NoMarks
    <3>2. CASE disp[e].enq
      <4>1. /\ rowSt'[e] = IF rowSt[e] = "swept" THEN "swept" ELSE "processed"
            /\ retry'[e] = retry[e] /\ dead'[e] = dead[e]
        BY <2>3, <3>2 DEF ApplyMarks, NoMarks
      <4>4. PublishShape' /\ OneRowPerKey'
        BY <1>0, <2>1, <3>1, <4>1 DEF RowInv, PublishShape, OneRowPerKey, SameKey
      <4>5. ClaimedRetryable' /\ ExclusiveClaim'
        BY <1>0, <2>1, <2>3, <3>1
           DEF Locked, RowInv, ClaimedRetryable, ExclusiveClaim
      <4>6. DeadLetteredOnce'
        BY <1>0, <3>1, <4>1 DEF RowInv, DeadLetteredOnce
      <4>7. AttemptsBounded'
        BY <1>0, <2>1, <3>1, <4>1 DEF RowInv, AttemptsBounded
      <4>8. QED BY <4>4, <4>5, <4>6, <4>7 DEF RowInv
    <3>3. CASE ~disp[e].enq
      <4>1. /\ rowSt'[e] = rowSt[e] /\ dead'[e] = dead[e]
            /\ retry'[e] \in {retry[e], retry[e] + 1}
        BY <2>3, <3>3 DEF ApplyMarks, NoMarks
      <4>2. PublishResult(e) = "err"
        BY <3>3 DEF PublishResult
      <4>4. PublishShape' /\ OneRowPerKey'
        BY <1>0, <2>1, <3>1, <4>1 DEF RowInv, PublishShape, OneRowPerKey, SameKey
      <4>5. ClaimedRetryable' /\ ExclusiveClaim'
        BY <1>0, <2>1, <2>3, <3>1
           DEF Locked, RowInv, ClaimedRetryable, ExclusiveClaim
      <4>6. DeadLetteredOnce'
        BY <1>0, <3>1, <4>1 DEF RowInv, DeadLetteredOnce
      <4>7. AttemptsBounded'
        BY <1>0, <2>1, <3>1, <4>1, <4>2 DEF RowInv, AttemptsBounded
      <4>8. QED BY <4>4, <4>5, <4>6, <4>7 DEF RowInv
    <3>4. QED BY <3>2, <3>3
  <2>4. QED BY <1>6, <2>2, <2>3 DEF FinishDirect
<1>7. ASSUME NEW e \in Events, CrashDirect(e) PROVE RowInv'
  BY <1>0, <1>7
     DEF CrashDirect, PubStates, rowVars, drVars, RowInv, PublishShape,
         ClaimedRetryable, ExclusiveClaim,
         DeadLetteredOnce, OneRowPerKey, AttemptsBounded, SameKey
<1>8. ASSUME NEW e \in Events, Sweep(e) PROVE RowInv'
  BY <1>0, <1>8
     DEF Sweep, RowStates, drVars, RowInv, PublishShape, ClaimedRetryable,
         ExclusiveClaim,
         DeadLetteredOnce, OneRowPerKey, AttemptsBounded, SameKey
<1>9. ASSUME NEW d \in Drainers, ClaimBatch(d) PROVE RowInv'
  BY <1>0, <1>9
     DEF ClaimBatch, FirstRows, PendingRows, Locked, rowVars, RowInv,
         PublishShape, ClaimedRetryable, ExclusiveClaim,
         DeadLetteredOnce, OneRowPerKey, AttemptsBounded, SameKey
<1>10. ASSUME NEW d \in Drainers, CommitBatch(d) PROVE RowInv'
  <2>1. /\ ApplyMarks(eff[d]) /\ pubPc' = pubPc
        /\ batch' = [batch EXCEPT ![d] = {}]
    BY <1>10 DEF CommitBatch, EndBatch
  <2>2. ASSUME NEW e \in Events, e \notin batch[d]
        PROVE  /\ rowSt'[e] = rowSt[e] /\ retry'[e] = retry[e]
               /\ dead'[e] = dead[e]
    BY <2>1, <2>2 DEF ApplyMarks, DrainShape
  <2>3. ASSUME NEW e \in batch[d]
        PROVE  /\ e \in Events /\ rowSt[e] = "pending" /\ retry[e] < MaxRetry
               /\ \/ /\ rowSt'[e] = "processed" /\ retry'[e] = retry[e]
                     /\ dead'[e] \in {dead[e], dead[e] + 1}
                  \/ /\ rowSt'[e] = "pending" /\ dead'[e] = dead[e]
                     /\ retry'[e] \in {retry[e], retry[e] + 1}
    BY <1>0, <2>1 DEF ApplyMarks, RowInv, ExclusiveClaim, ClaimedRetryable
  <2>4. PublishShape' /\ OneRowPerKey'
    BY <1>0, <2>1, <2>2, <2>3 DEF RowInv, PublishShape, OneRowPerKey, SameKey
  <2>5. ClaimedRetryable' /\ ExclusiveClaim'
    BY <1>0, <2>1, <2>2 DEF RowInv, ClaimedRetryable, ExclusiveClaim
  <2>6. DeadLetteredOnce'
    BY <1>0, <2>2, <2>3 DEF RowInv, DeadLetteredOnce
  <2>7. AttemptsBounded'
    BY <1>0, <2>1, <2>2, <2>3 DEF RowInv, AttemptsBounded
  <2>8. QED BY <2>4, <2>5, <2>6, <2>7 DEF RowInv
<1>11. ASSUME NEW d \in Drainers, AbortBatch(d) PROVE RowInv'
  BY <1>0, <1>11
     DEF AbortBatch, EndBatch, rowVars, RowInv, PublishShape, ClaimedRetryable,
         ExclusiveClaim,
         DeadLetteredOnce, OneRowPerKey, AttemptsBounded, SameKey
<1>12. CASE UNCHANGED <<rowSt, retry, dead, pubPc, batch>>
  BY <1>12, RowInvStable
<1>13. QED
  BY <1>1, <1>2, <1>3, <1>4, <1>5, <1>6, <1>7, <1>8, <1>9, <1>10, <1>11, <1>12
     DEF Next, vars, rowVars, drVars, PublishStep, DispatchStep, DrainStep,
         DeadLetterRow, PublishRow, MarkRow, BackoffElapses, WorkerStep,
         TaskSkipped, TaskSucceeds, TaskFails, TaskInterrupted

\* The shape and the row invariant hold in every reachable state.
LEMMA RowInvAlways == Spec => [](Shape /\ RowInv)
<1>1. Init => Shape /\ RowInv
  BY InitType, InitShape, InitRowInv DEF Shape
<1>2. Shape /\ RowInv /\ [Next]_vars => (Shape /\ RowInv)'
  BY NextType, NextTaskShape, NextDrainShape, NextRowInv DEF Shape
<1>3. QED BY <1>1, <1>2, PTL DEF Spec

\* FOR UPDATE SKIP LOCKED in PendingOutboxBatch, held for the transaction of
\* drainBatch: whatever the number of replicas, a row is in one batch at most
\* and is unprocessed while it is there.
THEOREM ClaimsExclusive == Spec => []ExclusiveClaim
<1>1. RowInv => ExclusiveClaim
  BY DEF RowInv
<1>2. QED BY <1>1, RowInvAlways, PTL

\* drainBatch's DeadLetter and MarkProcessed commit together: no row has two
\* dead letters, and none is drained again after its first.
THEOREM DeadLettersOnce == Spec => []DeadLetteredOnce
<1>1. RowInv => DeadLetteredOnce
  BY DEF RowInv
<1>2. QED BY <1>1, RowInvAlways, PTL

\* ux_outbox_pending_dedupe against concurrent inserts and drains: never two
\* unprocessed rows with one dedupe key.
THEOREM KeysUnique == Spec => []OneRowPerKey
<1>1. RowInv => OneRowPerKey
  BY DEF RowInv
<1>2. QED BY <1>1, RowInvAlways, PTL

\* outboxMaxRetry bounds retry_count; the late MarkFailed of Publish is the
\* only mark that may exceed it, and by one.
THEOREM RetriesBounded == Spec => []AttemptsBounded
<1>1. RowInv => AttemptsBounded
  BY DEF RowInv
<1>2. QED BY <1>1, RowInvAlways, PTL

-----------------------------------------------------------------------------
(***************************************************************************)
(* No event is dropped in silence                                          *)
(***************************************************************************)
\* What OwnOf gives: async subscriptions, under identifiers that are stored for
\* no other event.
LEMMA OwnFacts ==
  ASSUME NEW e \in Events, NEW i \in OwnOf[e]
  PROVE  /\ i \in AsyncOf(e) /\ i \in 1..Len(Subs[e]) /\ i \in Nat
         /\ TaskId[e][i] \in TaskIds
         /\ \A f \in Events : \A j \in AsyncOf(f) : TaskId[f][j] = TaskId[e][i] => f = e
<1>1. i \in AsyncOf(e) /\ \A f \in Events \ {e} : \A j \in AsyncOf(f) :
                            TaskId[f][j] # TaskId[e][i]
  BY DEF OwnOf
<1>2. i \in 1..Len(Subs[e]) /\ i \in Nat /\ TaskId[e][i] \in TaskIds
  BY <1>1, SubsAssumption DEF AsyncOf
<1>3. QED BY <1>1, <1>2

\* The subscriptions dispatch has passed are handled, if allEnqueued.
Passed(x, e) ==
  disp[x].enq => \A i \in OwnOf[e] : i < disp[x].i => Handled(e, i)

DispatchInv ==
  /\ \A e \in Known : Passed(e, e)
  /\ \A d \in Drainers : cur[d] \in Known => Passed(d, cur[d])
  /\ \A e \in Events : pubPc[e] # "dispatch" => disp[e] = DispatchStart
  /\ \A d \in Drainers : drPc[d] # "dispatch" => disp[d] = DispatchStart

\* An uncommitted "processed" mark is only written after a full dispatch.
MarkInv ==
  \A d \in Drainers : \A e \in Known : eff[d][e] = "ok" => AllHandled(e)

DeliveryInv == DispatchInv /\ MarkInv /\ NoSilentLoss

IInv == Shape /\ RowInv /\ DeliveryInv

\* A handled subscription stays handled: a task leaves Redis only after its
\* handlers ran, unless the worker does not know its type.
LEMMA HandledStable ==
  ASSUME Shape, [Next]_vars, NEW e \in Known, NEW i \in OwnOf[e],
         Handled(e, i)
  PROVE  Handled(e, i)'
<1> DEFINE u == TaskId[e][i]
<1>0. /\ u \in TaskIds /\ taskSt \in [TaskIds -> TaskStates]
      /\ taskEvt \in [TaskIds -> Events \cup {NoEvent}]
  BY OwnFacts DEF Shape, TypeOK, Known
<1>1. CASE UNCHANGED <<taskSt, taskEvt>> /\ done \subseteq done'
  BY <1>1 DEF Handled
<1>2. ASSUME NEW t, NEW f, StoreTask(t, f), UNCHANGED done
      PROVE Handled(e, i)'
  BY <1>0, <1>2 DEF StoreTask, Handled, taskVars
<1>3. ASSUME NEW t \in TaskIds, Archive(t), done \subseteq done'
      PROVE Handled(e, i)'
  BY <1>0, <1>3 DEF Archive, Handled
<1>4. ASSUME NEW t \in TaskIds, Complete(t), taskEvt[t] \in Unregistered, done' = done
      PROVE Handled(e, i)'
  BY <1>0, <1>4 DEF Complete, Handled, Known
<1>5. ASSUME NEW t \in TaskIds, TaskSucceeds(t)
      PROVE Handled(e, i)'
  <2>1. done' = done \cup ({taskEvt[t]} \X AsyncOf(taskEvt[t])) /\ Complete(t)
    BY <1>5 DEF TaskSucceeds, Ran
  <2>2. CASE <<e, i>> \in done
    BY <2>1, <2>2 DEF Handled
  <2>3. CASE taskEvt[u] = e /\ u = t
    BY <2>1, <2>3, OwnFacts DEF Handled, Known
  <2>4. CASE taskEvt[u] = e /\ taskSt[u] # "none" /\ u # t
    BY <1>0, <2>1, <2>4 DEF Handled, Complete
  <2>5. QED BY <2>2, <2>3, <2>4 DEF Handled
<1> HIDE DEF u
<1>6. ASSUME NEW x, NEW f, DispatchStep(x, f) PROVE Handled(e, i)'
  BY <1>1, <1>2, <1>6
     DEF DispatchStep, EnqueueOk, EnqueueErr, RunSync, taskVars
<1>7. ASSUME NEW t \in TaskIds, WorkerStep(t) PROVE Handled(e, i)'
  BY <1>1, <1>3, <1>4, <1>5, <1>7 DEF WorkerStep, TaskSkipped, TaskFails, Ran
<1>8. QED
  BY <1>1, <1>6, <1>7
     DEF Next, vars, taskVars, PublishStep, DrainStep, PublishInTx, CommitTx,
         RollbackTx, CommitDomain, PublishDirect, FinishDirect, CrashDirect,
         BackoffElapses, Sweep, ClaimBatch, DeadLetterRow, PublishRow, MarkRow,
         CommitBatch, AbortBatch, TaskInterrupted, Ran

\* A successful or duplicate enqueue leaves the event's own task in Redis.
LEMMA EnqueueHandles ==
  ASSUME Shape, NEW x \in Actors, NEW e \in Events,
         NEW k \in OwnOf[e], k = disp[x].i, ~Dispatched(x, e), EnqueueOk(x, e)
  PROVE  Handled(e, k)'
<1> DEFINE u == TaskId[e][k]
<1>1. /\ k \in AsyncOf(e) /\ u \in TaskIds
      /\ taskSt \in [TaskIds -> TaskStates]
      /\ taskEvt \in [TaskIds -> Events \cup {NoEvent}]
  BY OwnFacts DEF Shape, TypeOK
<1>2. CASE taskSt[u] = "none"
  BY <1>1, <1>2 DEF EnqueueOk, StoreTask, Handled
<1>3. CASE taskSt[u] # "none"
  <2>1. taskEvt[u] = e
    BY <1>1, <1>3, OwnFacts DEF Shape, TaskShape
  <2>2. UNCHANGED taskVars
    BY <1>3 DEF EnqueueOk, StoreTask
  <2>3. QED BY <1>3, <2>1, <2>2 DEF Handled, taskVars
<1>4. QED BY <1>2, <1>3

\* One iteration of the dispatch loop keeps Passed.
LEMMA DispatchPassed ==
  ASSUME Shape, [Next]_vars, NEW x \in Actors, NEW e \in Known,
         Passed(x, e), DispatchStep(x, e)
  PROVE  Passed(x, e)'
<1>0. /\ disp \in [Actors -> Locals] /\ e \in Events
      /\ disp[x].i \in 1..Len(Subs[e]) /\ ~Dispatched(x, e)
  BY SubsAssumption DEF Shape, TypeOK, Known, DispatchStep, Dispatched, Locals
<1>1. \A i \in OwnOf[e] : Handled(e, i) => Handled(e, i)'
  BY HandledStable
<1>2. OwnOf[e] \subseteq AsyncOf(e) /\ OwnOf[e] \subseteq Nat
  BY <1>0, OwnFacts
<1>3. CASE EnqueueOk(x, e)
  <2>1. disp'[x].i = disp[x].i + 1 /\ disp'[x].enq = disp[x].enq
    BY <1>0, <1>3 DEF EnqueueOk, Locals
  <2>2. \A k \in OwnOf[e] : k = disp[x].i => Handled(e, k)'
    BY <1>0, <1>3, EnqueueHandles
  <2>3. \A i \in OwnOf[e] : i < disp[x].i + 1 => i < disp[x].i \/ i = disp[x].i
    BY <1>0, <1>2
  <2>4. QED BY <1>1, <2>1, <2>2, <2>3 DEF Passed
<1>4. CASE EnqueueErr(x, e)
  BY <1>0, <1>4 DEF EnqueueErr, Passed, Locals
<1>5. CASE RunSync(x, e)
  <2>1. disp'[x].i = disp[x].i + 1 /\ disp'[x].enq = disp[x].enq
    BY <1>0, <1>5 DEF RunSync, Locals
  <2>2. disp[x].i \notin OwnOf[e]
    BY <1>2, <1>5 DEF RunSync, AsyncOf
  <2>3. \A i \in OwnOf[e] : i < disp[x].i + 1 => i < disp[x].i
    BY <1>0, <1>2, <2>2
  <2>4. QED BY <1>1, <2>1, <2>3 DEF Passed
<1>6. QED BY <1>3, <1>4, <1>5 DEF DispatchStep

\* A dispatch that went through with allEnqueued has handled the event.
LEMMA DispatchedHandled ==
  ASSUME Shape, NEW x \in Actors, NEW e \in Known, Passed(x, e),
         Dispatched(x, e), disp[x].enq
  PROVE  AllHandled(e)
<1>1. \A i \in OwnOf[e] : i \in 1..Len(Subs[e])
  BY OwnFacts DEF Known
<1>2. \A i \in OwnOf[e] : i < disp[x].i
  BY <1>1, SubsAssumption DEF Shape, TypeOK, Locals, Dispatched, Known
<1>3. QED BY <1>2 DEF Passed, AllHandled

\* Before its first subscription a dispatch has nothing to answer for.
LEMMA StartPassed ==
  ASSUME NEW x, NEW e \in Events, disp[x] = DispatchStart
  PROVE  Passed(x, e)
BY OwnFacts DEF Passed, DispatchStart

\* Every step keeps what running dispatch loops have got through.
LEMMA NextDispatchInv ==
  ASSUME Shape, DispatchInv, [Next]_vars
  PROVE  DispatchInv'
<1>0. /\ disp \in [Actors -> Locals] /\ Events \cap Drainers = {}
      /\ cur \in [Drainers -> Events \cup {NoEvent}]
      /\ drPc \in [Drainers -> {"idle", "loop", "dispatch"}]
      /\ pubPc \in [Events -> PubStates]
  BY IdentityAssumption DEF Shape, TypeOK
<1>1. \A e \in Known : \A i \in OwnOf[e] : Handled(e, i) => Handled(e, i)'
  BY HandledStable
<1>2. ASSUME NEW x, NEW e \in Known, Passed(x, e), disp'[x] = disp[x]
      PROVE  Passed(x, e)'
  BY <1>1, <1>2 DEF Passed
<1>3. ASSUME NEW x, NEW e \in Known, disp'[x] = DispatchStart
      PROVE  Passed(x, e)'
  BY <1>3, OwnFacts DEF Passed, DispatchStart, Known
<1>4. CASE UNCHANGED <<disp, pubPc, drPc, cur>>
  BY <1>2, <1>4 DEF DispatchInv
<1>5. ASSUME NEW e \in Events, DispatchStep(e, e), pubPc[e] = "dispatch"
      PROVE  DispatchInv'
  <2>1. \A y \in Actors \ {e} : disp'[y] = disp[y]
    BY <1>0, <1>5 DEF DispatchStep, EnqueueOk, EnqueueErr, RunSync
  <2>2. UNCHANGED <<pubPc, drPc, cur>>
    BY <1>5 DEF DispatchStep, drVars
  <2>3. e \in Known => Passed(e, e)'
    BY <1>5, DispatchPassed DEF DispatchInv, Actors, Known
  <2>4. \A f \in Known \ {e} : Passed(f, f)'
    BY <1>2, <2>1 DEF DispatchInv, Actors, Known
  <2>5. \A d \in Drainers : cur'[d] \in Known => Passed(d, cur[d])'
    BY <1>0, <1>2, <2>1, <2>2 DEF DispatchInv, Actors
  <2>6. QED
    BY <1>0, <1>5, <2>1, <2>2, <2>3, <2>4, <2>5 DEF DispatchInv, Actors
<1>6. ASSUME NEW d \in Drainers, DispatchStep(d, cur[d]), drPc[d] = "dispatch"
      PROVE  DispatchInv'
  <2>1. \A y \in Actors \ {d} : disp'[y] = disp[y]
    BY <1>0, <1>6 DEF DispatchStep, EnqueueOk, EnqueueErr, RunSync
  <2>2. UNCHANGED <<pubPc, drPc, cur>>
    BY <1>6 DEF DispatchStep, drVars
  <2>3. \A e \in Known : e = cur[d] => Passed(d, e)'
    BY <1>6, DispatchPassed DEF DispatchInv, Actors
  <2>4. \A f \in Known : Passed(f, f)'
    BY <1>0, <1>2, <2>1 DEF DispatchInv, Actors, Known
  <2>5. \A c \in Drainers : cur'[c] \in Known => Passed(c, cur[c])'
    BY <1>0, <1>2, <2>1, <2>2, <2>3 DEF DispatchInv, Actors
  <2>6. QED
    BY <1>0, <1>6, <2>1, <2>2, <2>4, <2>5 DEF DispatchInv, Actors
<1>7. ASSUME NEW e \in Events, UNCHANGED <<disp, drPc, cur>>,
             NEW pc \in PubStates, pubPc' = [pubPc EXCEPT ![e] = pc],
             pubPc[e] # "dispatch"
      PROVE  DispatchInv'
  BY <1>0, <1>2, <1>7 DEF DispatchInv
<1>8. ASSUME NEW e \in Events, UNCHANGED <<drPc, cur>>,
             NEW pc \in PubStates, pubPc' = [pubPc EXCEPT ![e] = pc],
             disp' = [disp EXCEPT ![e] = DispatchStart]
      PROVE  DispatchInv'
  <2>1. /\ disp'[e] = DispatchStart
        /\ \A y \in Actors \ {e} : disp'[y] = disp[y]
    BY <1>0, <1>8 DEF Actors
  <2>2. \A f \in Known : Passed(f, f)'
    BY <1>2, <1>3, <2>1 DEF DispatchInv, Actors, Known
  <2>3. \A d \in Drainers : cur'[d] \in Known => Passed(d, cur[d])'
    BY <1>0, <1>2, <1>8, <2>1 DEF DispatchInv, Actors
  <2>4. QED BY <1>0, <1>8, <2>1, <2>2, <2>3 DEF DispatchInv, Actors
<1>9. ASSUME NEW d \in Drainers, ClaimBatch(d) \/ PublishRow(d)
      PROVE  DispatchInv'
  <2>1. disp' = disp /\ pubPc' = pubPc /\ disp[d] = DispatchStart
    BY <1>9 DEF ClaimBatch, PublishRow, DispatchInv
  <2>2. \A c \in Drainers \ {d} : cur'[c] = cur[c] /\ drPc'[c] = drPc[c]
    BY <1>0, <1>9 DEF ClaimBatch, PublishRow
  <2>3. \A f \in Known : Passed(f, f)'
    BY <1>2, <2>1 DEF DispatchInv
  <2>4. \A c \in Drainers : cur'[c] \in Known => Passed(c, cur[c])'
    BY <1>2, <1>3, <2>1, <2>2 DEF DispatchInv
  <2>5. QED BY <2>1, <2>2, <2>3, <2>4 DEF DispatchInv
<1>10. ASSUME NEW d \in Drainers, MarkRow(d) \/ CommitBatch(d) \/ AbortBatch(d)
       PROVE  DispatchInv'
  <2>1. /\ disp' = [disp EXCEPT ![d] = DispatchStart] /\ pubPc' = pubPc
        /\ cur' = [cur EXCEPT ![d] = NoEvent]
    BY <1>10 DEF MarkRow, CommitBatch, AbortBatch, EndBatch
  <2>2. \A c \in Drainers \ {d} : cur'[c] = cur[c] /\ drPc'[c] = drPc[c]
    BY <1>0, <1>10 DEF MarkRow, CommitBatch, AbortBatch, EndBatch
  <2>3. /\ disp'[d] = DispatchStart
        /\ \A y \in Actors \ {d} : disp'[y] = disp[y]
    BY <1>0, <2>1 DEF Actors
  <2>4. \A f \in Known : Passed(f, f)'
    BY <1>0, <1>2, <2>3 DEF DispatchInv, Actors, Known
  <2>5. \A c \in Drainers : cur'[c] \in Known => Passed(c, cur[c])'
    BY <1>2, <1>3, <2>2, <2>3 DEF DispatchInv, Actors
  <2>6. QED BY <1>0, <2>1, <2>2, <2>3, <2>4, <2>5 DEF DispatchInv, Actors
<1>11. ASSUME NEW e \in Events, PublishStep(e) PROVE DispatchInv'
  BY <1>5, <1>7, <1>8, <1>11
     DEF PublishStep, PublishInTx, CommitTx, RollbackTx, CommitDomain,
         PublishDirect, FinishDirect, PublishResult, PubStates, drVars
<1>12. ASSUME NEW e \in Events, CrashDirect(e) PROVE DispatchInv'
  BY <1>8, <1>12 DEF CrashDirect, PubStates, drVars
<1>13. QED
  BY <1>4, <1>6, <1>9, <1>10, <1>11, <1>12
     DEF Next, vars, drVars, DrainStep, DeadLetterRow, BackoffElapses, Sweep,
         WorkerStep, TaskSkipped, TaskSucceeds, TaskFails, TaskInterrupted

\* A row marked ok was handled, and stays so until the mark commits.
LEMMA NextMarkInv ==
  ASSUME Shape, DispatchInv, MarkInv, [Next]_vars
  PROVE  MarkInv'
<1>0. /\ eff \in [Drainers -> [Events -> Marks]]
      /\ cur \in [Drainers -> Events \cup {NoEvent}]
  BY DEF Shape, TypeOK
<1>1. \A e \in Known : AllHandled(e) => AllHandled(e)'
  BY HandledStable DEF AllHandled
<1>2. CASE UNCHANGED eff
  BY <1>1, <1>2 DEF MarkInv
<1>3. ASSUME NEW d \in Drainers, DeadLetterRow(d) PROVE MarkInv'
  BY <1>0, <1>1, <1>3 DEF DeadLetterRow, Unmarked, MarkInv, Shape, TypeOK
<1>4. ASSUME NEW d \in Drainers, MarkRow(d) PROVE MarkInv'
  <2>1. cur[d] \in Events
    BY <1>4 DEF MarkRow, Shape, DrainShape, Unmarked, TypeOK
  <2>2. cur[d] \in Known /\ disp[d].enq => AllHandled(cur[d])
    BY <1>4, DispatchedHandled DEF MarkRow, DispatchInv, Actors
  <2>3. eff'[d][cur[d]] = "ok" => disp[d].enq
    BY <1>0, <1>4, <2>1 DEF MarkRow
  <2>4. ASSUME NEW c \in Drainers, NEW e \in Events, c # d \/ e # cur[d]
        PROVE  eff'[c][e] = eff[c][e]
    BY <1>0, <1>4, <2>1, <2>4 DEF MarkRow
  <2>5. QED BY <1>1, <2>2, <2>3, <2>4 DEF MarkInv, Known
<1>5. ASSUME NEW d \in Drainers, EndBatch(d) PROVE MarkInv'
  BY <1>0, <1>1, <1>5 DEF EndBatch, NoMarks, MarkInv, Known
<1>6. QED
  BY <1>2, <1>3, <1>4, <1>5
     DEF Next, vars, drVars, PublishStep, DispatchStep, PublishInTx, CommitTx,
         RollbackTx, CommitDomain, PublishDirect, FinishDirect, CrashDirect,
         DrainStep, ClaimBatch, PublishRow, CommitBatch, AbortBatch,
         BackoffElapses, Sweep, WorkerStep, TaskSkipped, TaskSucceeds,
         TaskFails, TaskInterrupted

\* Every step keeps acknowledged and processed events owned.
LEMMA NextNoSilentLoss ==
  ASSUME Shape, RowInv, DeliveryInv, [Next]_vars
  PROVE  NoSilentLoss'
<1> USE DEF DeliveryInv
<1>0. /\ rowSt \in [Events -> RowStates] /\ dead \in [Events -> Nat]
      /\ pubPc \in [Events -> PubStates]
  BY DEF Shape, TypeOK
<1>1. \A e \in Known : AllHandled(e) => AllHandled(e)'
  BY HandledStable DEF AllHandled
\* A step that leaves the row and the request of e alone.
<1>2. ASSUME NEW e \in Known, pubPc'[e] = pubPc[e] \/ pubPc'[e] # "ok",
             rowSt'[e] = rowSt[e], dead'[e] = dead[e],
             pubPc'[e] = "ok" \/ rowSt'[e] \in {"processed", "swept"}
      PROVE  Owned(e)'
  BY <1>1, <1>2 DEF NoSilentLoss, Owned, Known
<1>3. CASE UNCHANGED <<rowSt, dead, pubPc>>
  BY <1>2, <1>3 DEF NoSilentLoss, Known
<1>4. ASSUME NEW e \in Events, PublishInTx(e) PROVE NoSilentLoss'
  BY <1>0, <1>2, <1>4
     DEF PublishInTx, NoSilentLoss, Known
<1>5. ASSUME NEW e \in Events, CommitTx(e) PROVE NoSilentLoss'
  <2>1. rowSt'[e] = "pending" \/ Subs[e] = <<>>
    BY <1>0, <1>5 DEF CommitTx, RowInv, PublishShape
  <2>2. e \in Known => Owned(e)'
    BY <2>1, OwnFacts DEF Owned, AllHandled, Known
  <2>3. QED BY <1>0, <1>2, <1>5, <2>2 DEF CommitTx, NoSilentLoss, Known
<1>6. ASSUME NEW e \in Events, RollbackTx(e) PROVE NoSilentLoss'
  BY <1>0, <1>2, <1>6 DEF RollbackTx, NoSilentLoss, Known
<1>7. ASSUME NEW e \in Events, CommitDomain(e) \/ CrashDirect(e)
      PROVE NoSilentLoss'
  BY <1>0, <1>2, <1>7 DEF CommitDomain, CrashDirect, rowVars, NoSilentLoss, Known
<1>8. ASSUME NEW e \in Events, PublishDirect(e) PROVE NoSilentLoss'
  <2>1. rowSt[e] = "none"
    BY <1>8 DEF PublishDirect, RowInv, PublishShape
  <2>2. rowSt'[e] \in {"none", "pending"} /\ pubPc'[e] = "dispatch"
    BY <1>0, <1>8, <2>1 DEF PublishDirect
  <2>3. \A f \in Events \ {e} : /\ rowSt'[f] = rowSt[f] /\ pubPc'[f] = pubPc[f]
                                /\ dead'[f] = dead[f]
    BY <1>0, <1>8 DEF PublishDirect
  <2>4. QED BY <1>2, <2>2, <2>3 DEF NoSilentLoss, Known
<1>9. ASSUME NEW e \in Events, FinishDirect(e) PROVE NoSilentLoss'
  <2>1. \A f \in Events \ {e} : /\ rowSt'[f] = rowSt[f] /\ pubPc'[f] = pubPc[f]
                                /\ dead'[f] = dead[f]
    BY <1>0, <1>9, ZenonT(60) DEF FinishDirect, ApplyMarks, NoMarks, rowVars
  <2>2. e \in Known /\ disp[e].enq => AllHandled(e)
    BY <1>9, DispatchedHandled DEF FinishDirect, DispatchInv, Actors
  <2>3. ~disp[e].enq => /\ rowSt'[e] = rowSt[e] /\ pubPc'[e] # "ok"
                        /\ dead'[e] = dead[e]
    BY <1>0, <1>9 DEF FinishDirect, PublishResult, ApplyMarks, NoMarks, rowVars
  <2>4. QED
    BY <1>1, <1>2, <2>1, <2>2, <2>3 DEF NoSilentLoss, Owned, Known
<1>10. ASSUME NEW e \in Events, Sweep(e) PROVE NoSilentLoss'
  <2>1. e \in Known => dead[e] > 0 \/ AllHandled(e)
    BY <1>10 DEF Sweep, NoSilentLoss, Owned, Known
  <2>2. e \in Known => Owned(e)'
    BY <1>1, <1>10, <2>1 DEF Sweep, Owned
  <2>3. QED BY <1>0, <1>2, <1>10, <2>2 DEF Sweep, NoSilentLoss, Known
<1>11. ASSUME NEW d \in Drainers, CommitBatch(d) PROVE NoSilentLoss'
  <2>1. ApplyMarks(eff[d]) /\ pubPc' = pubPc
    BY <1>11 DEF CommitBatch
  <2>2. ASSUME NEW e \in Known PROVE
          \/ rowSt'[e] = rowSt[e] /\ dead'[e] = dead[e]
          \/ AllHandled(e)
          \/ dead'[e] > 0
    BY <1>0, <2>1 DEF ApplyMarks, MarkInv, Known
  <2>3. QED BY <1>1, <1>2, <2>1, <2>2 DEF NoSilentLoss, Owned, Known
<1>12. QED
  BY <1>3, <1>4, <1>5, <1>6, <1>7, <1>8, <1>9, <1>10, <1>11
     DEF Next, vars, rowVars, PublishStep, DispatchStep, DrainStep, ClaimBatch,
         DeadLetterRow, PublishRow, MarkRow, AbortBatch, BackoffElapses,
         WorkerStep, TaskSkipped, TaskSucceeds, TaskFails, TaskInterrupted

\* The inductive invariant of the pipeline holds initially, and every step
\* keeps it.
LEMMA InitIInv == Init => IInv
<1>1. Init => DispatchInv
  BY StartPassed DEF Init, DispatchInv, Actors, Known
<1>2. Init => MarkInv /\ NoSilentLoss
  BY DEF Init, MarkInv, NoMarks, NoSilentLoss, Known
<1>3. QED
  BY <1>1, <1>2, InitType, InitShape, InitRowInv DEF IInv, Shape, DeliveryInv

LEMMA NextIInv ==
  ASSUME IInv, [Next]_vars
  PROVE  IInv'
<1>1. Shape' /\ RowInv'
  BY NextType, NextTaskShape, NextDrainShape, NextRowInv DEF IInv, Shape
<1>2. DispatchInv'
  BY NextDispatchInv DEF IInv, DeliveryInv
<1>3. MarkInv'
  BY NextMarkInv DEF IInv, DeliveryInv
<1>4. NoSilentLoss'
  BY NextNoSilentLoss DEF IInv
<1>5. QED BY <1>1, <1>2, <1>3, <1>4 DEF IInv, DeliveryInv

\* Bus.Publish, drainBatch, ProcessTask and the sweep together never drop an
\* event in silence, whatever interleaves, fails or crashes: only a handler
\* whose task id another event yields can go without.
THEOREM NoSilentLossHolds == Spec => []NoSilentLoss
<1>1. IInv /\ [Next]_vars => IInv'
  BY NextIInv
<1>2. IInv => NoSilentLoss
  BY DEF IInv, DeliveryInv
<1>3. QED BY InitIInv, <1>1, <1>2, PTL DEF Spec

-----------------------------------------------------------------------------
(***************************************************************************)
(* The pipeline implements EventDelivery                                   *)
(***************************************************************************)
\* Which requests hold a service transaction open, and which never do.
Callers ==
  \A e \in Events :
    /\ pubPc[e] = "inTx" => e \in InTx
    /\ pubPc[e] \in {"domain", "dispatch", "crashed"} => e \notin InTx

\* Rows past their insert, dead letters, tasks and runs exist only for events
\* whose domain change has committed.
Rows == \A e \in Events :
  rowSt[e] \in {"pending", "processed", "swept"} \/ dead[e] > 0 => Happened(e)
Tasks == \A t \in TaskIds, e \in Events :
  taskSt[t] # "none" /\ taskEvt[t] = e => Happened(e)
Runs == \A e \in Events : (\E i \in AsyncOf(e) : <<e, i>> \in done) => Happened(e)

Causes == Callers /\ Rows /\ Tasks /\ Runs

RefInv == IInv /\ Causes

\* The requests whose domain change has committed, by where they are.
Past(pc, e) ==
  \/ pc \in {"domain", "dispatch", "ok", "crashed"}
  \/ pc = "err" /\ e \notin InTx

LEMMA PhasePast ==
  ASSUME TypeOK, TypeOK', NEW e \in Events
  PROVE  /\ Happened(e) <=> Past(pubPc[e], e)
         /\ Happened(e)' <=> Past(pubPc'[e], e)
<1>1. pubPc[e] \in PubStates /\ pubPc'[e] \in PubStates
  BY DEF TypeOK
<1>2. Happened(e) <=> Past(pubPc[e], e)
  BY <1>1 DEF Happened, PhaseOf, Past, PubStates
<1>3. Happened(e)' <=> Past(pubPc'[e], e)
  BY <1>1 DEF Happened, PhaseOf, Past, PubStates
<1>4. QED BY <1>2, <1>3

\* What has happened is never taken back, and each request keeps to its kind
\* of Publish.
LEMMA NextCallers ==
  ASSUME Shape, Shape', Causes, [Next]_vars
  PROVE  Callers' /\ \A e \in Events : Happened(e) => Happened(e)'
<1>0. pubPc \in [Events -> PubStates] /\ TypeOK /\ TypeOK'
  BY DEF Shape, TypeOK
<1> DEFINE Good == /\ Callers'
                   /\ \A e \in Events : Past(pubPc[e], e) => Past(pubPc'[e], e)
<1>1. ASSUME UNCHANGED pubPc PROVE Good
  BY <1>1 DEF Causes, Callers
<1>2. ASSUME NEW e \in Events, PublishStep(e) PROVE Good
  BY <1>0, <1>1, <1>2
     DEF PublishStep, PublishInTx, CommitTx, RollbackTx, CommitDomain,
         PublishDirect, FinishDirect, PublishResult, DispatchStep, Past,
         Causes, Callers
<1>3. ASSUME NEW e \in Events, CrashDirect(e) PROVE Good
  BY <1>0, <1>3 DEF CrashDirect, Past, Causes, Callers
<1>4. Good
  BY <1>1, <1>2, <1>3
     DEF Next, vars, DrainStep, DispatchStep, ClaimBatch, DeadLetterRow,
         PublishRow, MarkRow, CommitBatch, AbortBatch, BackoffElapses, Sweep,
         WorkerStep, TaskSkipped, TaskSucceeds, TaskFails, TaskInterrupted
<1>5. ASSUME NEW e \in Events, Happened(e) PROVE Happened(e)'
  <2>1. Past(pubPc[e], e)
    BY <1>0, <1>5, PhasePast
  <2>2. Past(pubPc'[e], e)
    BY <1>4, <2>1
  <2>3. QED BY <1>0, <2>2, PhasePast
<1>6. QED BY <1>4, <1>5

\* A row becomes pending when the change it belongs to commits, or later.
LEMMA NextRows ==
  ASSUME Shape, Shape', RowInv, Causes, [Next]_vars
  PROVE  Rows'
<1>0. /\ rowSt \in [Events -> RowStates] /\ dead \in [Events -> Nat]
      /\ pubPc \in [Events -> PubStates] /\ TypeOK /\ TypeOK'
  BY DEF Shape, TypeOK
<1>1. \A e \in Events : Happened(e) => Happened(e)'
  BY NextCallers
<1>2. ASSUME NEW e \in Events, Past(pubPc[e], e) PROVE Happened(e)'
  BY <1>0, <1>1, <1>2, PhasePast
<1>3. ASSUME NEW e \in Events, Past(pubPc'[e], e) PROVE Happened(e)'
  BY <1>0, <1>3, PhasePast
<1>4. ASSUME NEW e \in Events, rowSt'[e] = rowSt[e], dead'[e] = dead[e],
             rowSt'[e] \in {"pending", "processed", "swept"} \/ dead'[e] > 0
      PROVE  Happened(e)'
  BY <1>1, <1>4 DEF Causes, Rows
<1>5. CASE UNCHANGED <<rowSt, dead>>
  BY <1>4, <1>5 DEF Rows
<1>6. ASSUME NEW e \in Events, rowSt'[e] \notin {"pending", "processed", "swept"},
             \A f \in Events \ {e} : rowSt'[f] = rowSt[f], dead' = dead
      PROVE  Rows'
  BY <1>1, <1>4, <1>6 DEF Rows, Causes
<1>7. ASSUME NEW e \in Events, Happened(e)', UNCHANGED dead,
             \A f \in Events \ {e} : rowSt'[f] = rowSt[f]
      PROVE  Rows'
  BY <1>4, <1>7 DEF Rows
<1>8. ASSUME NEW e \in Events, PublishInTx(e) \/ RollbackTx(e) PROVE Rows'
  BY <1>0, <1>5, <1>6, <1>8 DEF PublishInTx, RollbackTx
<1>9. ASSUME NEW e \in Events, CommitTx(e) \/ PublishDirect(e) PROVE Rows'
  <2>1. Past(pubPc'[e], e)
    BY <1>0, <1>9 DEF CommitTx, PublishDirect, Past
  <2>2. /\ dead' = dead
        /\ \A f \in Events \ {e} : rowSt'[f] = rowSt[f]
    BY <1>0, <1>9 DEF CommitTx, PublishDirect
  <2>3. QED BY <1>3, <1>7, <2>1, <2>2
<1>10. ASSUME NEW e \in Events, FinishDirect(e) PROVE Rows'
  <2>1. Happened(e)'
    BY <1>2, <1>10 DEF FinishDirect, Past
  <2>2. /\ dead' = dead
        /\ \A f \in Events \ {e} : rowSt'[f] = rowSt[f]
    BY <1>0, <1>10, ZenonT(60) DEF FinishDirect, ApplyMarks, NoMarks, rowVars
  <2>3. QED BY <1>7, <2>1, <2>2
<1>11. ASSUME NEW e \in Events, Sweep(e) PROVE Rows'
  <2>1. Happened(e)'
    BY <1>1, <1>11 DEF Sweep, Causes, Rows
  <2>2. QED BY <1>0, <1>7, <1>11, <2>1 DEF Sweep
<1>12. ASSUME NEW d \in Drainers, CommitBatch(d) PROVE Rows'
  <2>1. \A e \in Events : eff[d][e] # "none" => Happened(e)'
    BY <1>1 DEF Shape, DrainShape, RowInv, ExclusiveClaim, Causes, Rows
  <2>2. \A e \in Events : eff[d][e] = "none" =>
          rowSt'[e] = rowSt[e] /\ dead'[e] = dead[e]
    BY <1>0, <1>12 DEF CommitBatch, ApplyMarks
  <2>3. QED BY <1>4, <2>1, <2>2 DEF Rows
<1>13. QED
  BY <1>5, <1>8, <1>9, <1>10, <1>11, <1>12
     DEF Next, vars, rowVars, PublishStep, CommitDomain, CrashDirect, DrainStep,
         DispatchStep, ClaimBatch, DeadLetterRow, PublishRow, MarkRow,
         AbortBatch, BackoffElapses, WorkerStep, TaskSkipped, TaskSucceeds,
         TaskFails, TaskInterrupted

\* A dispatch loop runs for an event whose change has committed.
LEMMA DispatchHappened ==
  ASSUME Shape, RowInv, Causes
  PROVE  /\ \A e \in Events : pubPc[e] = "dispatch" => Happened(e)
         /\ \A d \in Drainers, e \in Events :
              drPc[d] = "dispatch" /\ cur[d] = e => Happened(e)
<1>1. \A e \in Events : pubPc[e] = "dispatch" => Happened(e)
  BY DEF Happened, PhaseOf
<1>2. \A d \in Drainers : drPc[d] = "dispatch" =>
        cur[d] \in Events /\ rowSt[cur[d]] = "pending"
  BY DEF Shape, TypeOK, DrainShape, Unmarked, RowInv, ExclusiveClaim
<1>3. QED BY <1>1, <1>2 DEF Causes, Rows

\* A task is stored, and its handlers run, for such an event only.
LEMMA NextTasksRuns ==
  ASSUME Shape, Shape', RowInv, Causes, [Next]_vars
  PROVE  Tasks' /\ Runs'
<1>0. /\ taskSt \in [TaskIds -> TaskStates]
      /\ taskEvt \in [TaskIds -> Events \cup {NoEvent}]
      /\ \A t \in TaskIds : taskSt[t] # "none" => taskEvt[t] \in Events
  BY DEF Shape, TypeOK, TaskShape
<1>1. \A e \in Events : Happened(e) => Happened(e)'
  BY NextCallers
<1>2. ASSUME UNCHANGED <<taskSt, taskEvt>> PROVE Tasks'
  BY <1>0, <1>1, <1>2 DEF Causes, Tasks
<1>3. ASSUME UNCHANGED done PROVE Runs'
  BY <1>1, <1>3 DEF Causes, Runs
<1>4. ASSUME NEW x \in Actors, NEW e \in Events, Happened(e), DispatchStep(x, e)
      PROVE  Tasks' /\ Runs'
  <2>1. ASSUME NEW t, StoreTask(t, e), taskSt[t] = "none" PROVE Tasks'
    <3>1. /\ taskSt' = [taskSt EXCEPT ![t] = "queued"]
          /\ taskEvt' = [taskEvt EXCEPT ![t] = e]
      BY <2>1 DEF StoreTask
    <3>2. ASSUME NEW u \in TaskIds, taskSt'[u] # "none"
          PROVE  \/ taskEvt'[u] = e
                 \/ taskEvt'[u] = taskEvt[u] /\ taskSt[u] # "none"
      BY <1>0, <3>1, <3>2
    <3>3. QED BY <1>1, <1>4, <3>2 DEF Tasks, Causes
  <2>2. Tasks'
    BY <1>2, <1>4, <2>1
       DEF DispatchStep, EnqueueOk, EnqueueErr, RunSync, StoreTask, taskVars
  <2>3. QED BY <1>3, <1>4, <2>2 DEF DispatchStep
<1>5. ASSUME NEW t \in TaskIds, Archive(t) \/ Complete(t), taskSt[t] = "queued"
      PROVE  Tasks'
  BY <1>0, <1>1, <1>5 DEF Archive, Complete, Causes, Tasks
<1>6. ASSUME NEW t \in TaskIds, Decodable(t), NEW S, Ran(taskEvt[t], S)
      PROVE  Runs'
  <2>1. \A e \in Events : e = taskEvt[t] => Happened(e)
    BY <1>6 DEF Decodable, Causes, Tasks
  <2>2. QED BY <1>1, <1>6, <2>1 DEF Ran, Causes, Runs
<1>7. ASSUME NEW t \in TaskIds, WorkerStep(t) \/ TaskInterrupted(t)
      PROVE  Tasks' /\ Runs'
  <2>1. CASE TaskSkipped(t)
    BY <1>3, <1>5, <2>1 DEF TaskSkipped
  <2>2. CASE TaskSucceeds(t)
    BY <1>5, <1>6, <2>2 DEF TaskSucceeds, Decodable
  <2>3. CASE TaskFails(t)
    BY <1>2, <1>5, <1>6, <2>3 DEF TaskFails, Decodable
  <2>4. CASE TaskInterrupted(t)
    BY <1>2, <1>6, <2>4 DEF TaskInterrupted, taskVars
  <2>5. QED BY <1>7, <2>1, <2>2, <2>3, <2>4 DEF WorkerStep
<1>8. ASSUME NEW e \in Events, pubPc[e] = "dispatch", DispatchStep(e, e)
      PROVE  Tasks' /\ Runs'
  BY <1>4, <1>8, DispatchHappened DEF Actors
<1>9. ASSUME NEW d \in Drainers, drPc[d] = "dispatch", DispatchStep(d, cur[d])
      PROVE  Tasks' /\ Runs'
  <2>1. cur[d] \in Events
    BY <1>9 DEF Shape, TypeOK, DrainShape, Unmarked
  <2>2. PICK e \in Events : e = cur[d]
    BY <2>1
  <2>3. QED BY <1>4, <1>9, <2>2, DispatchHappened DEF Actors
<1>10. QED
  BY <1>2, <1>3, <1>7, <1>8, <1>9
     DEF Next, vars, taskVars, PublishStep, DrainStep, PublishInTx, CommitTx,
         RollbackTx, CommitDomain, PublishDirect, FinishDirect, CrashDirect,
         BackoffElapses, Sweep, ClaimBatch, DeadLetterRow, PublishRow, MarkRow,
         CommitBatch, AbortBatch

\* The image of the pipeline in EventDelivery, event by event.
Kept(e)    == Happened(e) /\ Owned(e)
RanOf(e)   == {i \in OwnOf[e] : <<e, i>> \in done}
AsideOf(e) == {i \in OwnOf[e] : SetAside(e, i)}

\* A step that shows nothing of e's handlers, or nothing of e at all.
Calm(e)   == UNCHANGED <<RanOf(e), AsideOf(e)>>
Same(e)   == PhaseOf(e)' = PhaseOf(e) /\ (Kept(e)' <=> Kept(e)) /\ Calm(e)
Others(e) == \A f \in Delivered \ {e} : Same(f)

\* A step no event shows is a stutter of EventDelivery.
LEMMA NothingShown ==
  ASSUME \A e \in Delivered : Same(e)
  PROVE  UNCHANGED Delivery!dvars
BY DEF Delivery!dvars, Same, Calm, Kept, RanOf, AsideOf

\* What one event shows, and the action of EventDelivery it is.
LEMMA CommitShown ==
  ASSUME NEW e \in Delivered, Others(e), Calm(e), ~Kept(e)', ~Kept(e),
         PhaseOf(e) = "none", PhaseOf(e)' = "live"
  PROVE  Delivery!Commit(e)
BY DEF Delivery!Commit, Delivery!Become, Others, Same, Calm, Kept, RanOf,
       AsideOf

LEMMA AckShown ==
  ASSUME NEW e \in Delivered, Others(e), Calm(e), Kept(e)',
         PhaseOf(e) \in {"none", "live"}, PhaseOf(e)' = "acked"
  PROVE  Delivery!Ack(e)
BY DEF Delivery!Ack, Delivery!Become, Others, Same, Calm, Kept, RanOf, AsideOf

LEMMA FailShown ==
  ASSUME NEW e \in Delivered, Others(e), Calm(e), Kept(e)' <=> Kept(e),
         PhaseOf(e) = "live", PhaseOf(e)' = "failed"
  PROVE  Delivery!Fail(e)
BY DEF Delivery!Fail, Delivery!Become, Others, Same, Calm, Kept, RanOf, AsideOf

LEMMA WithdrawShown ==
  ASSUME NEW e \in Delivered, Others(e), Calm(e), Kept(e)' <=> Kept(e),
         PhaseOf(e) = "none", PhaseOf(e)' = "void"
  PROVE  Delivery!Withdraw(e)
BY DEF Delivery!Withdraw, Delivery!Become, Others, Same, Calm, Kept, RanOf,
       AsideOf

LEMMA EntrustShown ==
  ASSUME NEW e \in Delivered, Others(e), Calm(e),
         PhaseOf(e) \in {"live", "failed"}, PhaseOf(e)' = PhaseOf(e)
  PROVE  Delivery!Entrust(e)
BY DEF Delivery!Entrust, Others, Same, Calm, Kept, RanOf, AsideOf

LEMMA RunShown ==
  ASSUME NEW e \in Delivered, Others(e), Happened(e), TypeOK,
         NEW S \in SUBSET OwnOf[e], NEW P \in SUBSET OwnOf[e],
         RanOf(e)' = RanOf(e) \cup S, AsideOf(e)' = AsideOf(e) \cup P,
         PhaseOf(e)' = PhaseOf(e), Kept(e) => Kept(e)'
  PROVE  Delivery!Run(e, S, P)
<1>1. PhaseOf(e) \in {"live", "acked", "failed"}
  BY DEF Happened, PhaseOf, TypeOK, PubStates, Delivered, Known
<1>2. Delivery!Happened(e)
  BY <1>1 DEF Delivery!Happened
<1>3. [f \in Delivered |-> PhaseOf(f)]' = [f \in Delivered |-> PhaseOf(f)]
  BY DEF Others, Same
<1>4. [f \in Delivered |-> RanOf(f)]'
        = [[f \in Delivered |-> RanOf(f)] EXCEPT ![e] = @ \cup S]
  BY DEF Others, Same, Calm
<1>5. [f \in Delivered |-> AsideOf(f)]'
        = [[f \in Delivered |-> AsideOf(f)] EXCEPT ![e] = @ \cup P]
  BY DEF Others, Same, Calm
<1>6. {f \in Delivered : Kept(f)}'
        \in {{f \in Delivered : Kept(f)}, {f \in Delivered : Kept(f)} \cup {e}}
  BY DEF Others, Same
<1>7. QED
  BY <1>2, <1>3, <1>4, <1>5, <1>6 DEF Delivery!Run, Kept, RanOf, AsideOf

\* What a batch shows of e, when S are the events it dead-letters.
Parks(S, e) ==
  /\ PhaseOf(e)' = PhaseOf(e) /\ (Kept(e)' <=> Kept(e)) /\ RanOf(e)' = RanOf(e)
  /\ AsideOf(e)' = IF e \in S THEN OwnOf[e] ELSE AsideOf(e)

LEMMA ParkShown ==
  ASSUME NEW S \in SUBSET Delivered, \A e \in S : Kept(e),
         \A e \in Delivered : Parks(S, e)
  PROVE  Delivery!Park(S)
<1>1. [f \in Delivered |-> PhaseOf(f)]' = [f \in Delivered |-> PhaseOf(f)]
  BY DEF Parks
<1>2. {f \in Delivered : Kept(f)}' = {f \in Delivered : Kept(f)}
  BY DEF Parks
<1>3. [f \in Delivered |-> RanOf(f)]' = [f \in Delivered |-> RanOf(f)]
  BY DEF Parks
<1>4. [f \in Delivered |-> AsideOf(f)]'
        = [f \in Delivered |-> IF f \in S THEN OwnOf[f] ELSE AsideOf(f)]
  BY DEF Parks
<1>5. S \subseteq {f \in Delivered : Kept(f)}
  OBVIOUS
<1>6. QED
  BY <1>1, <1>2, <1>3, <1>4, <1>5 DEF Delivery!Park, Kept, RanOf, AsideOf

\* An event whose row, request, tasks and runs are left alone shows nothing.
LEMMA UntouchedSame ==
  ASSUME NEW f \in Delivered,
         rowSt'[f] = rowSt[f], dead'[f] = dead[f], pubPc'[f] = pubPc[f],
         UNCHANGED <<taskSt, taskEvt, done>>
  PROVE  Same(f)
BY DEF Same, Calm, PhaseOf, Kept, Happened, Owned, AllHandled, Handled, RanOf,
       AsideOf, SetAside

\* Nor does one whose tasks and runs stay as they are while others move.
Aside(f, t) == taskSt[t] = "archived" /\ taskEvt[t] = f
Holds(f, t) == taskSt[t] # "none" /\ taskEvt[t] = f

LEMMA ElsewhereSame ==
  ASSUME Shape, NEW f \in Delivered, UNCHANGED <<rowSt, dead, pubPc>>,
         \A i \in OwnOf[f] : <<f, i>> \in done' <=> <<f, i>> \in done,
         \A t \in TaskIds : Aside(f, t)' <=> Aside(f, t),
         \A t \in TaskIds : Holds(f, t)' <=> Holds(f, t)
  PROVE  Same(f)
<1>1. \A i \in OwnOf[f] : TaskId[f][i] \in TaskIds
  BY OwnFacts DEF Delivered, Known
<1>2. PhaseOf(f)' = PhaseOf(f) /\ (Happened(f)' <=> Happened(f))
  BY DEF PhaseOf, Happened
<1>3. \A i \in OwnOf[f] : Handled(f, i)' <=> Handled(f, i)
  BY <1>1 DEF Handled, Holds
<1>4. Kept(f)' <=> Kept(f)
  BY <1>2, <1>3 DEF Kept, Owned, AllHandled
<1>5. RanOf(f)' = RanOf(f)
  BY DEF RanOf
<1>6. AsideOf(f)' = AsideOf(f)
  BY <1>1 DEF AsideOf, SetAside, Aside
<1>7. QED BY <1>2, <1>4, <1>5, <1>6 DEF Same, Calm

\* An event that has not happened is nobody's.
LEMMA NotYetOwned ==
  ASSUME Shape, Causes, NEW e \in Delivered, ~Happened(e)
  PROVE  ~Owned(e)
<1>1. e \in Events
  BY DEF Delivered, Known
<1>2. rowSt[e] # "pending" /\ ~(dead[e] > 0)
  BY <1>1 DEF Causes, Rows
<1>3. PICK i \in OwnOf[e] : TRUE
  BY DEF Delivered
<1>4. TaskId[e][i] \in TaskIds /\ i \in AsyncOf(e)
  BY <1>1, OwnFacts
<1>5. ~Handled(e, i)
  BY <1>1, <1>4 DEF Causes, Tasks, Runs, Handled
<1>6. QED BY <1>2, <1>5 DEF Owned, AllHandled

Shown == Delivery!Next \/ UNCHANGED Delivery!dvars

\* A request's own steps, but for its dispatch loop.
LEMMA PublishShown ==
  ASSUME RefInv, RefInv', NEW e \in Events,
         \/ PublishInTx(e) \/ CommitTx(e) \/ RollbackTx(e)
         \/ CommitDomain(e) \/ PublishDirect(e) \/ CrashDirect(e)
  PROVE  Shown
<1>0. /\ rowSt \in [Events -> RowStates] /\ pubPc \in [Events -> PubStates]
      /\ Shape /\ Causes /\ PublishShape /\ Callers
  BY DEF RefInv, IInv, Shape, TypeOK, RowInv, Causes
<1>1. /\ UNCHANGED <<taskSt, taskEvt, done, dead>>
      /\ \A f \in Events \ {e} : rowSt'[f] = rowSt[f] /\ pubPc'[f] = pubPc[f]
  BY <1>0 DEF PublishInTx, CommitTx, RollbackTx, CommitDomain, PublishDirect,
         CrashDirect, rowVars, taskVars
<1>2. \A f \in Delivered \ {e} : Same(f)
  BY <1>1, UntouchedSame DEF Delivered, Known
<1>3. CASE e \notin Delivered
  BY <1>2, <1>3, NothingShown DEF Shown
<1>4. ASSUME e \in Delivered PROVE Shown
  <2> USE DEF Shown, Delivery!Next
  <2>1. Others(e) /\ Calm(e)
    BY <1>1, <1>2 DEF Others, Calm, RanOf, AsideOf, SetAside
  <2>2. pubPc'[e] = pubPc[e] /\ rowSt'[e] = rowSt[e] => Same(e)
    BY <1>1, <1>4, UntouchedSame
  <2>3. CASE PublishInTx(e)
    <3>1. PhaseOf(e) = "none"
      BY <2>3 DEF PublishInTx, PhaseOf
    <3>2. CASE pubPc'[e] = "err"
      <4>1. PhaseOf(e)' = "void"
        BY <2>3, <3>2 DEF PublishInTx, PhaseOf
      <4>2. ~Kept(e) /\ ~Kept(e)'
        BY <3>1, <4>1 DEF Kept, Happened
      <4>3. QED BY <1>4, <2>1, <3>1, <4>1, <4>2, WithdrawShown
    <3>3. CASE pubPc'[e] = "inTx"
      <4>1. PhaseOf(e)' = "none"
        BY <3>3 DEF PhaseOf
      <4>2. ~Kept(e) /\ ~Kept(e)'
        BY <3>1, <4>1 DEF Kept, Happened
      <4>3. QED
        BY <1>2, <2>1, <3>1, <4>1, <4>2, NothingShown DEF Same
    <3>4. QED BY <1>0, <2>3, <3>2, <3>3 DEF PublishInTx
  <2>4. CASE CommitTx(e)
    <3>1. PhaseOf(e) = "none" /\ pubPc'[e] = "ok"
      BY <1>0, <2>4 DEF CommitTx, PhaseOf
    <3>2. PhaseOf(e)' = "acked"
      BY <3>1 DEF PhaseOf
    <3>3. Kept(e)'
      BY <1>4, <3>1, <3>2
         DEF Kept, Happened, RefInv, IInv, DeliveryInv, NoSilentLoss,
             Delivered, Known
    <3>4. QED BY <1>4, <2>1, <3>1, <3>2, <3>3, AckShown
  <2>5. CASE RollbackTx(e)
    <3>1. PhaseOf(e) = "none" /\ pubPc'[e] = "err" /\ e \in InTx
      BY <1>0, <2>5 DEF RollbackTx, PhaseOf, Callers
    <3>2. PhaseOf(e)' = "void"
      BY <3>1 DEF PhaseOf
    <3>3. ~Kept(e) /\ ~Kept(e)'
      BY <3>1, <3>2 DEF Kept, Happened
    <3>4. QED BY <1>4, <2>1, <3>1, <3>2, <3>3, WithdrawShown
  <2>6. CASE CommitDomain(e)
    <3>1. PhaseOf(e) = "none" /\ pubPc'[e] = "domain" /\ UNCHANGED rowVars
      BY <1>0, <2>6 DEF CommitDomain, PhaseOf
    <3>2. PhaseOf(e)' = "live"
      BY <3>1 DEF PhaseOf
    <3>3. ~Happened(e) /\ ~Owned(e)
      BY <1>0, <1>4, <3>1, NotYetOwned DEF Happened
    <3>4. ~Kept(e) /\ ~Kept(e)'
      BY <1>1, <3>1, <3>3 DEF Kept, Owned, AllHandled, Handled, rowVars
    <3>5. QED BY <1>4, <2>1, <3>1, <3>2, <3>4, CommitShown
  <2>7. CASE PublishDirect(e)
    <3>1. PhaseOf(e) = "live" /\ pubPc'[e] = "dispatch"
      BY <1>0, <2>7 DEF PublishDirect, PhaseOf
    <3>2. PhaseOf(e)' = "live"
      BY <3>1 DEF PhaseOf
    <3>3. QED BY <1>4, <2>1, <3>1, <3>2, EntrustShown
  <2>8. CASE CrashDirect(e)
    <3>1. PhaseOf(e) = "live" /\ pubPc'[e] = "crashed" /\ UNCHANGED rowVars
      BY <1>0, <2>8 DEF CrashDirect, PhaseOf
    <3>2. PhaseOf(e)' = "failed"
      BY <3>1 DEF PhaseOf
    <3>3. Kept(e)' <=> Kept(e)
      BY <1>1, <3>1, <3>2
         DEF Kept, Happened, Owned, AllHandled, Handled, rowVars
    <3>4. QED BY <1>4, <2>1, <3>1, <3>2, <3>3, FailShown
  <2>9. QED BY <2>3, <2>4, <2>5, <2>6, <2>7, <2>8
<1>5. QED BY <1>3, <1>4

\* The mark that ends a direct Publish answers the caller and loses nothing.
LEMMA FinishShown ==
  ASSUME RefInv, RefInv', NEW e \in Events, FinishDirect(e)
  PROVE  Shown
<1>0. /\ rowSt \in [Events -> RowStates] /\ pubPc \in [Events -> PubStates]
      /\ dead \in [Events -> Nat] /\ disp \in [Actors -> Locals]
      /\ Shape /\ Causes /\ PublishShape /\ Callers /\ DispatchInv
  BY DEF RefInv, IInv, Shape, TypeOK, RowInv, Causes, DeliveryInv
<1>1. /\ UNCHANGED <<taskSt, taskEvt, done, dead>>
      /\ \A f \in Events \ {e} : rowSt'[f] = rowSt[f] /\ pubPc'[f] = pubPc[f]
  BY <1>0, ZenonT(60) DEF FinishDirect, ApplyMarks, NoMarks, rowVars, taskVars
<1>2. \A f \in Delivered \ {e} : Same(f)
  BY <1>1, UntouchedSame DEF Delivered, Known
<1>3. CASE e \notin Delivered
  BY <1>2, <1>3, NothingShown DEF Shown
<1>4. ASSUME e \in Delivered PROVE Shown
  <2> USE DEF Shown, Delivery!Next
  <2>1. Others(e) /\ Calm(e)
    BY <1>1, <1>2 DEF Others, Calm, RanOf, AsideOf, SetAside
  <2>2. PhaseOf(e) = "live" /\ e \notin InTx
    BY <1>0 DEF FinishDirect, PhaseOf, Callers
  <2>3. pubPc'[e] \in {"ok", "err"}
    BY <1>0 DEF FinishDirect, PublishResult
  <2>4. CASE pubPc'[e] = "ok"
    <3>1. PhaseOf(e)' = "acked"
      BY <2>4 DEF PhaseOf
    <3>2. Kept(e)'
      BY <1>4, <2>4, <3>1
         DEF Kept, Happened, RefInv, IInv, DeliveryInv, NoSilentLoss,
             Delivered, Known
    <3>3. QED BY <1>4, <2>1, <2>2, <3>1, <3>2, AckShown
  <2>5. CASE pubPc'[e] = "err"
    <3>1. PhaseOf(e)' = "failed"
      BY <2>2, <2>5 DEF PhaseOf
    <3>2. \A i \in OwnOf[e] : Handled(e, i)' <=> Handled(e, i)
      BY <1>1 DEF Handled
    <3>3. rowSt'[e] # rowSt[e] => rowSt[e] # "none" /\ disp[e].enq
      BY <1>0 DEF FinishDirect, ApplyMarks, NoMarks, rowVars
    <3>4. disp[e].enq => AllHandled(e)
      BY <1>0, <1>4, DispatchedHandled
         DEF FinishDirect, DispatchInv, Actors, Delivered
    <3>5. Owned(e)' <=> Owned(e)
      BY <1>1, <3>2, <3>3, <3>4 DEF Owned, AllHandled
    <3>6. Kept(e)' <=> Kept(e)
      BY <2>2, <3>1, <3>5 DEF Kept, Happened
    <3>7. QED BY <1>4, <2>1, <2>2, <3>1, <3>6, FailShown
  <2>6. QED BY <2>3, <2>4, <2>5
<1>5. QED BY <1>3, <1>4

\* A subscription served by a dispatch loop can only put the event in keeping.
LEMMA DispatchShown ==
  ASSUME RefInv, RefInv', [Next]_vars, NEW x \in Actors, NEW e \in Events,
         Happened(e), DispatchStep(x, e)
  PROVE  Shown
<1>0. /\ Shape /\ pubPc \in [Events -> PubStates]
      /\ taskSt \in [TaskIds -> TaskStates]
      /\ taskEvt \in [TaskIds -> Events \cup {NoEvent}]
      /\ UNCHANGED <<rowSt, dead, pubPc, done>>
  BY DEF RefInv, IInv, Shape, TypeOK, DispatchStep, rowVars
<1>1. UNCHANGED taskVars \/ \E t \in TaskIds : StoreTask(t, e)
  <2>1. Subs[e][disp[x].i] = "async" => TaskId[e][disp[x].i] \in TaskIds
    BY <1>0, SubsAssumption DEF Shape, TypeOK, Locals, DispatchStep, Dispatched
  <2>2. QED BY <2>1 DEF DispatchStep, EnqueueOk, EnqueueErr, RunSync
<1>2. CASE UNCHANGED taskVars
  BY <1>0, <1>2, UntouchedSame, NothingShown DEF Shown, taskVars
<1>3. ASSUME NEW t \in TaskIds, StoreTask(t, e), taskSt[t] = "none" PROVE Shown
  <2>1. /\ taskSt' = [taskSt EXCEPT ![t] = "queued"]
        /\ taskEvt' = [taskEvt EXCEPT ![t] = e]
    BY <1>3 DEF StoreTask
  <2>2. ASSUME NEW f \in Events
        PROVE  /\ \A u \in TaskIds : Aside(f, u)' <=> Aside(f, u)
               /\ f # e => \A u \in TaskIds : Holds(f, u)' <=> Holds(f, u)
    BY <1>0, <1>3, <2>1 DEF Aside, Holds
  <2>3. \A f \in Delivered \ {e} : Same(f)
    BY <1>0, <2>2, ElsewhereSame DEF Delivered, Known
  <2>4. CASE e \notin Delivered
    BY <2>3, <2>4, NothingShown DEF Shown
  <2>5. ASSUME e \in Delivered PROVE Shown
    <3>1. PhaseOf(e)' = PhaseOf(e) /\ Happened(e)'
      BY <1>0 DEF PhaseOf, Happened
    <3>2. \A i \in OwnOf[e] : TaskId[e][i] \in TaskIds
      BY OwnFacts
    <3>3. Calm(e)
      BY <1>0, <2>2, <3>2 DEF Calm, RanOf, AsideOf, SetAside, Aside
    <3>4. CASE Owned(e)' <=> Owned(e)
      <4>1. Same(e)
        BY <3>1, <3>3, <3>4 DEF Same, Kept
      <4>2. QED BY <2>3, <4>1, NothingShown DEF Shown
    <3>5. CASE PhaseOf(e) \in {"live", "failed"}
      BY <2>3, <2>5, <3>1, <3>3, <3>5, EntrustShown
         DEF Others, Shown, Delivery!Next
    <3>6. CASE PhaseOf(e) \notin {"live", "failed"}
      <4>1. pubPc[e] = "ok"
        BY <1>0, <3>6 DEF PhaseOf, Happened, PubStates
      <4>2. Owned(e) /\ Owned(e)'
        BY <1>0, <2>5, <4>1
           DEF RefInv, IInv, DeliveryInv, NoSilentLoss, Delivered, Known
      <4>3. QED BY <3>4, <4>2
    <3>7. QED BY <3>5, <3>6
  <2>6. QED BY <2>4, <2>5
<1>4. QED BY <1>1, <1>2, <1>3 DEF StoreTask

\* The rows a batch dead-letters are the events it sets aside; it shows
\* nothing of the others.
LEMMA BatchShown ==
  ASSUME RefInv, NEW d \in Drainers, CommitBatch(d)
  PROVE  Shown
<1> PICK S : S = {e \in Delivered : eff[d][e] = "dead"}
  OBVIOUS
<1>0. /\ rowSt \in [Events -> RowStates] /\ pubPc \in [Events -> PubStates]
      /\ dead \in [Events -> Nat] /\ ApplyMarks(eff[d])
      /\ UNCHANGED <<taskSt, taskEvt, done, pubPc>>
  BY DEF RefInv, IInv, Shape, TypeOK, CommitBatch, taskVars
<1>1. ASSUME NEW e \in Delivered PROVE
        /\ e \in Events
        /\ eff[d][e] # "none" => rowSt[e] = "pending" /\ Happened(e)
        /\ eff[d][e] = "ok" => AllHandled(e)
  BY DEF RefInv, IInv, Shape, DrainShape, RowInv, ExclusiveClaim, Causes, Rows,
         DeliveryInv, MarkInv, Delivered, Known
<1>2. \A e \in S : Kept(e)
  BY <1>1 DEF Kept, Owned
<1>3. ASSUME NEW e \in Delivered PROVE Parks(S, e)
  <2>1. PhaseOf(e)' = PhaseOf(e) /\ (Happened(e)' <=> Happened(e))
    BY <1>0 DEF PhaseOf, Happened
  <2>2. AllHandled(e)' <=> AllHandled(e)
    BY <1>0 DEF AllHandled, Handled
  <2>3. RanOf(e)' = RanOf(e)
    BY <1>0 DEF RanOf
  <2>4. CASE eff[d][e] = "dead"
    <3>1. rowSt[e] = "pending" /\ dead'[e] > 0
      BY <1>0, <1>1, <2>4 DEF ApplyMarks
    <3>2. Owned(e) /\ Owned(e)'
      BY <3>1 DEF Owned
    <3>3. AsideOf(e)' = OwnOf[e]
      BY <3>1 DEF AsideOf, SetAside
    <3>4. QED BY <2>1, <2>3, <2>4, <3>2, <3>3 DEF Parks, Kept
  <2>5. CASE eff[d][e] # "dead"
    <3>1. /\ dead'[e] = dead[e]
          /\ rowSt'[e] = rowSt[e] \/ AllHandled(e)
      BY <1>0, <1>1, <2>5 DEF ApplyMarks
    <3>2. Owned(e)' <=> Owned(e)
      BY <2>2, <3>1 DEF Owned
    <3>3. AsideOf(e)' = AsideOf(e)
      BY <1>0, <3>1 DEF AsideOf, SetAside
    <3>4. QED BY <2>1, <2>3, <2>5, <3>2, <3>3 DEF Parks, Kept
  <2>6. QED BY <2>4, <2>5
<1>4. S \in SUBSET Delivered
  OBVIOUS
<1>5. Delivery!Park(S)
  BY <1>2, <1>3, <1>4, ParkShown
<1>6. S \in SUBSET {e \in Delivered : Happened(e) /\ Owned(e)}
  BY <1>2, <1>4 DEF Kept
<1>7. QED BY <1>5, <1>6 DEF Shown, Delivery!Next

\* A task runs handlers of its event, or none when it is skipped, and may
\* leave the queue or be archived.
LEMMA HandlersShown ==
  ASSUME RefInv, [Next]_vars, NEW t \in TaskIds, NEW e, e = taskEvt[t],
         taskSt[t] = "queued", NEW S \in SUBSET AsyncOf(e),
         done' = done \cup ({e} \X S), UNCHANGED <<rowSt, dead, pubPc>>,
         Archive(t) \/ Complete(t) \/ UNCHANGED <<taskSt, taskEvt>>
  PROVE  Shown
<1>0. /\ Shape /\ e \in Events /\ Happened(e)
      /\ taskSt \in [TaskIds -> TaskStates]
      /\ taskEvt \in [TaskIds -> Events \cup {NoEvent}]
  BY DEF RefInv, IInv, Shape, TypeOK, TaskShape, Causes, Tasks
<1>1. ASSUME NEW f \in Events, f # e, NEW u \in TaskIds
      PROVE  (Aside(f, u)' <=> Aside(f, u)) /\ (Holds(f, u)' <=> Holds(f, u))
  BY <1>0, <1>1, IdentityAssumption DEF Archive, Complete, Aside, Holds
<1>2. \A f \in Delivered \ {e} : Same(f)
  BY <1>0, <1>1, ElsewhereSame DEF Delivered, Known
<1>3. CASE e \notin Delivered
  BY <1>2, <1>3, NothingShown DEF Shown
<1>4. ASSUME e \in Delivered PROVE Shown
  <2> DEFINE P == {i \in OwnOf[e] : TaskId[e][i] = t /\ Archive(t)}
  <2>1. PhaseOf(e)' = PhaseOf(e) /\ (Happened(e)' <=> Happened(e))
    BY DEF PhaseOf, Happened
  <2>2. AllHandled(e) => AllHandled(e)'
    BY <1>4, HandledStable, <1>0 DEF AllHandled, Delivered
  <2>3. Kept(e) => Kept(e)'
    BY <2>1, <2>2 DEF Kept, Owned
  <2>4. PICK R \in SUBSET OwnOf[e] : RanOf(e)' = RanOf(e) \cup R
    <3>1. RanOf(e)' = RanOf(e) \cup (S \cap OwnOf[e])
      BY DEF RanOf
    <3>2. QED BY <3>1
  <2>5. ASSUME NEW i \in OwnOf[e]
        PROVE  SetAside(e, i)' <=> SetAside(e, i) \/ (TaskId[e][i] = t /\ Archive(t))
    <3>1. TaskId[e][i] \in TaskIds
      BY <1>0, OwnFacts
    <3>2. CASE Archive(t)
      BY <1>0, <3>1, <3>2 DEF Archive, SetAside
    <3>3. CASE Complete(t) /\ ~Archive(t)
      BY <1>0, <3>1, <3>3, IdentityAssumption DEF Complete, SetAside
    <3>4. CASE UNCHANGED <<taskSt, taskEvt>> /\ ~Archive(t)
      BY <3>4 DEF SetAside
    <3>5. QED BY <3>2, <3>3, <3>4
  <2>6. AsideOf(e)' = AsideOf(e) \cup P
    BY <2>5 DEF AsideOf
  <2>7. PICK Q \in SUBSET OwnOf[e] : AsideOf(e)' = AsideOf(e) \cup Q
    BY <2>6
  <2>8. Others(e) /\ TypeOK
    BY <1>0, <1>2 DEF Others, Shape
  <2>9. Delivery!Run(e, R, Q)
    BY <1>0, <1>4, <2>1, <2>3, <2>4, <2>7, <2>8, RunShown
  <2>10. /\ R \in SUBSET [f \in Delivered |-> OwnOf[f]][e]
         /\ Q \in SUBSET [f \in Delivered |-> OwnOf[f]][e]
    BY <1>4
  <2>11. QED BY <1>4, <2>9, <2>10 DEF Shown, Delivery!Next
<1>5. QED BY <1>3, <1>4

LEMMA TaskShown ==
  ASSUME RefInv, [Next]_vars, NEW t \in TaskIds,
         WorkerStep(t) \/ TaskInterrupted(t)
  PROVE  Shown
<1> DEFINE e == taskEvt[t]
<1>1. /\ taskSt[t] = "queued" /\ UNCHANGED <<rowSt, dead, pubPc>>
      /\ Archive(t) \/ Complete(t) \/ UNCHANGED <<taskSt, taskEvt>>
      /\ \E S \in SUBSET AsyncOf(e) : done' = done \cup ({e} \X S)
  <2>1. CASE TaskSkipped(t)
    <3>1. done' = done \cup ({e} \X {})
      BY <2>1 DEF TaskSkipped
    <3>2. QED BY <2>1, <3>1 DEF TaskSkipped, rowVars
  <2>2. CASE TaskSucceeds(t)
    BY <2>2 DEF TaskSucceeds, Decodable, Ran, rowVars
  <2>3. CASE TaskFails(t)
    BY <2>3 DEF TaskFails, Decodable, Ran, rowVars
  <2>4. CASE TaskInterrupted(t)
    BY <2>4 DEF TaskInterrupted, Decodable, Ran, rowVars, taskVars
  <2>5. QED BY <2>1, <2>2, <2>3, <2>4 DEF WorkerStep
<1>2. QED BY <1>1, HandlersShown

\* Every other step is the drain's bookkeeping, the clock's or the sweep's.
Quiet ==
  /\ UNCHANGED <<taskSt, taskEvt, done, dead, pubPc>>
  /\ \A e \in Events : (rowSt'[e] = "pending") <=> (rowSt[e] = "pending")

LEMMA QuietShown ==
  ASSUME Quiet
  PROVE  Shown
<1>1. ASSUME NEW e \in Delivered PROVE Same(e)
  <2>1. Owned(e)' <=> Owned(e)
    BY DEF Quiet, Owned, AllHandled, Handled, Delivered, Known
  <2>2. QED
    BY <2>1 DEF Quiet, Same, Calm, PhaseOf, Kept, Happened, RanOf, AsideOf, SetAside
<1>2. QED BY <1>1, NothingShown DEF Shown

\* Every step of the pipeline is a step of EventDelivery, or shows nothing.
LEMMA NextShown ==
  ASSUME RefInv, RefInv', [Next]_vars
  PROVE  Shown
<1>0. TypeOK /\ Shape /\ RowInv /\ Causes
  BY DEF RefInv, IInv, Shape
<1>1. ASSUME NEW e \in Events, PublishStep(e) PROVE Shown
  <2>1. CASE pubPc[e] = "dispatch" /\ DispatchStep(e, e)
    BY <1>0, <2>1, DispatchHappened, DispatchShown DEF Actors
  <2>2. QED BY <1>1, <2>1, PublishShown, FinishShown DEF PublishStep
<1>2. ASSUME NEW e \in Events, CrashDirect(e) PROVE Shown
  BY <1>2, PublishShown
<1>3. ASSUME NEW e \in Events, BackoffElapses(e) \/ Sweep(e) PROVE Shown
  <2>1. Quiet
    BY <1>0, <1>3 DEF Quiet, BackoffElapses, Sweep, taskVars, TypeOK
  <2>2. QED BY <2>1, QuietShown
<1>4. ASSUME NEW d \in Drainers, DrainStep(d) PROVE Shown
  <2>1. CASE ClaimBatch(d) \/ DeadLetterRow(d) \/ PublishRow(d) \/ MarkRow(d)
    <3>1. Quiet
      BY <2>1
         DEF Quiet, ClaimBatch, DeadLetterRow, PublishRow, MarkRow, rowVars,
             taskVars
    <3>2. QED BY <3>1, QuietShown
  <2>2. CASE drPc[d] = "dispatch" /\ DispatchStep(d, cur[d])
    <3>1. PICK e \in Events : e = cur[d]
      BY <1>0, <2>2 DEF Shape, TypeOK, DrainShape, Unmarked
    <3>2. QED BY <1>0, <2>2, <3>1, DispatchHappened, DispatchShown DEF Actors
  <2>3. CASE CommitBatch(d)
    BY <2>3, BatchShown
  <2>4. QED BY <1>4, <2>1, <2>2, <2>3 DEF DrainStep
<1>5. ASSUME NEW d \in Drainers, AbortBatch(d) PROVE Shown
  <2>1. Quiet
    BY <1>5 DEF Quiet, AbortBatch, rowVars, taskVars
  <2>2. QED BY <2>1, QuietShown
<1>6. ASSUME NEW t \in TaskIds, WorkerStep(t) \/ TaskInterrupted(t) PROVE Shown
  BY <1>6, TaskShown
<1>7. CASE UNCHANGED vars
  <2>1. Quiet
    BY <1>7 DEF Quiet, vars, rowVars, taskVars
  <2>2. QED BY <2>1, QuietShown
<1>8. QED BY <1>1, <1>2, <1>3, <1>4, <1>5, <1>6, <1>7 DEF Next

\* Initially nothing has happened, so nothing is in keeping.
LEMMA InitShown == Init => Delivery!Init
<1> SUFFICES ASSUME Init PROVE Delivery!Init
  OBVIOUS
<1>1. \A e \in Delivered : PhaseOf(e) = "none" /\ ~Happened(e)
  BY DEF Init, PhaseOf, Happened, Delivered, Known
<1>2. \A e \in Delivered : RanOf(e) = {} /\ AsideOf(e) = {}
  BY OwnFacts DEF Init, RanOf, AsideOf, SetAside, Delivered, Known
<1>3. QED BY <1>1, <1>2 DEF Delivery!Init, RanOf, AsideOf

LEMMA InitRefInv == Init => RefInv
<1>1. Init => IInv
  BY InitIInv
<1>2. Init => Causes
  BY DEF Init, Causes, Callers, Rows, Tasks, Runs
<1>3. QED BY <1>1, <1>2 DEF RefInv

LEMMA NextRefInv == RefInv /\ [Next]_vars => RefInv'
<1> SUFFICES ASSUME RefInv, [Next]_vars PROVE RefInv'
  OBVIOUS
<1>1. IInv'
  BY NextIInv DEF RefInv
<1>2. Callers' /\ Rows' /\ Tasks' /\ Runs'
  BY <1>1, NextCallers, NextRows, NextTasksRuns DEF RefInv, IInv
<1>3. QED BY <1>1, <1>2 DEF RefInv, Causes

\* WithTx and ProcessTask: whatever its task id, no async handler has run, no
\* task waits and no dead letter stands for an event whose domain change has
\* not committed.
THEOREM OnlyCommittedHandled ==
  Spec => [](\A e \in Events :
               (\E i \in AsyncOf(e) : Handled(e, i)) \/ dead[e] > 0 => Happened(e))
<1>1. RefInv => \A e \in Events :
                  (\E i \in AsyncOf(e) : Handled(e, i)) \/ dead[e] > 0 => Happened(e)
  <2>1. \A e \in Events : \A i \in AsyncOf(e) : TaskId[e][i] \in TaskIds
    BY SubsAssumption DEF AsyncOf
  <2>2. QED BY <2>1 DEF RefInv, Causes, Rows, Tasks, Runs, Handled
<1>2. QED BY <1>1, InitRefInv, NextRefInv, PTL DEF Spec

\* Outbox, drain, queue and worker implement what EventDelivery promises a
\* caller of Publish: handlers run only for a committed change, a rolled-back
\* one leaves nothing behind, and what was acknowledged stays in keeping, but
\* for the handlers whose task id another event yields.
THEOREM DeliveryImplemented == Spec => ImplementsDelivery
<1>1. RefInv /\ RefInv' /\ [Next]_vars => [Delivery!Next]_Delivery!dvars
  BY NextShown DEF Shown
<1>2. QED
  BY <1>1, InitRefInv, NextRefInv, InitShown, PTL
     DEF Spec, ImplementsDelivery, Delivery!Spec

-----------------------------------------------------------------------------
(***************************************************************************)
(* What the promise amounts to                                             *)
(***************************************************************************)
\* The contract alone, whatever implements it.
LEMMA ContractKeepsPromise ==
  /\ Delivery!Init => Delivery!Promised
  /\ Delivery!Promised /\ [Delivery!Next]_Delivery!dvars
       => Delivery!Promised' /\ Delivery!Lasting
<1>1. Delivery!Init => Delivery!Promised
  BY DEF Delivery!Init, Delivery!Promised
<1>2. ASSUME Delivery!Promised, [Delivery!Next]_Delivery!dvars
      PROVE  Delivery!Promised' /\ Delivery!Lasting
  <2>1. CASE UNCHANGED Delivery!dvars
    BY <1>2, <2>1 DEF Delivery!dvars, Delivery!Promised, Delivery!Lasting, Delivery!Happened
  <2>2. CASE \E e \in Delivered : Delivery!Commit(e)
    BY <1>2, <2>2 DEF Delivery!Commit, Delivery!Become, Delivery!Promised, Delivery!Lasting, Delivery!Happened
  <2>3. CASE \E e \in Delivered : Delivery!Ack(e)
    BY <1>2, <2>3 DEF Delivery!Ack, Delivery!Become, Delivery!Promised, Delivery!Lasting, Delivery!Happened
  <2>4. CASE \E e \in Delivered : Delivery!Fail(e)
    BY <1>2, <2>4 DEF Delivery!Fail, Delivery!Become, Delivery!Promised, Delivery!Lasting, Delivery!Happened
  <2>5. CASE \E e \in Delivered : Delivery!Withdraw(e)
    BY <1>2, <2>5 DEF Delivery!Withdraw, Delivery!Become, Delivery!Promised, Delivery!Lasting, Delivery!Happened
  <2>6. CASE \E e \in Delivered : Delivery!Entrust(e)
    BY <1>2, <2>6 DEF Delivery!Entrust, Delivery!Promised, Delivery!Lasting, Delivery!Happened
  <2>7. ASSUME NEW e \in Delivered, NEW S, NEW P, Delivery!Run(e, S, P)
        PROVE  Delivery!Promised' /\ Delivery!Lasting
    <3>1. \A f \in Delivered :
            /\ PhaseOf(f)' = PhaseOf(f)
            /\ Kept(f) => Kept(f)'
            /\ Kept(f)' => Kept(f) \/ f = e
      BY <2>7 DEF Delivery!Run, Kept
    <3>2. RanOf(e)' = RanOf(e) \cup S
      BY <2>7 DEF Delivery!Run, RanOf
    <3>3. \A f \in Delivered \ {e} :
            RanOf(f)' = RanOf(f) /\ AsideOf(f)' = AsideOf(f)
      BY <2>7 DEF Delivery!Run, RanOf, AsideOf
    <3>4. PhaseOf(e) \in {"live", "acked", "failed"}
      BY <2>7 DEF Delivery!Run, Delivery!Happened
    <3>5. QED
      BY <1>2, <3>1, <3>2, <3>3, <3>4
         DEF Delivery!Promised, Delivery!Lasting, Delivery!Happened, Kept, RanOf, AsideOf
  <2>8. ASSUME NEW S, Delivery!Park(S)
        PROVE  Delivery!Promised' /\ Delivery!Lasting
    <3>1. \A e \in Delivered :
            /\ PhaseOf(e)' = PhaseOf(e) /\ RanOf(e)' = RanOf(e)
            /\ Kept(e)' <=> Kept(e)
      BY <2>8 DEF Delivery!Park, Kept, RanOf
    <3>2. \A e \in Delivered : AsideOf(e)' # {} => AsideOf(e) # {} \/ Kept(e)
      BY <2>8 DEF Delivery!Park, AsideOf, Kept
    <3>3. QED
      BY <1>2, <3>1, <3>2
         DEF Delivery!Promised, Delivery!Lasting, Delivery!Happened, Kept, RanOf, AsideOf
  <2>9. QED
    BY <1>2, <2>1, <2>2, <2>3, <2>4, <2>5, <2>6, <2>7, <2>8 DEF Delivery!Next
<1>3. QED BY <1>1, <1>2

\* Publish: what it has acknowledged is in somebody's keeping from then on, and
\* nothing is kept, run or set aside of a change that was rolled back.
THEOREM PromiseKept ==
  Spec => /\ []Delivery!Promised
          /\ [][Delivery!Lasting]_Delivery!dvars
<1>1. Delivery!Spec => []Delivery!Promised
  BY ContractKeepsPromise, PTL DEF Delivery!Spec
<1>2. Delivery!Promised /\ [Delivery!Next]_Delivery!dvars => [Delivery!Lasting]_Delivery!dvars
  BY ContractKeepsPromise
<1>3. QED
  BY <1>1, <1>2, DeliveryImplemented, PTL DEF Delivery!Spec, ImplementsDelivery

\* dispatch and InvokeAsync: once a handler with a task id of its own has its
\* task in Redis or has run, no retry, archive, failed drain or crash makes the
\* pipeline forget it: its task leaves Redis only when it has run.
THEOREM HandledForGood ==
  Spec => [][\A e \in Known : \A i \in OwnOf[e] : Handled(e, i) => Handled(e, i)']_vars
<1>1. Shape /\ [Next]_vars
        => [\A e \in Known : \A i \in OwnOf[e] : Handled(e, i) => Handled(e, i)']_vars
  BY HandledStable
<1>2. Shape /\ [Next]_vars => Shape'
  BY NextType, NextTaskShape, NextDrainShape DEF Shape
<1>3. Init => Shape
  BY InitType, InitShape DEF Shape
<1>4. QED BY <1>1, <1>2, <1>3, PTL DEF Spec

=============================================================================
