----------------------------- MODULE EventOutbox -----------------------------
(***************************************************************************)
(* The event pipeline: Bus.Publish and its transactional outbox, the drain *)
(* that re-publishes pending rows from any number of replicas, the Asynq   *)
(* queue behind it (external), the worker that runs the async handlers and *)
(* the retention sweep of processed rows.                                  *)
(*                                                                         *)
(* An event stands for one call of Publish, so the publishing request, the *)
(* outbox row it writes and the event share one identity.  Time is the     *)
(* moment a back-off window closes; every failure the code has an error    *)
(* path for (Redis, PostgreSQL, a crash, a failing handler) is a choice    *)
(* that spends one unit of MaxFaults.                                      *)
(***************************************************************************)
EXTENDS Naturals, Sequences, FiniteSets

CONSTANTS
  Events,        \* the calls of Publish
  InTx,          \* those made inside the service's transaction
  Drainers,      \* processes that run DrainOutbox
  Subs,          \* Subs[e]: kinds of e's subscriptions in registration order
  TaskIds,       \* Asynq task identifiers
  TaskId,        \* TaskId[e][i]: what subscription i's TaskIDFn returns for e
  DedupeKey,     \* DedupeKey[e]: OutboxDedupeKey of e, or NoKey
  NoKey,
  NoEvent,
  Unregistered,  \* events whose type the worker's registry lacks
  Corrupt,       \* events whose payload the worker cannot unmarshal
  MaxRetry,      \* outboxMaxRetry
  BatchSize,     \* drainBatchSize
  TaskMaxRetry,  \* defaultTaskMaxRetry
  MaxFaults      \* bound: failures injected in one behaviour

SubKinds == {"async", "sync", "critical"}

ASSUME SubsAssumption ==
  /\ Subs \in [Events -> Seq(SubKinds)]
  /\ \A e \in Events : \A i \in 1..Len(Subs[e]) : TaskId[e][i] \in TaskIds
ASSUME BoundsAssumption ==
  /\ MaxRetry \in Nat /\ BatchSize \in Nat /\ TaskMaxRetry \in Nat
  /\ MaxFaults \in Nat
ASSUME IdentityAssumption ==
  /\ InTx \subseteq Events
  /\ Events \cap Drainers = {}
  /\ NoEvent \notin Events

VARIABLES
  rowSt,      \* rowSt[e]: the outbox row (open = inserted, not committed)
  retry,      \* retry_count
  cooling,    \* last_attempted_at is inside the back-off window
  dead,       \* number of dead-letter rows with source_id e
  taskSt,     \* taskSt[t]: what Redis holds under task id t
  taskEvt,    \* the event in its envelope
  taskTries,  \* failed runs of the task
  done,       \* <<e, i>>: async handler i ran for e without an error
  pubPc,      \* where the publishing request is
  disp,       \* disp[x]: locals of the dispatch loop run by x
  drPc,       \* where the drain goroutine is
  cur,        \* the row it is publishing
  batch,      \* rows it has locked FOR UPDATE
  eff,        \* eff[d][e]: uncommitted mark of d's transaction on row e
  faults      \* failures injected so far

rowVars  == <<rowSt, retry, cooling, dead>>
taskVars == <<taskSt, taskEvt, taskTries>>
drVars   == <<drPc, cur, batch, eff>>
vars     == <<rowVars, taskVars, done, pubPc, disp, drVars, faults>>

RowStates  == {"none", "open", "pending", "processed", "swept"}
TaskStates == {"none", "queued", "archived"}
PubStates  == {"start", "domain", "inTx", "dispatch", "ok", "err", "crashed"}
Marks      == {"none", "ok", "fail", "dead"}
Actors     == Events \cup Drainers
Locals     == [i : Nat \ {0}, enq : BOOLEAN, crit : BOOLEAN]

AsyncOf(e) == {i \in 1..Len(Subs[e]) : Subs[e][i] = "async"}

(***************************************************************************)
(* Locals of dispatch: next subscription, allEnqueued, firstCritErr # nil. *)
(***************************************************************************)
DispatchStart == [i |-> 1, enq |-> TRUE, crit |-> FALSE]

NoMarks == [e \in Events |-> "none"]

Init ==
  /\ rowSt = [e \in Events |-> "none"]
  /\ retry = [e \in Events |-> 0]
  /\ cooling = [e \in Events |-> FALSE]
  /\ dead = [e \in Events |-> 0]
  /\ taskSt = [t \in TaskIds |-> "none"]
  /\ taskEvt = [t \in TaskIds |-> NoEvent]
  /\ taskTries = [t \in TaskIds |-> 0]
  /\ done = {}
  /\ pubPc = [e \in Events |-> "start"]
  /\ disp = [x \in Actors |-> DispatchStart]
  /\ drPc = [d \in Drainers |-> "idle"]
  /\ cur = [d \in Drainers |-> NoEvent]
  /\ batch = [d \in Drainers |-> {}]
  /\ eff = [d \in Drainers |-> NoMarks]
  /\ faults = 0

Fault   == faults < MaxFaults /\ faults' = faults + 1
NoFault == faults' = faults

-----------------------------------------------------------------------------
(***************************************************************************)
(* The outbox table                                                        *)
(***************************************************************************)
SameKey(e, f) == f # e /\ DedupeKey[f] = DedupeKey[e] /\ DedupeKey[e] # NoKey

\* Mutant: the partial unique index is missing.
KeyTakenNoIndex(e) == FALSE

\* ux_outbox_pending_dedupe: a committed unprocessed row holds the key.
KeyTaken(e) == \E f \in Events : SameKey(e, f) /\ rowSt[f] = "pending"

\* The insert waits for the transaction that inserted or marked such a row.
KeyBusy(e) ==
  \E f \in Events : /\ SameKey(e, f)
                    /\ \/ rowSt[f] = "open"
                       \/ \E d \in Drainers : eff[d][f] # "none"

\* A claimed row stays locked until its drain transaction ends.
Locked(e) == \E d \in Drainers : e \in batch[d]

\* Mutant: DeadLetter is not followed by MarkProcessed.
ApplyMarksDeadStaysPending(marks) ==
  LET Has(e, m) == marks[e] = m /\ rowSt[e] # "swept" IN
  /\ rowSt' = [e \in Events |-> IF Has(e, "ok") THEN "processed" ELSE rowSt[e]]
  /\ retry' = [e \in Events |-> IF Has(e, "fail") THEN retry[e] + 1 ELSE retry[e]]
  /\ cooling' = [e \in Events |-> IF Has(e, "fail") THEN TRUE ELSE cooling[e]]
  /\ dead' = [e \in Events |-> IF Has(e, "dead") THEN dead[e] + 1 ELSE dead[e]]

\* MarkOutboxProcessed, MarkOutboxFailed and InsertOutboxDeadLetter as they
\* reach the table; a row the sweeper deleted matches no UPDATE.
ApplyMarks(marks) ==
  LET Has(e, m) == marks[e] = m /\ rowSt[e] # "swept" IN
  /\ rowSt' = [e \in Events |->
                 IF Has(e, "ok") \/ Has(e, "dead") THEN "processed" ELSE rowSt[e]]
  /\ retry' = [e \in Events |-> IF Has(e, "fail") THEN retry[e] + 1 ELSE retry[e]]
  /\ cooling' = [e \in Events |-> IF Has(e, "fail") THEN TRUE ELSE cooling[e]]
  /\ dead' = [e \in Events |-> IF Has(e, "dead") THEN dead[e] + 1 ELSE dead[e]]

-----------------------------------------------------------------------------
(***************************************************************************)
(* Bus.dispatch: one pass over the subscriptions of e, run by actor x (the *)
(* publishing request or a drainer).                                       *)
(***************************************************************************)
Dispatched(x, e) == disp[x].i > Len(Subs[e])

StoreTask(t, e) ==
  IF taskSt[t] = "none"
  THEN /\ taskSt' = [taskSt EXCEPT ![t] = "queued"]
       /\ taskEvt' = [taskEvt EXCEPT ![t] = e]
       /\ taskTries' = [taskTries EXCEPT ![t] = 0]
  ELSE UNCHANGED taskVars

\* Accepted, or refused with a task id conflict, which counts as success.
EnqueueOk(x, e) ==
  /\ Subs[e][disp[x].i] = "async"
  /\ StoreTask(TaskId[e][disp[x].i], e)
  /\ disp' = [disp EXCEPT ![x].i = @ + 1]
  /\ NoFault

\* Mutant: the failed enqueue is logged and forgotten.
EnqueueErrForgotten(x, e) ==
  /\ Subs[e][disp[x].i] = "async"
  /\ Fault
  /\ StoreTask(TaskId[e][disp[x].i], e) \/ UNCHANGED taskVars
  /\ disp' = [disp EXCEPT ![x].i = @ + 1]

\* Redis refused the task, or stored it and the reply was lost.
EnqueueErr(x, e) ==
  /\ Subs[e][disp[x].i] = "async"
  /\ Fault
  /\ StoreTask(TaskId[e][disp[x].i], e) \/ UNCHANGED taskVars
  /\ disp' = [disp EXCEPT ![x] = [i |-> @.i + 1, enq |-> FALSE, crit |-> @.crit]]

\* A synchronous handler; only a critical one makes dispatch return its error.
RunSync(x, e) ==
  /\ Subs[e][disp[x].i] # "async"
  /\ \/ disp' = [disp EXCEPT ![x].i = @ + 1] /\ NoFault
     \/ /\ Subs[e][disp[x].i] = "critical"
        /\ Fault
        /\ disp' = [disp EXCEPT ![x] = [i |-> @.i + 1, enq |-> @.enq, crit |-> TRUE]]
  /\ UNCHANGED taskVars

DispatchStep(x, e) ==
  /\ ~Dispatched(x, e)
  /\ EnqueueOk(x, e) \/ EnqueueErr(x, e) \/ RunSync(x, e)
  /\ UNCHANGED <<rowVars, done, pubPc, drVars>>

-----------------------------------------------------------------------------
(***************************************************************************)
(* Bus.Publish inside the service's transaction                            *)
(***************************************************************************)
\* Mutant: the insert does not use the caller's transaction.
PublishInTxOwnConnection(e) ==
  /\ e \in InTx /\ pubPc[e] = "start"
  /\ Subs[e] = <<>> \/ ~KeyBusy(e)
  /\ IF Subs[e] # <<>> /\ KeyTaken(e)
     THEN pubPc' = [pubPc EXCEPT ![e] = "err"] /\ UNCHANGED rowSt
     ELSE /\ pubPc' = [pubPc EXCEPT ![e] = "inTx"]
          /\ rowSt' = [rowSt EXCEPT ![e] = IF Subs[e] = <<>> THEN @ ELSE "pending"]
  /\ UNCHANGED <<retry, cooling, dead, taskVars, done, disp, drVars, faults>>

\* Domain write and outbox insert; a dedupe violation aborts the transaction.
PublishInTx(e) ==
  /\ e \in InTx /\ pubPc[e] = "start"
  /\ Subs[e] = <<>> \/ ~KeyBusy(e)
  /\ IF Subs[e] # <<>> /\ KeyTaken(e)
     THEN pubPc' = [pubPc EXCEPT ![e] = "err"] /\ UNCHANGED rowSt
     ELSE /\ pubPc' = [pubPc EXCEPT ![e] = "inTx"]
          /\ rowSt' = [rowSt EXCEPT ![e] = IF Subs[e] = <<>> THEN @ ELSE "open"]
  /\ UNCHANGED <<retry, cooling, dead, taskVars, done, disp, drVars, faults>>

CommitTx(e) ==
  /\ pubPc[e] = "inTx"
  /\ pubPc' = [pubPc EXCEPT ![e] = "ok"]
  /\ rowSt' = [rowSt EXCEPT ![e] = IF @ = "open" THEN "pending" ELSE @]
  /\ UNCHANGED <<retry, cooling, dead, taskVars, done, disp, drVars, faults>>

\* The service fails after Publish, or the process dies before the commit.
RollbackTx(e) ==
  /\ pubPc[e] = "inTx"
  /\ pubPc' = [pubPc EXCEPT ![e] = "err"]
  /\ rowSt' = [rowSt EXCEPT ![e] = "none"]
  /\ UNCHANGED <<retry, cooling, dead, taskVars, done, disp, drVars, faults>>

(***************************************************************************)
(* Bus.Publish with no ambient transaction                                 *)
(***************************************************************************)
\* The service's own transaction commits before it calls Publish.
CommitDomain(e) ==
  /\ e \notin InTx /\ pubPc[e] = "start"
  /\ pubPc' = [pubPc EXCEPT ![e] = "domain"]
  /\ UNCHANGED <<rowVars, taskVars, done, disp, drVars, faults>>

\* outbox.Write in its own transaction; a failure or a duplicate is logged
\* and dispatch goes on with outboxID = 0.
PublishDirect(e) ==
  /\ pubPc[e] = "domain"
  /\ pubPc' = [pubPc EXCEPT ![e] = "dispatch"]
  /\ \/ AsyncOf(e) = {} /\ UNCHANGED rowSt /\ NoFault
     \/ /\ AsyncOf(e) # {} /\ ~KeyBusy(e)
        /\ rowSt' = [rowSt EXCEPT ![e] = IF KeyTaken(e) THEN @ ELSE "pending"]
        /\ NoFault
     \/ AsyncOf(e) # {} /\ UNCHANGED rowSt /\ Fault
  /\ UNCHANGED <<retry, cooling, dead, taskVars, done, disp, drVars>>

PublishResult(e) == IF disp[e].enq /\ ~disp[e].crit THEN "ok" ELSE "err"

\* The mark after dispatch: MarkFailed when an enqueue failed, MarkProcessed
\* otherwise, even when a critical handler failed; its own error is dropped.
\* The UPDATE waits for a drainer that has locked the row.
FinishDirect(e) ==
  /\ pubPc[e] = "dispatch" /\ Dispatched(e, e)
  /\ pubPc' = [pubPc EXCEPT ![e] = PublishResult(e)]
  /\ disp' = [disp EXCEPT ![e] = DispatchStart]
  /\ \/ rowSt[e] = "none" /\ UNCHANGED rowVars /\ NoFault
     \/ /\ rowSt[e] # "none" /\ ~Locked(e) /\ NoFault
        /\ ApplyMarks([NoMarks EXCEPT ![e] = IF disp[e].enq THEN "ok" ELSE "fail"])
     \/ rowSt[e] # "none" /\ UNCHANGED rowVars /\ Fault
  /\ UNCHANGED <<taskVars, done, drVars>>

CrashDirect(e) ==
  /\ pubPc[e] \in {"domain", "dispatch"}
  /\ Fault
  /\ pubPc' = [pubPc EXCEPT ![e] = "crashed"]
  /\ disp' = [disp EXCEPT ![e] = DispatchStart]
  /\ UNCHANGED <<rowVars, taskVars, done, drVars>>

-----------------------------------------------------------------------------
(***************************************************************************)
(* Bus.drainBatch: one transaction per batch                               *)
(***************************************************************************)
\* Mutant: SKIP LOCKED without FOR UPDATE, so a claimed row is claimed again.
PendingRowsUnlocked ==
  {e \in Events : rowSt[e] = "pending" /\ retry[e] < MaxRetry /\ ~cooling[e]}

\* Mutant: the retry clauses of the WHERE are missing.
PendingRowsFresh ==
  {e \in Events : rowSt[e] = "pending" /\ retry[e] = 0 /\ ~Locked(e)}

\* WHERE clause of PendingOutboxBatch, with SKIP LOCKED.
PendingRows ==
  {e \in Events : /\ rowSt[e] = "pending" /\ retry[e] < MaxRetry
                  /\ ~cooling[e] /\ ~Locked(e)}

\* ORDER BY last_attempted_at NULLS FIRST ... LIMIT: rows never attempted
\* come before the others; the order inside each group is left open.
FirstRows(rows) ==
  {S \in SUBSET rows :
     /\ Cardinality(S) =
          IF Cardinality(rows) < BatchSize THEN Cardinality(rows) ELSE BatchSize
     /\ \A e \in S, f \in rows \ S : retry[f] = 0 => retry[e] = 0}

\* A claim that fetches nothing commits an empty transaction and is left out.
ClaimBatch(d) ==
  /\ drPc[d] = "idle" /\ PendingRows # {}
  /\ \E S \in FirstRows(PendingRows) : batch' = [batch EXCEPT ![d] = S]
  /\ drPc' = [drPc EXCEPT ![d] = "loop"]
  /\ UNCHANGED <<rowVars, taskVars, done, pubPc, disp, cur, eff, faults>>

Unmarked(d) == {e \in batch[d] : eff[d][e] = "none"}

\* Reasons for which drainBatch dead-letters a row instead of publishing it.
Undeliverable(e) ==
  retry[e] >= MaxRetry \/ e \in Unregistered \/ e \in Corrupt

DeadLetterRow(d) ==
  /\ drPc[d] = "loop"
  /\ \E e \in Unmarked(d) : /\ Undeliverable(e)
                            /\ eff' = [eff EXCEPT ![d][e] = "dead"]
  /\ UNCHANGED <<rowVars, taskVars, done, pubPc, disp, drPc, cur, batch, faults>>

\* Publish under the drain context goes straight to dispatch.
PublishRow(d) ==
  /\ drPc[d] = "loop"
  /\ \E e \in Unmarked(d) : /\ ~Undeliverable(e)
                            /\ cur' = [cur EXCEPT ![d] = e]
  /\ drPc' = [drPc EXCEPT ![d] = "dispatch"]
  /\ UNCHANGED <<rowVars, taskVars, done, pubPc, disp, batch, eff, faults>>

\* Any error of Publish marks the row failed, a critical handler's included.
MarkRow(d) ==
  /\ drPc[d] = "dispatch" /\ Dispatched(d, cur[d])
  /\ eff' = [eff EXCEPT ![d][cur[d]] =
               IF disp[d].enq /\ ~disp[d].crit THEN "ok" ELSE "fail"]
  /\ drPc' = [drPc EXCEPT ![d] = "loop"]
  /\ cur' = [cur EXCEPT ![d] = NoEvent]
  /\ disp' = [disp EXCEPT ![d] = DispatchStart]
  /\ UNCHANGED <<rowVars, taskVars, done, pubPc, batch, faults>>

EndBatch(d) ==
  /\ drPc' = [drPc EXCEPT ![d] = "idle"]
  /\ cur' = [cur EXCEPT ![d] = NoEvent]
  /\ batch' = [batch EXCEPT ![d] = {}]
  /\ eff' = [eff EXCEPT ![d] = NoMarks]
  /\ disp' = [disp EXCEPT ![d] = DispatchStart]

CommitBatch(d) ==
  /\ drPc[d] = "loop" /\ Unmarked(d) = {}
  /\ ApplyMarks(eff[d])
  /\ EndBatch(d)
  /\ UNCHANGED <<taskVars, done, pubPc, faults>>

\* A mark, a dead-letter insert or the commit fails, a panic is recovered, or
\* the process dies: PostgreSQL rolls back, Redis keeps what was enqueued.
AbortBatch(d) ==
  /\ drPc[d] # "idle"
  /\ Fault
  /\ EndBatch(d)
  /\ UNCHANGED <<rowVars, taskVars, done, pubPc>>

-----------------------------------------------------------------------------
(***************************************************************************)
(* Processor.ProcessTask and Bus.InvokeAsync: a task runs every async      *)
(* handler of its event; Asynq (external) retries, then archives it.       *)
(***************************************************************************)
Ran(e, S) == done' = done \cup ({e} \X S)

Complete(t) ==
  /\ taskSt' = [taskSt EXCEPT ![t] = "none"]
  /\ taskEvt' = [taskEvt EXCEPT ![t] = NoEvent]
  /\ taskTries' = [taskTries EXCEPT ![t] = 0]

Archive(t) ==
  /\ taskSt' = [taskSt EXCEPT ![t] = "archived"]
  /\ UNCHANGED <<taskEvt, taskTries>>

\* The payload does not decode: SkipRetry archives the task at once.  The
\* type is not registered: the task completes without running anything.
TaskSkipped(t) ==
  /\ taskSt[t] = "queued"
  /\ \/ taskEvt[t] \in Corrupt \ Unregistered /\ Archive(t)
     \/ taskEvt[t] \in Unregistered /\ Complete(t)
  /\ UNCHANGED <<rowVars, done, pubPc, disp, drVars, faults>>

Decodable(t) == taskSt[t] = "queued" /\ taskEvt[t] \notin Corrupt \cup Unregistered

\* Mutant: InvokeAsync stops at the first success and drops later errors.
TaskSucceedsOnFirst(t) ==
  /\ Decodable(t)
  /\ \E S \in SUBSET AsyncOf(taskEvt[t]) : Ran(taskEvt[t], S)
  /\ Complete(t)
  /\ UNCHANGED <<rowVars, pubPc, disp, drVars, faults>>

TaskSucceeds(t) ==
  /\ Decodable(t)
  /\ Ran(taskEvt[t], AsyncOf(taskEvt[t]))
  /\ Complete(t)
  /\ UNCHANGED <<rowVars, pubPc, disp, drVars, faults>>

\* Some handlers failed; those in S committed their writes.
TaskFails(t) ==
  /\ Decodable(t) /\ Fault
  /\ \E S \in SUBSET AsyncOf(taskEvt[t]) :
       S # AsyncOf(taskEvt[t]) /\ Ran(taskEvt[t], S)
  /\ IF taskTries[t] < TaskMaxRetry
     THEN /\ taskTries' = [taskTries EXCEPT ![t] = @ + 1]
          /\ UNCHANGED <<taskSt, taskEvt>>
     ELSE Archive(t)
  /\ UNCHANGED <<rowVars, pubPc, disp, drVars>>

\* The worker dies while handlers run; Asynq recovers the task.
TaskInterrupted(t) ==
  /\ Decodable(t) /\ Fault
  /\ \E S \in SUBSET AsyncOf(taskEvt[t]) : Ran(taskEvt[t], S)
  /\ UNCHANGED <<rowVars, taskVars, pubPc, disp, drVars>>

-----------------------------------------------------------------------------
(***************************************************************************)
(* Time and retention                                                      *)
(***************************************************************************)
BackoffElapses(e) ==
  /\ cooling[e]
  /\ cooling' = [cooling EXCEPT ![e] = FALSE]
  /\ UNCHANGED <<rowSt, retry, dead, taskVars, done, pubPc, disp, drVars, faults>>

\* DeleteProcessedOutboxBefore, once the retention period of the row is over.
Sweep(e) ==
  /\ rowSt[e] = "processed"
  /\ rowSt' = [rowSt EXCEPT ![e] = "swept"]
  /\ UNCHANGED <<retry, cooling, dead, taskVars, done, pubPc, disp, drVars, faults>>

-----------------------------------------------------------------------------
PublishStep(e) ==
  \/ PublishInTx(e) \/ CommitTx(e) \/ RollbackTx(e)
  \/ CommitDomain(e) \/ PublishDirect(e) \/ FinishDirect(e)
  \/ pubPc[e] = "dispatch" /\ DispatchStep(e, e)

DrainStep(d) ==
  \/ ClaimBatch(d) \/ DeadLetterRow(d) \/ PublishRow(d) \/ MarkRow(d)
  \/ drPc[d] = "dispatch" /\ DispatchStep(d, cur[d])
  \/ CommitBatch(d)

WorkerStep(t) == TaskSkipped(t) \/ TaskSucceeds(t) \/ TaskFails(t)

Next ==
  \/ \E e \in Events : PublishStep(e) \/ CrashDirect(e)
                       \/ BackoffElapses(e) \/ Sweep(e)
  \/ \E d \in Drainers : DrainStep(d) \/ AbortBatch(d)
  \/ \E t \in TaskIds : WorkerStep(t) \/ TaskInterrupted(t)

\* Safety: any interleaving, any fault, no progress assumed.
Spec == Init /\ [][Next]_vars

\* The drain ticker fires for ever and each replica's goroutine runs; Asynq
\* workers keep polling; back-off windows close; a running request proceeds.
Fairness ==
  /\ \A d \in Drainers : WF_vars(DrainStep(d))
  /\ \A t \in TaskIds : WF_vars(WorkerStep(t))
  /\ \A e \in Events : WF_vars(BackoffElapses(e))
  /\ \A e \in Events : WF_vars(pubPc[e] # "start" /\ PublishStep(e))

FairSpec == Spec /\ Fairness

-----------------------------------------------------------------------------
(***************************************************************************)
(* Properties                                                              *)
(***************************************************************************)
\* Every variable has its type; the tries of a task and the faults are bounded.
TypeOK ==
  /\ rowSt \in [Events -> RowStates]
  /\ retry \in [Events -> Nat]
  /\ cooling \in [Events -> BOOLEAN]
  /\ dead \in [Events -> Nat]
  /\ taskSt \in [TaskIds -> TaskStates]
  /\ taskEvt \in [TaskIds -> Events \cup {NoEvent}]
  /\ taskTries \in [TaskIds -> 0..TaskMaxRetry]
  /\ done \subseteq Events \X Nat
  /\ pubPc \in [Events -> PubStates]
  /\ disp \in [Actors -> Locals]
  /\ drPc \in [Drainers -> {"idle", "loop", "dispatch"}]
  /\ cur \in [Drainers -> Events \cup {NoEvent}]
  /\ batch \in [Drainers -> SUBSET Events]
  /\ eff \in [Drainers -> [Events -> Marks]]
  /\ faults \in 0..MaxFaults

Handled(e, i) ==
  \/ <<e, i>> \in done
  \/ taskSt[TaskId[e][i]] # "none" /\ taskEvt[TaskId[e][i]] = e

\* The async handlers of e whose task id no other event shares.  The ids are
\* built from the request id, which a client may choose: of two events under
\* one id the second is refused as a duplicate of the first.
OwnOf ==
  [e \in Events |-> {i \in AsyncOf(e) :
     \A f \in Events \ {e} : \A j \in AsyncOf(f) : TaskId[f][j] # TaskId[e][i]}]

AllHandled(e) == \A i \in OwnOf[e] : Handled(e, i)

\* The event still has an owner: a pending row, a dead letter, or for each of
\* its async handlers, with a task id of its own, a task in Redis or a
\* completed run.
Owned(e) == rowSt[e] = "pending" \/ dead[e] > 0 \/ AllHandled(e)

\* No event is dropped in silence: once Publish has returned nil (and the
\* caller's transaction, if any, has committed), or once its row has been
\* stamped processed or swept, every async handler of the event has run or
\* has its task in Redis, unless the row is still pending or dead-lettered.
\* Others that share task ids do it no harm where its own are its own.
\* Types the worker's registry lacks are excluded: ProcessTask drops those.
NoSilentLoss ==
  \A e \in Events \ Unregistered :
    pubPc[e] = "ok" \/ rowSt[e] \in {"processed", "swept"} => Owned(e)

\* DeadLetter and MarkProcessed commit together: whatever is rolled back and
\* retried, by whichever replica, a row is dead-lettered at most once and
\* never again drained.
DeadLetteredOnce ==
  \A e \in Events : /\ dead[e] <= 1
                    /\ dead[e] = 1 => rowSt[e] \in {"processed", "swept"}

\* FOR UPDATE SKIP LOCKED: a row being drained is in one replica's batch only
\* and stays unprocessed until that replica's transaction ends, whatever the
\* request that wrote it does meanwhile.
ExclusiveClaim ==
  \A d \in Drainers : \A e \in batch[d] :
    /\ rowSt[e] = "pending"
    /\ \A c \in Drainers \ {d} : e \notin batch[c]

\* At most one unprocessed row per dedupe key, uncommitted inserts included.
OneRowPerKey ==
  \A e, f \in Events :
    SameKey(e, f) => ~ (rowSt[e] \in {"open", "pending"}
                        /\ rowSt[f] \in {"open", "pending"})

\* The drain stops at outboxMaxRetry failed attempts; only the late mark of
\* the request that wrote the row can add one more.
AttemptsBounded ==
  \A e \in Events :
    /\ retry[e] <= MaxRetry + 1
    /\ retry[e] = MaxRetry + 1 => pubPc[e] = "err"

\* With fewer faults than outboxMaxRetry, a committed row is always processed
\* in the end: aborted batches, failed enqueues and crashes only delay it.
RowsProcessed == \A e \in Events : rowSt[e] = "pending" ~> rowSt[e] # "pending"

-----------------------------------------------------------------------------
(***************************************************************************)
(* The pipeline implements EventDelivery                                   *)
(***************************************************************************)
PhaseOf(e) ==
  CASE pubPc[e] \in {"start", "inTx"}             -> "none"
    [] pubPc[e] \in {"domain", "dispatch"}        -> "live"
    [] pubPc[e] = "ok"                            -> "acked"
    [] pubPc[e] = "err" /\ e \in InTx             -> "void"
    [] pubPc[e] = "err" /\ e \notin InTx          -> "failed"
    [] pubPc[e] = "crashed"                       -> "failed"

Happened(e) == PhaseOf(e) \notin {"none", "void"}

\* Set aside: the event by a dead letter, a handler by its archived task.
SetAside(e, i) ==
  \/ dead[e] > 0
  \/ taskSt[TaskId[e][i]] = "archived" /\ taskEvt[TaskId[e][i]] = e

Known == Events \ Unregistered

\* The events whose type has handlers in the worker, under ids of their own.
Delivered == {e \in Known : OwnOf[e] # {}}

Delivery == INSTANCE EventDelivery WITH
  Events   <- Delivered,
  Handlers <- [e \in Delivered |-> OwnOf[e]],
  phase    <- [e \in Delivered |-> PhaseOf(e)],
  kept     <- {e \in Delivered : Happened(e) /\ Owned(e)},
  ran      <- [e \in Delivered |-> {i \in OwnOf[e] : <<e, i>> \in done}],
  parked   <- [e \in Delivered |-> {i \in OwnOf[e] : SetAside(e, i)}]

\* Outbox, drain, queue and worker together keep the promise of
\* EventDelivery, step by step: a handler runs only for an event whose domain
\* change has committed, a rolled-back transaction leaves no task behind, and
\* whatever Publish acknowledged stays in keeping.
ImplementsDelivery == Delivery!Spec

\* End to end, under Fairness: when Publish has returned nil, every async
\* handler of the event runs to completion in the end, or its row is
\* dead-lettered or its task left in the archive for an operator.
AckedEventsHandled == Delivery!Settles

-----------------------------------------------------------------------------
(***************************************************************************)
(* What the documentation says, and the code does not keep                 *)
(***************************************************************************)
\* docs/events.md: no event is lost if the process crashes after the domain
\* change commits.
CommittedEventsSurvive ==
  \A e \in Events \ Unregistered : pubPc[e] = "crashed" => Owned(e)

=============================================================================
