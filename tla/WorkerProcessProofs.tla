-------------------------- MODULE WorkerProcessProofs --------------------------
(***************************************************************************)
(* Proofs about DrainLoop and WorkerProcess, for any number of rows,       *)
(* servers, background goroutines and failures, any batch size and any     *)
(* threshold of the breaker: an open breaker lets one batch through per    *)
(* wake-up, and a shutdown costs no row an attempt.  That the goroutine    *)
(* and the process make progress rests on fairness and stays with TLC.     *)
(*                                                                         *)
(* ProbeOnce is not inductive: what makes it so is that drainOnce is never *)
(* at the top of its loop with an open breaker after it has probed.  The   *)
(* action property rests on where main may be: it closes nothing before    *)
(* the context is done, and in the API main closes nothing of the worker's.*)
(***************************************************************************)
EXTENDS WorkerProcess, TLAPS

\* Back at the gate, the loop has not probed, or the breaker is closed.
Gated == pc = "gate" => probes = 0 \/ fails < Threshold

LoopInv == TypeOK /\ ProbeOnce /\ Gated

\* main goes past its wait only in the worker, and only when the context is done.
PastWait == main \in {"shutdown", "obs", "redis", "pool"} => process = "worker" /\ ~live

IInv == LoopInv /\ PastWait

-----------------------------------------------------------------------------
(***************************************************************************)
(* The loop                                                                *)
(***************************************************************************)
LEMMA ZeroFits == 0 \in 0..MaxRows /\ 0 \in 0..MaxFaults /\ 0 \in 0..BatchSize /\ 0 \in Nat
BY DrainBounds

LEMMA LoopInit == Init => LoopInv
<1> SUFFICES ASSUME Init PROVE LoopInv
  OBVIOUS
<1>1. TypeOK
  BY ZeroFits DEF Init, TypeOK
<1>2. ProbeOnce /\ Gated
  BY DEF Init, ProbeOnce, Gated
<1>3. QED BY <1>1, <1>2 DEF LoopInv

\* What recordBreaker leaves of the counter, for a batch that attempted
\* as many rows as failed, or more.
LEMMA BreakerTypes ==
  ASSUME NEW attempts \in Nat, NEW failures \in 0..attempts,
         fails \in Nat, resting \in BOOLEAN, RecordBreaker(attempts, failures)
  PROVE  fails' \in Nat /\ resting' \in BOOLEAN
<1>1. PICK f : f = CASE attempts = 0 -> fails
                     [] attempts > 0 /\ failures = attempts -> fails + 1
                     [] attempts > 0 /\ failures < attempts -> 0
  OBVIOUS
<1>2. f \in Nat
  BY <1>1
<1>3. fails' = f
  BY <1>1 DEF RecordBreaker
<1>4. resting' \in BOOLEAN
  <2>1. resting' \in {TRUE, resting}
    BY <1>1 DEF RecordBreaker
  <2>2. QED BY <2>1
<1>5. QED BY <1>2, <1>3, <1>4

LEMMA LoopStepInv ==
  ASSUME LoopInv, Next PROVE LoopInv'
<1> USE DrainBounds
<1>1. CASE PublishInTx
  BY <1>1 DEF LoopInv, TypeOK, ProbeOnce, Gated, PublishInTx, loop
<1>2. CASE EndTx
  BY <1>2 DEF LoopInv, TypeOK, ProbeOnce, Gated, EndTx, loop
<1>3. CASE PublishFails
  BY <1>3 DEF LoopInv, TypeOK, ProbeOnce, Gated, PublishFails, Fault, loop
<1>4. CASE Tick
  BY <1>4 DEF LoopInv, TypeOK, ProbeOnce, Gated, Tick, loop, rows
<1>5. CASE BackoffElapses
  BY <1>5 DEF LoopInv, TypeOK, ProbeOnce, Gated, BackoffElapses, loop
<1>6. CASE CooldownElapses
  BY <1>6 DEF LoopInv, TypeOK, ProbeOnce, Gated, CooldownElapses, rows
<1>7. CASE Cancel
  BY <1>7 DEF LoopInv, TypeOK, ProbeOnce, Gated, Cancel, loop, rows
<1>8. CASE OnTick \/ OnKick
  <2>1. /\ pc' = "gate" /\ probes' = 0 /\ UNCHANGED <<rows, live, fails, resting, faults>>
        /\ kick' \in {kick, FALSE} /\ tick' \in {tick, FALSE}
    BY <1>8 DEF OnTick, OnKick, Wake
  <2>2. ProbeOnce' /\ Gated'
    BY <2>1 DEF ProbeOnce, Gated
  <2>3. TypeOK'
    BY <2>1, ZeroFits DEF LoopInv, TypeOK, rows
  <2>4. QED BY <2>2, <2>3 DEF LoopInv
<1>9. CASE GateShut \/ Stop
  BY <1>9 DEF LoopInv, TypeOK, ProbeOnce, Gated, GateShut, Stop, rows
<1>10. CASE StartBatch
  <2>1. got' \in 0..BatchSize /\ ready' \in Nat
    BY <1>10 DEF LoopInv, TypeOK, StartBatch
  <2>2. probes' \in Nat /\ probes' <= 1
    BY <1>10 DEF LoopInv, TypeOK, ProbeOnce, Gated, StartBatch
  <2>3. QED BY <1>10, <2>1, <2>2 DEF LoopInv, TypeOK, ProbeOnce, Gated, StartBatch
<1>11. CASE CommitBatch
  <2>1. PICK bad \in 0..got : \E d \in 0..(got - bad) :
          /\ bad > 0 => faults < MaxFaults
          /\ faults' = IF bad > 0 THEN faults + 1 ELSE faults
          /\ waiting' = waiting + bad
          /\ RecordBreaker(got - d, bad)
    BY <1>11 DEF CommitBatch
  <2>7. PICK dead \in 0..(got - bad) : RecordBreaker(got - dead, bad)
    BY <2>1
  <2>2. got \in Nat /\ got - dead \in Nat /\ bad \in 0..(got - dead)
    BY DEF LoopInv, TypeOK
  <2>3. fails' \in Nat /\ resting' \in BOOLEAN
    BY <2>2, <2>7, BreakerTypes DEF LoopInv, TypeOK
  <2>4. faults' \in 0..MaxFaults /\ waiting' \in Nat
    BY <2>1, <2>2 DEF LoopInv, TypeOK
  <2>5. pc' \in {"gate", "select"} /\ (pc' = "gate" => fails' < Threshold)
    BY <1>11 DEF CommitBatch, Again
  <2>6. QED BY <1>11, <2>3, <2>4, <2>5 DEF LoopInv, TypeOK, ProbeOnce, Gated, CommitBatch
<1>12. CASE AbortBatch
  <2>1. faults' \in 0..MaxFaults
    BY <1>12 DEF AbortBatch, Fault, LoopInv, TypeOK
  <2>2. QED BY <1>12, <2>1 DEF LoopInv, TypeOK, ProbeOnce, Gated, AbortBatch
<1>13. QED BY <1>1, <1>2, <1>3, <1>4, <1>5, <1>6, <1>7, <1>8, <1>9, <1>10, <1>11, <1>12
           DEF Next, LoopStep

LEMMA LoopStutters ==
  ASSUME LoopInv, UNCHANGED vars PROVE LoopInv'
BY DEF LoopInv, TypeOK, ProbeOnce, Gated, vars, rows, loop

\* The goroutine on its own: drainOnce tries one batch at most with an open
\* breaker, and waits for the next tick or kick.
THEOREM LoopProbesOnce == Spec => []ProbeOnce
<1>1. LoopInv /\ [Next]_vars => LoopInv'
  BY LoopStepInv, LoopStutters
<1>2. LoopInv => ProbeOnce
  BY DEF LoopInv
<1>3. QED BY LoopInit, <1>1, <1>2, PTL DEF Spec

-----------------------------------------------------------------------------
(***************************************************************************)
(* The processes around it                                                 *)
(***************************************************************************)
LEMMA ProcessInit == WorkerInit => IInv
BY LoopInit DEF WorkerInit, IInv, PastWait

\* A step of a process is a step of the loop's module, or one it does not know:
\* rows of other processes, and the goroutine's end with its process.
LEMMA LoopInProcess ==
  ASSUME LoopInv, WorkerNext PROVE LoopInv'
<1>1. CASE Next
  BY <1>1, LoopStepInv
<1>2. CASE UNCHANGED vars
  BY <1>2, LoopStutters
<1>3. CASE RowArrives
  BY <1>3, DrainBounds DEF RowArrives, LoopInv, TypeOK, ProbeOnce, Gated, loop
<1>4. CASE StartFails \/ ClosePool
  BY <1>4 DEF StartFails, ClosePool, LoopInv, TypeOK, ProbeOnce, Gated, rows
<1>5. CASE process = "api" /\ Requests /\ UNCHANGED process
  <2>1. Next
    BY <1>5 DEF Requests, Next
  <2>2. QED BY <1>1, <2>1
<1>6. CASE Drain(LoopStep) \/ Drain(Stop) \/ Drain(AbortBatch)
  <2>1. Next
    BY <1>6 DEF Drain, Next
  <2>2. QED BY <1>1, <2>1
<1>7. CASE Time(Tick) \/ Time(BackoffElapses) \/ Time(CooldownElapses)
  <2>1. Next
    BY <1>7 DEF Time, Next
  <2>2. QED BY <1>1, <2>1
<1>8. CASE main # "exited" /\ Signal /\ UNCHANGED process
  <2>1. Next
    BY <1>8 DEF Signal, Next
  <2>2. QED BY <1>1, <2>1
<1>9. CASE InWorker(Main)
  <2>1. UNCHANGED vars \/ StartFails \/ ClosePool
    BY <1>9 DEF InWorker, Main, StartWorker, Ready, BeginShutdown, ShutdownWorker, TaskDone,
                Timeout, CloseDispatcher, CloseObs, CloseRedis
  <2>2. QED BY <1>2, <1>4, <2>1
<1>10. CASE InWorker(Others)
  <2>1. UNCHANGED vars \/ RowArrives
    BY <1>10 DEF InWorker, Others, TaskStarts, TaskEnds, QueryBegins, QueryEnds
  <2>2. QED BY <1>2, <1>3, <2>1
<1>11. QED BY <1>5, <1>6, <1>7, <1>8, <1>9, <1>10 DEF WorkerNext

\* main passes its wait once, in the worker, and nothing revives the context.
LEMMA WaitKept ==
  ASSUME PastWait, LoopInv, WorkerNext PROVE PastWait'
<1>1. process' = process
  BY DEF WorkerNext, Drain, Time, InWorker
<1>2. ~live => ~live'
  BY DEF WorkerNext, Requests, PublishInTx, EndTx, PublishFails, Drain, LoopStep, OnTick, OnKick,
         GateShut, StartBatch, CommitBatch, AbortBatch, Stop, Time, Tick, BackoffElapses,
         CooldownElapses, Signal, Cancel, InWorker, Main, StartWorker, StartFails, Ready,
         BeginShutdown, ShutdownWorker, TaskDone, Timeout, CloseDispatcher, CloseObs, CloseRedis,
         ClosePool, Others, RowArrives, TaskStarts, TaskEnds, QueryBegins, QueryEnds, vars
<1>3. ASSUME main' = main PROVE PastWait'
  BY <1>1, <1>2, <1>3 DEF PastWait
<1>4. CASE InWorker(Main)
  <2>1. process = "worker"
    BY <1>4 DEF InWorker
  <2>2. CASE BeginShutdown
    BY <1>1, <2>1, <2>2 DEF BeginShutdown, PastWait, vars
  <2>3. CASE CloseDispatcher \/ CloseObs \/ CloseRedis
    BY <1>1, <1>2, <2>1, <2>3 DEF CloseDispatcher, CloseObs, CloseRedis, Goto, PastWait
  <2>4. CASE StartFails \/ Ready \/ ClosePool
    BY <2>4 DEF StartFails, Ready, ClosePool, Goto, PastWait
  <2>5. CASE StartWorker \/ ShutdownWorker \/ TaskDone \/ Timeout
    BY <1>3, <2>5 DEF StartWorker, ShutdownWorker, TaskDone, Timeout
  <2>6. QED BY <1>4, <2>2, <2>3, <2>4, <2>5 DEF InWorker, Main
<1>5. CASE ~InWorker(Main)
  <2>1. main' = main
    BY <1>5 DEF WorkerNext, Requests, Drain, Time, Signal, InWorker, Others, RowArrives, TaskStarts,
                TaskEnds, QueryBegins, QueryEnds, lifeVars
  <2>2. QED BY <1>3, <2>1
<1>6. QED BY <1>4, <1>5

LEMMA ProcessStep == IInv /\ [WorkerNext]_workerVars => IInv'
<1> SUFFICES ASSUME IInv, [WorkerNext]_workerVars PROVE IInv'
  OBVIOUS
<1>1. CASE WorkerNext
  BY <1>1, LoopInProcess, WaitKept DEF IInv
<1>2. CASE UNCHANGED workerVars
  BY <1>2, LoopStutters DEF IInv, PastWait, workerVars, vars, lifeVars
<1>3. QED BY <1>1, <1>2

LEMMA Invariant == WorkerInit /\ [][WorkerNext]_workerVars => []IInv
BY ProcessInit, ProcessStep, PTL

\* The counters of the loop keep their types and bounds in both processes.
THEOREM TypeCorrect == WorkerSpec => []TypeOK
<1>1. IInv => TypeOK
  BY DEF IInv, LoopInv
<1>2. QED BY <1>1, Invariant, PTL DEF WorkerSpec

\* In the API and in the worker alike, an open breaker lets one batch through
\* per wake-up, also when rows keep coming.
THEOREM ProbesOnce == WorkerSpec => []ProbeOnce
<1>1. IInv => ProbeOnce
  BY DEF IInv, LoopInv
<1>2. QED BY <1>1, Invariant, PTL DEF WorkerSpec

\* Once main closes what it opened, no row is marked failed any more: a batch
\* that still runs cannot commit with the cancelled context.
LEMMA NoAttemptLost ==
  ASSUME IInv, WorkerNext, main \in {"obs", "redis", "pool"}
  PROVE  waiting' <= waiting
<1>1. process = "worker" /\ ~live /\ waiting \in Nat
  BY DEF IInv, PastWait, LoopInv, TypeOK
<1>2. ASSUME waiting' = waiting PROVE waiting' <= waiting
  BY <1>1, <1>2
<1>3. CASE Drain(LoopStep) \/ Drain(Stop) \/ Drain(AbortBatch)
  <2>1. waiting' = waiting
    BY <1>1, <1>3 DEF Drain, LoopStep, OnTick, OnKick, GateShut, StartBatch, CommitBatch,
                      AbortBatch, Stop, rows
  <2>2. QED BY <1>2, <2>1
<1>4. CASE Time(Tick) \/ Time(BackoffElapses) \/ Time(CooldownElapses)
  BY <1>1, <1>4 DEF Time, Tick, BackoffElapses, CooldownElapses, rows
<1>5. CASE main # "exited" /\ Signal /\ UNCHANGED process
  BY <1>1, <1>5 DEF Signal, Cancel
<1>6. CASE InWorker(Main)
  <2>1. waiting' = waiting
    BY <1>6 DEF InWorker, Main, StartWorker, StartFails, Ready, BeginShutdown, ShutdownWorker,
                TaskDone, Timeout, CloseDispatcher, CloseObs, CloseRedis, ClosePool, vars, rows
  <2>2. QED BY <1>2, <2>1
<1>7. CASE InWorker(Others)
  <2>1. waiting' = waiting
    BY <1>7 DEF InWorker, Others, RowArrives, TaskStarts, TaskEnds, QueryBegins, QueryEnds,
                vars, rows
  <2>2. QED BY <1>2, <2>1
<1>8. QED BY <1>1, <1>3, <1>4, <1>5, <1>6, <1>7 DEF WorkerNext

\* Closing the client of Asynq under a running batch costs no row an attempt.
THEOREM ShutdownIsFree == WorkerSpec => ShutdownCostsNoAttempt
<1>1. IInv /\ [WorkerNext]_workerVars =>
        [(main \in {"obs", "redis", "pool"}) => (waiting' <= waiting)]_workerVars
  BY NoAttemptLost
<1>2. QED BY <1>1, Invariant, PTL DEF WorkerSpec, ShutdownCostsNoAttempt

=============================================================================
