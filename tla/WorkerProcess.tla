----------------------------- MODULE WorkerProcess -----------------------------
(***************************************************************************)
(* The processes that run DrainLoop's goroutine.  In the API it runs next  *)
(* to the requests that write rows and kick it (Serving has that process's *)
(* life).  In the worker, cmd/worker, main starts the Asynq servers, the   *)
(* drain and the background goroutines, waits for a signal, shuts the      *)
(* servers down one after the other and closes, last opened first, what    *)
(* they all use.  It waits for none of the goroutines.                     *)
(*                                                                         *)
(* asynq.Server is external: Shutdown takes no new task, waits 30 s for    *)
(* those that run, then gives them back to the queue and cancels their     *)
(* contexts.  pgxpool.Close waits for the connections in use.              *)
(***************************************************************************)
EXTENDS DrainLoop, Sequences

CONSTANTS
  Workers,    \* the servers, in the order main starts them
  UsesPool,   \* those whose tasks query the database
  Background  \* goroutines that query the database on a ticker

ASSUME WorkersAreNamed == UsesPool \subseteq {Workers[i] : i \in DOMAIN Workers}

VARIABLES
  process,  \* which process this is: api or worker
  main,     \* main: start, ready, shutdown, obs, redis, pool, exited
  at,       \* the worker main starts or shuts down
  server,   \* server[w]: off, running, stopping or stopped
  task,     \* task[w]: a task of the server w: none, active or abandoned
  bg        \* bg[b]: waiting or querying
lifeVars   == <<main, at, server, task, bg>>
workerVars == <<vars, process, lifeVars>>

Names == {Workers[i] : i \in DOMAIN Workers}

WorkerInit ==
  /\ Init /\ process \in {"api", "worker"} /\ main = "start" /\ at = 1
  /\ server = [w \in Names |-> "off"] /\ task = [w \in Names |-> "none"]
  /\ bg = [b \in Background |-> "waiting"]

Goto(next) == main' = next /\ UNCHANGED <<at, server, task, bg>>

-----------------------------------------------------------------------------
(***************************************************************************)
(* Starting                                                                *)
(***************************************************************************)
StartWorker ==
  /\ main = "start" /\ at <= Len(Workers)
  /\ server' = [server EXCEPT ![Workers[at]] = "running"] /\ at' = at + 1
  /\ UNCHANGED <<vars, main, task, bg>>

\* Fatal: the process ends, with the servers already started, and no deferred
\* call runs.
StartFails ==
  /\ main = "start" /\ at <= Len(Workers)
  /\ Goto("exited") /\ live' = FALSE /\ pc' = "stopped"
  /\ UNCHANGED <<rows, kick, tick, fails, resting, probes, faults>>

Ready ==
  /\ main = "start" /\ at > Len(Workers) /\ Goto("ready") /\ UNCHANGED vars

-----------------------------------------------------------------------------
(***************************************************************************)
(* While it runs                                                           *)
(***************************************************************************)
\* The API's requests write rows; this process is not told.
RowArrives ==
  /\ written < MaxRows /\ written' = written + 1 /\ ready' = ready + 1
  /\ UNCHANGED <<open, waiting, got, kick, tick, live, loop, faults, lifeVars>>

Draining == main \notin {"start", "exited"}

TaskStarts(w) ==
  /\ server[w] = "running" /\ task[w] = "none" /\ task' = [task EXCEPT ![w] = "active"]
  /\ UNCHANGED <<vars, main, at, server, bg>>

TaskEnds(w) ==
  /\ task[w] # "none" /\ task' = [task EXCEPT ![w] = "none"]
  /\ UNCHANGED <<vars, main, at, server, bg>>

\* The sweeper sweeps once at its start and the metrics wait for their ticker:
\* either way a query may begin until the context is done.
QueryBegins(b) ==
  /\ Draining /\ live /\ bg[b] = "waiting" /\ bg' = [bg EXCEPT ![b] = "querying"]
  /\ UNCHANGED <<vars, main, at, server, task>>

QueryEnds(b) ==
  /\ bg[b] = "querying" /\ bg' = [bg EXCEPT ![b] = "waiting"]
  /\ UNCHANGED <<vars, main, at, server, task>>

-----------------------------------------------------------------------------
(***************************************************************************)
(* Shutting down                                                           *)
(***************************************************************************)
\* SIGINT or SIGTERM: rootCtx is done, also for main.
Signal == Cancel /\ UNCHANGED lifeVars

BeginShutdown ==
  /\ main = "ready" /\ ~live
  /\ main' = "shutdown" /\ at' = 1 /\ UNCHANGED <<vars, server, task, bg>>

ShutdownWorker ==
  /\ main = "shutdown" /\ at <= Len(Workers) /\ server[Workers[at]] = "running"
  /\ server' = [server EXCEPT ![Workers[at]] = "stopping"]
  /\ UNCHANGED <<vars, main, at, task, bg>>

Stopped(w) == server' = [server EXCEPT ![w] = "stopped"] /\ at' = at + 1

TaskDone ==
  /\ main = "shutdown" /\ at <= Len(Workers)
  /\ LET w == Workers[at] IN
       server[w] = "stopping" /\ task[w] = "none" /\ Stopped(w)
  /\ UNCHANGED <<vars, main, task, bg>>

\* Mutant: the servers have no ShutdownTimeout.
TimeoutNever == FALSE /\ UNCHANGED <<vars, lifeVars>>

\* After ShutdownTimeout the task goes back to its queue.
Timeout ==
  /\ main = "shutdown" /\ at <= Len(Workers)
  /\ LET w == Workers[at] IN
       /\ server[w] = "stopping" /\ task[w] = "active" /\ Stopped(w)
       /\ task' = [task EXCEPT ![w] = "abandoned"]
  /\ UNCHANGED <<vars, main, bg>>

\* The deferred calls, last deferred first.
CloseDispatcher ==
  /\ main = "shutdown" /\ at > Len(Workers) /\ Goto("obs") /\ UNCHANGED vars

CloseObs == main = "obs" /\ Goto("redis") /\ UNCHANGED vars

CloseRedis == main = "redis" /\ Goto("pool") /\ UNCHANGED vars

InUse ==
  \/ pc = "batch" \/ \E b \in Background : bg[b] = "querying"
  \/ \E w \in UsesPool : task[w] = "abandoned"

\* The process ends, and with it the drain.
ClosePool ==
  /\ main = "pool" /\ ~InUse
  /\ Goto("exited") /\ pc' = "stopped"
  /\ UNCHANGED <<rows, kick, tick, live, fails, resting, probes, faults>>

-----------------------------------------------------------------------------
Main ==
  \/ StartWorker \/ StartFails \/ Ready
  \/ BeginShutdown \/ ShutdownWorker \/ TaskDone \/ Timeout
  \/ CloseDispatcher \/ CloseObs \/ CloseRedis \/ ClosePool

Others ==
  \/ RowArrives
  \/ \E w \in Names : TaskStarts(w) \/ TaskEnds(w)
  \/ \E b \in Background : QueryBegins(b) \/ QueryEnds(b)

\* The requests of the API.
Requests == (PublishInTx \/ EndTx \/ PublishFails) /\ UNCHANGED lifeVars

\* The drain, next to all of it.
Drain(step) == (process = "worker" => Draining) /\ step /\ UNCHANGED <<process, lifeVars>>

Time(step) == step /\ UNCHANGED <<process, lifeVars>>

InWorker(step) == process = "worker" /\ main # "exited" /\ step /\ UNCHANGED process

WorkerNext ==
  \/ process = "api" /\ Requests /\ UNCHANGED process
  \/ Drain(LoopStep) \/ Drain(Stop) \/ Drain(AbortBatch)
  \/ Time(Tick) \/ Time(BackoffElapses) \/ Time(CooldownElapses)
  \/ main # "exited" /\ Signal /\ UNCHANGED process
  \/ InWorker(Main) \/ InWorker(Others)

\* DrainLoop's fairness; main runs, queries end, and so do tasks whose context
\* is cancelled.  A task that is not may hang.
WorkerSpec ==
  /\ WorkerInit /\ [][WorkerNext]_workerVars
  /\ WF_workerVars(Drain(LoopStep)) /\ SF_workerVars(Drain(Stop))
  /\ WF_workerVars(Time(Tick)) /\ WF_workerVars(Time(BackoffElapses))
  /\ WF_workerVars(Time(CooldownElapses))
  /\ WF_workerVars(InWorker(Main))
  /\ \A b \in Background : WF_workerVars(InWorker(QueryEnds(b)))
  /\ \A w \in Names : WF_workerVars(InWorker(task[w] = "abandoned" /\ TaskEnds(w)))

-----------------------------------------------------------------------------
\* A signal ends the worker, although a task may hang, rows keep coming and
\* main waits for none of the goroutines that hold connections.
WorkerExits == process = "worker" /\ ~live ~> main = "exited"

\* main closes the client of Asynq under the drain, which may be in a batch: no
\* row loses an attempt to it, because the batch cannot commit any more.
ShutdownCostsNoAttempt ==
  [][(main \in {"obs", "redis", "pool"}) => (waiting' <= waiting)]_workerVars

=============================================================================
