------------------------------ MODULE DrainLoop ------------------------------
(***************************************************************************)
(* The goroutine Bus.DrainOutbox of one process: its select over the       *)
(* context, the ticker and the kick channel, the drainOnce loop, and the   *)
(* circuit breaker.  EventOutbox assumes of this loop only that it goes on *)
(* claiming batches; this module says when it does.                        *)
(*                                                                         *)
(* Rows are counted, not named: what the loop sees of a batch is how many  *)
(* rows it fetched, how many it tried to publish and how many failed.      *)
(***************************************************************************)
EXTENDS Naturals

CONSTANTS
  MaxRows,    \* bound: rows written in one behaviour
  BatchSize,  \* drainBatchSize
  Threshold,  \* drainBreakerThreshold
  MaxFaults   \* bound: failures injected in one behaviour

ASSUME DrainBounds ==
  /\ MaxRows \in Nat /\ MaxFaults \in Nat
  /\ BatchSize \in Nat \ {0} /\ Threshold \in Nat \ {0}

VARIABLES
  written,  \* rows written so far
  open,     \* of these, in a service transaction still open
  ready,    \* committed, unprocessed and outside their back-off window
  waiting,  \* inside their back-off window
  got,      \* locked by the running batch
  kick,     \* the drainKick channel holds a token
  tick,     \* so does ticker.C
  live,     \* the context is not cancelled
  pc,       \* select, gate (top of drainOnce's loop), batch or stopped
  fails,    \* drainBreakerFailures
  resting,  \* drainBreakerOpenedAt is less than a cooldown ago
  probes,   \* history: batches begun with an open breaker since the wake-up
  faults

rows == <<written, open, ready, waiting, got>>
loop == <<pc, fails, resting, probes>>
vars == <<rows, kick, tick, live, loop, faults>>

Init ==
  /\ written = 0 /\ open = 0 /\ ready = 0 /\ waiting = 0 /\ got = 0
  /\ kick = FALSE /\ tick = FALSE /\ live = TRUE
  /\ pc = "select" /\ fails = 0 /\ resting = FALSE /\ probes = 0
  /\ faults = 0

Fault == faults < MaxFaults /\ faults' = faults + 1

-----------------------------------------------------------------------------
(***************************************************************************)
(* The requests of the process                                             *)
(***************************************************************************)
\* Publish in a transaction: the row is inserted and the drain kicked; the
\* transaction ends later.
PublishInTx ==
  /\ written < MaxRows
  /\ written' = written + 1 /\ open' = open + 1
  /\ kick' = TRUE
  /\ UNCHANGED <<ready, waiting, got, tick, live, loop, faults>>

EndTx ==
  /\ open > 0
  /\ open' = open - 1
  /\ ready' = ready + 1 \/ ready' = ready
  /\ UNCHANGED <<written, waiting, got, kick, tick, live, loop, faults>>

\* Publish outside one, when an enqueue failed: MarkFailed (its own error is
\* dropped), then the kick.
PublishFails ==
  /\ written < MaxRows /\ Fault
  /\ written' = written + 1
  /\ \/ waiting' = waiting + 1 /\ ready' = ready
     \/ ready' = ready + 1 /\ waiting' = waiting
  /\ kick' = TRUE
  /\ UNCHANGED <<open, got, tick, live, loop>>

-----------------------------------------------------------------------------
(***************************************************************************)
(* Time and shutdown                                                       *)
(***************************************************************************)
Tick == /\ ~tick /\ pc # "stopped"
        /\ tick' = TRUE
        /\ UNCHANGED <<rows, kick, live, loop, faults>>

BackoffElapses == /\ waiting > 0
                  /\ waiting' = waiting - 1 /\ ready' = ready + 1
                  /\ UNCHANGED <<written, open, got, kick, tick, live, loop, faults>>

CooldownElapses == /\ resting
                   /\ resting' = FALSE
                   /\ UNCHANGED <<rows, kick, tick, live, pc, fails, probes, faults>>

Cancel == /\ live
          /\ live' = FALSE
          /\ UNCHANGED <<rows, kick, tick, loop, faults>>

-----------------------------------------------------------------------------
(***************************************************************************)
(* DrainOutbox: the select                                                 *)
(***************************************************************************)
Wake == pc = "select" /\ pc' = "gate" /\ probes' = 0

\* Mutant: the loop reacts to kicks only.
OnTickNever == FALSE /\ Wake /\ UNCHANGED <<rows, kick, tick, live, fails, resting, faults>>

OnTick == /\ tick /\ Wake
          /\ tick' = FALSE
          /\ UNCHANGED <<rows, kick, live, fails, resting, faults>>

OnKick == /\ kick /\ Wake
          /\ kick' = FALSE
          /\ UNCHANGED <<rows, tick, live, fails, resting, faults>>

Stop == /\ ~live /\ pc = "select"
        /\ pc' = "stopped"
        /\ UNCHANGED <<rows, kick, tick, live, fails, resting, probes, faults>>

-----------------------------------------------------------------------------
(***************************************************************************)
(* drainOnce and drainBatch                                                *)
(***************************************************************************)
\* breakerAllows.
BreakerAllows == fails < Threshold \/ ~resting

GateShut == /\ pc = "gate" /\ ~BreakerAllows
            /\ pc' = "select"
            /\ UNCHANGED <<rows, kick, tick, live, fails, resting, probes, faults>>

\* Begin, and PendingBatch: at most BatchSize of the claimable rows.
StartBatch ==
  /\ pc = "gate" /\ BreakerAllows
  /\ pc' = "batch"
  /\ got' = IF ready < BatchSize THEN ready ELSE BatchSize
  /\ ready' = ready - got'
  /\ probes' = IF fails >= Threshold THEN probes + 1 ELSE probes
  /\ UNCHANGED <<written, open, waiting, kick, tick, live, fails, resting, faults>>

\* recordBreaker(attempts, failures)
RecordBreaker(attempts, failures) ==
  LET f == CASE attempts = 0        -> fails
             [] attempts > 0 /\ failures = attempts -> fails + 1
             [] attempts > 0 /\ failures < attempts -> 0
  IN  /\ fails' = f
      /\ resting' = IF f = Threshold /\ f # fails THEN TRUE ELSE resting

\* Mutant: drainBatch reports success whatever the breaker says.
AgainIgnoresBreaker(fetched) == fetched >= BatchSize /\ live

\* The condition under which drainOnce goes round once more.
Again(fetched) == fails' < Threshold /\ fetched >= BatchSize /\ live

\* Mutant: the batch runs with a context of its own (context.WithoutCancel).
CommitBatchDetached ==
  /\ pc = "batch"
  /\ \E bad \in 0..got : \E dead \in 0..(got - bad) :
       /\ bad > 0 => faults < MaxFaults
       /\ faults' = IF bad > 0 THEN faults + 1 ELSE faults
       /\ waiting' = waiting + bad
       /\ RecordBreaker(got - dead, bad)
  /\ pc' = IF Again(got) THEN "gate" ELSE "select"
  /\ got' = 0
  /\ UNCHANGED <<written, open, ready, kick, tick, live, probes>>

\* The transaction commits: bad rows were marked failed, gone ones published
\* or dead-lettered (dead of them, which are no publish attempts).
CommitBatch ==
  /\ pc = "batch" /\ live
  /\ \E bad \in 0..got : \E dead \in 0..(got - bad) :
       /\ bad > 0 => faults < MaxFaults
       /\ faults' = IF bad > 0 THEN faults + 1 ELSE faults
       /\ waiting' = waiting + bad
       /\ RecordBreaker(got - dead, bad)
  /\ pc' = IF Again(got) THEN "gate" ELSE "select"
  /\ got' = 0
  /\ UNCHANGED <<written, open, ready, kick, tick, live, probes>>

\* Mutant: drainOnce goes on after an error.
AbortBatchAgain ==
  /\ pc = "batch"
  /\ IF live THEN Fault ELSE faults' = faults
  /\ ready' = ready + got /\ got' = 0
  /\ pc' = "gate"
  /\ UNCHANGED <<written, open, waiting, kick, tick, live, fails, resting, probes>>

\* The transaction fails or a panic is recovered; with a cancelled context
\* pgx fails it.  The rollback releases the rows and drainOnce returns.
AbortBatch ==
  /\ pc = "batch"
  /\ IF live THEN Fault ELSE faults' = faults
  /\ ready' = ready + got /\ got' = 0
  /\ pc' = "select"
  /\ UNCHANGED <<written, open, waiting, kick, tick, live, fails, resting, probes>>

-----------------------------------------------------------------------------
LoopStep == OnTick \/ OnKick \/ GateShut \/ StartBatch \/ CommitBatch
            \/ (~live /\ AbortBatch)

Next == \/ PublishInTx \/ EndTx \/ PublishFails
        \/ Tick \/ BackoffElapses \/ CooldownElapses \/ Cancel
        \/ LoopStep \/ Stop \/ AbortBatch

Spec == Init /\ [][Next]_vars

\* The goroutine runs, time passes (the ticker fires, windows close), and a
\* select that finds the context done again and again takes that branch in
\* the end, because Go chooses among the ready cases at random.
Fairness == /\ WF_vars(LoopStep) /\ SF_vars(Stop)
            /\ WF_vars(Tick) /\ WF_vars(BackoffElapses) /\ WF_vars(CooldownElapses)

FairSpec == Spec /\ Fairness

-----------------------------------------------------------------------------
\* Every counter is a natural number within its bound.
TypeOK ==
  /\ written \in 0..MaxRows /\ faults \in 0..MaxFaults
  /\ open \in Nat /\ ready \in Nat /\ waiting \in Nat
  /\ got \in 0..BatchSize
  /\ kick \in BOOLEAN /\ tick \in BOOLEAN /\ live \in BOOLEAN /\ resting \in BOOLEAN
  /\ pc \in {"select", "gate", "batch", "stopped"}
  /\ fails \in Nat /\ probes \in Nat

\* drainOnce: with an open breaker a wake-up tries at most one batch, however
\* many full batches are pending and however the probe ends; the next try
\* waits for the next tick or kick.
ProbeOnce == probes <= 1

\* DrainOutbox: while the process runs, every committed row is processed in
\* the end.  Kicks do not ensure it (they are sent before the commit, or for a
\* row inside its back-off window); the ticker and the breaker's cooldown do.
RowsDrained == ready + waiting + got > 0 ~> ready + waiting + got = 0 \/ ~live

\* DrainOutbox: a cancelled context ends the goroutine, also when rows, ticks
\* and kicks keep coming.
ShutdownStops == ~live ~> pc = "stopped"

=============================================================================
