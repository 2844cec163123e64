-------------------------------- MODULE Migrate --------------------------------
(***************************************************************************)
(* The migration tool, cmd/migrate, started by several operators or        *)
(* deployments at a time.  golang-migrate is external: it holds an         *)
(* advisory lock, marks the version dirty, runs the body of a migration    *)
(* atomically and marks the version clean, until the goal is reached.  The *)
(* tool wraps it with two tables to be found, moved or created, a version  *)
(* read before and after, a row of public.migration_history and a          *)
(* forwarder of signals.                                                   *)
(***************************************************************************)
EXTENDS Integers

CONSTANTS
  Procs,      \* processes of the tool
  NoProc,
  N,          \* migrations, with versions 1..N; version 0 is none
  Args,       \* versions given to -version and -force
  Steps,      \* numbers given to -steps
  MaxFaults   \* bound: failures injected

ASSUME MigrateBounds == N \in Nat \ {0} /\ MaxFaults \in Nat
ASSUME MigrateNames ==
  NoProc \notin Procs /\ Args \subseteq 1..N /\ Steps \subseteq Nat \ {0}

Tables == {"migration_history", "schema_migrations"}
Places == {"absent", "elsewhere", "public"}

VARIABLES
  place,             \* place[t]: the schema that holds table t
  version, dirty,    \* the row of schema_migrations
  applied,           \* the migrations whose effect is in the schema
  holder,            \* holder of the advisory lock
  run,               \* run[p]: the locals of process p
  misforced,         \* history: some -force named a version the schema is not at
  faults

tableVars == <<version, dirty, applied>>
counters  == <<misforced, faults>>
vars      == <<place, tableVars, holder, run, counters>>

(***************************************************************************)
(* cur and new are the versions read before and after, row what the run    *)
(* inserted into migration_history; stop: a signal is in GracefulStop.     *)
(* History: from, the version under the lock; late, bodies run since stop; *)
(* alone, no other run overlapped; blind, a read of the version failed.    *)
(***************************************************************************)
NoRow == [status |-> "none", version |-> 0]
Exited == [pc |-> "exited", op |-> "none", dir |-> "up", arg |-> 0, steps |-> 0,
           cur |-> 0, goal |-> 0, new |-> 0, err |-> FALSE, stop |-> FALSE,
           row |-> NoRow, from |-> 0, late |-> 0, alone |-> TRUE,
           blind |-> FALSE]
PCs == {"exited", "find", "move", "create", "findv", "movev", "open", "peek", "before",
        "lock", "force", "begin", "step", "body", "clean", "unlock", "after", "record", "ended"}

\* A fresh database, or one an older tool migrated once, which kept its tables
\* in the first schema of its search path.
Init ==
  /\ \/ place = [t \in Tables |-> "absent"] /\ version = 0 /\ applied = {}
     \/ place = [t \in Tables |-> "elsewhere"] /\ version = 1 /\ applied = {1}
  /\ dirty = FALSE /\ holder = NoProc
  /\ run = [p \in Procs |-> Exited]
  /\ misforced = FALSE /\ faults = 0

Fault   == faults < MaxFaults /\ faults' = faults + 1 /\ UNCHANGED misforced
NoFault == UNCHANGED counters

At(p, pc) == run[p].pc = pc
Go(p, pc) == run' = [run EXCEPT ![p].pc = pc]

\* log.Fatal, or the end of the process.
Exit(p) == run' = [run EXCEPT ![p] = Exited]

-----------------------------------------------------------------------------
\* The command line: an operation, its direction and its argument.  The
\* direction of -version is not known yet.
Command(op, dir, arg, steps) == [op |-> op, dir |-> dir, arg |-> arg, steps |-> steps]
Commands ==
  {Command("all", d, 0, 0) : d \in {"up", "down"}}
  \cup {Command("steps", d, 0, k) : d \in {"up", "down"}, k \in Steps}
  \cup {Command(o, "up", v, 0) : o \in {"version", "force"}, v \in Args}

Start(p, cmd) ==
  /\ At(p, "exited")
  /\ LET others == {q \in Procs \ {p} : ~At(q, "exited")}
         new == [Exited EXCEPT !.pc = "find", !.op = cmd.op, !.dir = cmd.dir,
                               !.arg = cmd.arg, !.steps = cmd.steps,
                               !.alone = others = {}] IN
       run' = [q \in Procs |-> IF q = p THEN new
                               ELSE IF q \in others THEN [run[q] EXCEPT !.alone = FALSE]
                               ELSE run[q]]
  /\ NoFault /\ UNCHANGED <<place, tableVars, holder>>

\* The two queries of moveTableToPublic.
FindHistory(p) ==
  /\ At(p, "find") /\ NoFault
  /\ Go(p, IF place["migration_history"] = "elsewhere" THEN "move" ELSE "create")
  /\ UNCHANGED <<place, tableVars, holder>>

\* ALTER TABLE ... SET SCHEMA fails when another process was faster.
MoveHistory(p) ==
  /\ At(p, "move") /\ NoFault
  /\ \/ /\ place["migration_history"] = "elsewhere" /\ Go(p, "create")
        /\ place' = [place EXCEPT !["migration_history"] = "public"]
     \/ place["migration_history"] # "elsewhere" /\ Exit(p) /\ UNCHANGED place
  /\ UNCHANGED <<tableVars, holder>>

\* CREATE TABLE IF NOT EXISTS public.migration_history, with its indexes.
CreateHistoryTable(p) ==
  /\ At(p, "create")
  /\ \/ /\ NoFault /\ Go(p, "findv")
        /\ place' = [place EXCEPT !["migration_history"] = "public"]
     \/ Fault /\ Exit(p) /\ UNCHANGED place
  /\ UNCHANGED <<tableVars, holder>>

\* The two queries of moveSchemamigrationsToPublic.
FindVersionTable(p) ==
  /\ At(p, "findv") /\ NoFault
  /\ Go(p, IF place["schema_migrations"] = "elsewhere" THEN "movev" ELSE "open")
  /\ UNCHANGED <<place, tableVars, holder>>

\* Mutant: the table is left where it is.
MoveVersionTableSkipped(p) ==
  /\ At(p, "movev") /\ NoFault /\ Go(p, "open")
  /\ UNCHANGED <<place, tableVars, holder>>

MoveVersionTable(p) ==
  /\ At(p, "movev") /\ NoFault
  /\ \/ /\ place["schema_migrations"] = "elsewhere" /\ Go(p, "open")
        /\ place' = [place EXCEPT !["schema_migrations"] = "public"]
     \/ place["schema_migrations"] # "elsewhere" /\ Exit(p) /\ UNCHANGED place
  /\ UNCHANGED <<tableVars, holder>>

\* postgres.WithInstance creates public.schema_migrations, empty, when there
\* is none.  getMigrate is called once more by -version, to no effect.
OpenLibrary(p) ==
  /\ At(p, "open") /\ NoFault
  /\ place' = [place EXCEPT !["schema_migrations"] = "public"]
  /\ version' = IF place["schema_migrations"] = "public" THEN version ELSE 0
  /\ Go(p, CASE run[p].op = "version" -> "peek"
             [] run[p].op = "force"   -> "lock"
             [] OTHER                 -> "before")
  /\ UNCHANGED <<dirty, applied, holder>>

-----------------------------------------------------------------------------
(***************************************************************************)
(* The wrapper, executeMigrationWithTracking                               *)
(***************************************************************************)
\* m.Version, its error dropped: the version reads as 0.
Reading(v, blind) ==
  \/ NoFault /\ v = version /\ ~blind
  \/ Fault /\ v = 0 /\ blind

\* migrateToVersion reads the version ahead of the run, on a connection of its
\* own, and derives the direction from it: "up" when the read failed.
PeekVersion(p) ==
  /\ At(p, "peek")
  /\ \E v \in {0, version}, b \in BOOLEAN :
       /\ Reading(v, b)
       /\ run' = [run EXCEPT ![p].pc = "before", ![p].blind = @ \/ b,
                             ![p].dir = IF run[p].arg < v THEN "down" ELSE "up"]
  /\ UNCHANGED <<place, tableVars, holder>>

ReadBefore(p) ==
  /\ At(p, "before")
  /\ \E v \in {0, version}, b \in BOOLEAN :
       /\ Reading(v, b)
       /\ run' = [run EXCEPT ![p].pc = "lock", ![p].cur = v, ![p].blind = @ \/ b]
  /\ UNCHANGED <<place, tableVars, holder>>

ReadAfter(p) ==
  /\ At(p, "after")
  /\ \E v \in {0, version}, b \in BOOLEAN :
       /\ Reading(v, b)
       /\ run' = [run EXCEPT ![p].pc = "record", ![p].new = v, ![p].blind = @ \/ b]
  /\ UNCHANGED <<place, tableVars, holder>>

Moved(r) == IF r.dir = "up" THEN r.new > r.cur ELSE r.cur > r.new

\* Mutant: a rollback is recorded under the version it leads to.
RecordedVersionNew(r) == r.new

\* The version of the row: the one reached, or the one rolled back.
RecordedVersion(r) == IF r.dir = "up" THEN r.new ELSE r.cur

\* The row is written when the version moved in the run's direction, on a
\* context of its own, so that a signal does not prevent it; an INSERT that
\* fails is logged.
RecordMigration(p) ==
  /\ At(p, "record")
  /\ \/ /\ ~Moved(run[p]) /\ NoFault /\ Go(p, "ended")
     \/ /\ Moved(run[p]) /\ NoFault
        /\ run' = [run EXCEPT ![p].pc = "ended",
                              ![p].row = [status |-> IF run[p].err THEN "failed" ELSE "success",
                                          version |-> RecordedVersion(run[p])]]
     \/ /\ Moved(run[p]) /\ Fault
        /\ run' = [run EXCEPT ![p].pc = "ended", ![p].row.status = "lost"]
  /\ UNCHANGED <<place, tableVars, holder>>

\* main returns.
End(p) ==
  /\ At(p, "ended") /\ NoFault /\ Exit(p)
  /\ UNCHANGED <<place, tableVars, holder>>

\* The goroutine that forwards a signal to the library.
Forward(p) ==
  /\ run[p].pc \in {"lock", "begin", "step", "body", "clean"}
  /\ run[p].op # "force" /\ ~run[p].stop /\ NoFault
  /\ run' = [run EXCEPT ![p].stop = TRUE]
  /\ UNCHANGED <<place, tableVars, holder>>

-----------------------------------------------------------------------------
(***************************************************************************)
(* golang-migrate: Up, Down, Steps, Migrate and Force                      *)
(***************************************************************************)
Finish(p, err) ==
  run' = [run EXCEPT ![p] = [@ EXCEPT !.pc = "unlock", !.err = err, !.goal = 0,
                                      !.late = 0, !.stop = FALSE, !.steps = 0]]

\* Mutant: a run that has waited too long goes on without the lock.
LockIgnored(p) ==
  /\ At(p, "lock") /\ NoFault /\ holder' = p
  /\ Go(p, IF run[p].op = "force" THEN "force" ELSE "begin")
  /\ UNCHANGED <<place, tableVars>>

\* pg_advisory_lock, or the timeout of 15 s; -force locks as the others do.
Lock(p) ==
  /\ At(p, "lock") /\ NoFault
  /\ \/ /\ holder = NoProc /\ holder' = p
        /\ Go(p, IF run[p].op = "force" THEN "force" ELSE "begin")
     \/ /\ holder # NoProc /\ UNCHANGED holder
        /\ IF run[p].op = "force" THEN Exit(p)
           ELSE run' = [run EXCEPT ![p].pc = "after", ![p].err = TRUE, ![p].arg = 0,
                                   ![p].steps = 0, ![p].stop = FALSE, ![p].from = version]
  /\ UNCHANGED <<place, tableVars>>

LastOf(r) == IF r.dir = "up" THEN N ELSE 0
Asked(r)  == IF r.dir = "up" THEN version + r.steps ELSE version - r.steps

\* Where the run leads; steps from the last version of their direction fail.
Goals(r) ==
  CASE r.op = "version" -> {r.arg}
    [] r.op = "all"     -> {LastOf(r)}
    [] OTHER            -> {IF Asked(r) \in 0..N THEN Asked(r) ELSE LastOf(r)} \ {version}

\* A dirty version refuses the run.
BeginRun(p) ==
  /\ At(p, "begin") /\ NoFault
  /\ \/ /\ dirty \/ Goals(run[p]) = {}
        /\ run' = [run EXCEPT ![p].pc = "unlock", ![p].err = TRUE, ![p].arg = 0,
                              ![p].steps = 0, ![p].stop = FALSE, ![p].from = version]
     \/ /\ ~dirty
        /\ \E g \in Goals(run[p]) :
             run' = [run EXCEPT ![p].pc = "step", ![p].goal = g, ![p].arg = 0,
                                ![p].from = version]
  /\ UNCHANGED <<place, tableVars, holder>>

Down(r) == r.goal < r.from
Target(v, g) == IF v < g THEN v + 1 ELSE v - 1

\* Mutant: the channel is read before the first migration only.
StopsAtStart(r) == r.stop /\ version = r.from

\* GracefulStop is read before each migration.
Stops(r) == r.stop

\* Steps ends in ErrShortLimit when there were fewer migrations than asked for.
Short(r) ==
  r.op = "steps" /\ r.steps # IF Down(r) THEN r.from - r.goal ELSE r.goal - r.from

\* SetVersion(target, dirty); a stop ends the run without error, and so does
\* the goal, unless it fell short of the steps asked for.
NextMigration(p) ==
  /\ At(p, "step")
  /\ \/ /\ version = run[p].goal \/ Stops(run[p])
        /\ NoFault /\ UNCHANGED tableVars
        /\ Finish(p, Short(run[p]) /\ ~Stops(run[p]))
     \/ /\ version # run[p].goal /\ ~Stops(run[p]) /\ NoFault /\ Go(p, "body")
        /\ version' = Target(version, run[p].goal) /\ dirty' = TRUE
        /\ UNCHANGED applied
     \/ Fault /\ Finish(p, TRUE) /\ UNCHANGED tableVars
  /\ UNCHANGED <<place, holder>>

\* The body is one implicit transaction: it takes effect or it does not.
RunBody(p) ==
  /\ At(p, "body")
  /\ \/ /\ NoFault
        /\ run' = [run EXCEPT ![p].pc = "clean",
                              ![p].late = IF run[p].stop THEN @ + 1 ELSE @]
        /\ applied' = IF Down(run[p]) THEN applied \ {version + 1} ELSE applied \cup {version}
     \/ Fault /\ Finish(p, TRUE) /\ UNCHANGED applied
  /\ UNCHANGED <<place, version, dirty, holder>>

SetClean(p) ==
  /\ At(p, "clean")
  /\ \/ NoFault /\ dirty' = FALSE /\ Go(p, "step")
     \/ Fault /\ Finish(p, TRUE) /\ UNCHANGED dirty
  /\ UNCHANGED <<place, version, applied, holder>>

Unlock(p) ==
  /\ At(p, "unlock") /\ NoFault /\ holder' = NoProc
  /\ Go(p, IF run[p].op = "force" THEN "ended" ELSE "after")
  /\ UNCHANGED <<place, tableVars>>

\* Force, then the row with direction "force", which the table's CHECK refuses.
ForceVersion(p) ==
  /\ At(p, "force")
  /\ version' = run[p].arg /\ dirty' = FALSE
  /\ UNCHANGED faults
  /\ misforced' = (misforced \/ applied # 1..run[p].arg)
  /\ run' = [run EXCEPT ![p].pc = "unlock", ![p].row.status = "refused"]
  /\ UNCHANGED <<place, applied, holder>>

\* The process dies, and its connections with it.
Crash(p) ==
  /\ ~At(p, "exited") /\ ~At(p, "ended") /\ Fault /\ Exit(p)
  /\ holder' = IF holder = p THEN NoProc ELSE holder
  /\ UNCHANGED <<place, tableVars>>

\* A wrong -force is the operator's error; the model ends there.
Next ==
  /\ ~misforced
  /\ \E p \in Procs :
       \/ \E cmd \in Commands : Start(p, cmd)
       \/ FindHistory(p) \/ MoveHistory(p) \/ CreateHistoryTable(p)
       \/ FindVersionTable(p) \/ MoveVersionTable(p) \/ OpenLibrary(p)
       \/ PeekVersion(p) \/ ReadBefore(p) \/ Lock(p)
       \/ BeginRun(p) \/ NextMigration(p) \/ RunBody(p) \/ SetClean(p) \/ Unlock(p)
       \/ ForceVersion(p) \/ ReadAfter(p) \/ RecordMigration(p) \/ End(p)
       \/ Forward(p) \/ Crash(p)

Spec == Init /\ [][Next]_vars

-----------------------------------------------------------------------------
\* Every variable has its type, and only a run between Lock and Unlock holds
\* the lock.
TypeOK ==
  /\ place \in [Tables -> Places]
  /\ version \in 0..N /\ dirty \in BOOLEAN /\ applied \subseteq 1..N
  /\ holder \in Procs \cup {NoProc}
  /\ \A p \in Procs :
       /\ run[p].pc \in PCs /\ run[p].stop \in BOOLEAN
       /\ {run[p].cur, run[p].new, run[p].goal, run[p].from, run[p].arg} \subseteq 0..N
       /\ run[p].steps \in Steps \cup {0}
       /\ run[p].row.status \in {"none", "success", "failed", "lost", "refused"}
       /\ (holder = p) = (run[p].pc \in {"force", "begin", "step", "body", "clean", "unlock"})
  /\ misforced \in BOOLEAN /\ faults \in 0..MaxFaults

\* schema_migrations tells what the schema is, whatever runs, crashes, fails,
\* is interrupted or moves the table: a clean version names exactly the
\* migrations applied, a dirty one is one migration away from them at most.
\* Only -force with a wrong version breaks it.
SchemaMatchesVersion ==
  ~misforced =>
    IF dirty THEN \E k \in {version - 1, version, version + 1} : applied = 1..k
    ELSE applied = 1..version

\* The row the outcome of a run calls for: the version it reached or rolled
\* back first, and whether the library returned an error, ErrShortLimit included.
DueRow(r) ==
  IF version = r.from THEN NoRow
  ELSE [status  |-> IF r.err THEN "failed" ELSE "success",
        version |-> IF version > r.from THEN version ELSE r.from]

\* executeMigrationWithTracking: a run that moved the version has written its
\* row, whatever failed on the way, and one that moved nothing none.  A run one
\* of whose reads of the version failed may have written none for a move, or
\* one for no move; yet its row names a version it found or left, and tells
\* whether it failed.  docs/database.md promises a row of every run; not even
\* this much holds of runs that overlap, of a failed INSERT and of -force.
HistoryTruthful ==
  \A p \in Procs : LET r == run[p] IN
    At(p, "ended") /\ r.alone /\ r.op # "force" /\ r.row.status # "lost" =>
      \/ r.row = DueRow(r)
      \/ r.blind /\ r.row = NoRow
      \/ /\ r.blind /\ r.row.version \in {r.from, version}
         /\ r.row.status = IF r.err THEN "failed" ELSE "success"

\* Once the forwarder has passed the signal on, the migration in progress is
\* the last to run.
InterruptStops == \A p \in Procs : run[p].late <= 1

-----------------------------------------------------------------------------
(***************************************************************************)
(* The processes implement SchemaMigration                                 *)
(***************************************************************************)
\* The run in progress is the one under the lock that has begun.
InRun(p) == holder = p /\ run[p].pc \in {"step", "body", "clean"}

Goal == IF \E p \in Procs : InRun(p) THEN run[holder].goal ELSE -1

Schema == INSTANCE SchemaMigration WITH goal <- Goal

\* However many processes overlap, wait, fail, crash or are interrupted, they
\* migrate the schema as one run after another would: one migration at a time
\* towards a goal, none from a dirty version, none twice and none left out.
OneRunAtATime == Schema!Spec

=============================================================================
