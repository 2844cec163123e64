----------------------------- MODULE MigrateProofs -----------------------------
(***************************************************************************)
(* Proofs about Migrate, for any number of processes, migrations and       *)
(* faults: the version and the schema agree, the history tells the truth   *)
(* and a signal stops the run.                                             *)
(*                                                                         *)
(* None of the three is inductive.  What SchemaMatchesVersion needs is     *)
(* what the process under the lock believes of the tables at each of its   *)
(* program counters (Running), and that nobody opens the library before    *)
(* the version table is found (Placed): the library would start from an    *)
(* empty one.  HistoryTruthful needs what a run that overlapped no other   *)
(* has read, whether its reads succeeded (Sighted) or not (Truthful), and  *)
(* which way it goes; a read that failed may turn that round.              *)
(***************************************************************************)
EXTENDS Migrate, TLAPS

Holding == {"force", "begin", "step", "body", "clean", "unlock"}
Early   == {"exited", "find", "move", "create", "findv", "movev"}

Rows == [status : {"none", "success", "failed", "lost", "refused"}, version : 0..N]
Runs == [pc : PCs, op : {"none", "all", "steps", "version", "force"}, dir : {"up", "down"},
         arg : 0..N, steps : Steps \cup {0}, cur : 0..N, goal : 0..N, new : 0..N,
         err : BOOLEAN, stop : BOOLEAN, row : Rows, from : 0..N, late : 0..1,
         alone : BOOLEAN, blind : BOOLEAN]

-----------------------------------------------------------------------------
(***************************************************************************)
(* The inductive invariant                                                 *)
(***************************************************************************)
\* Nobody has the library open while the version table is not in public, and
\* an absent one means a schema without migrations.
Placed ==
  /\ place["schema_migrations"] = "absent" => version = 0
  /\ place["schema_migrations"] # "public" =>
       \A p \in Procs : run[p].pc \in Early \cup {"open"}
  /\ place["schema_migrations"] = "elsewhere" => \A p \in Procs : run[p].pc \in Early

\* v lies on the way of the run from where it began to its goal.
Toward(r, v) == \/ r.from <= v /\ v <= r.goal
                \/ r.goal <= v /\ v <= r.from

\* What a run under the lock knows of the version v, of its dirty mark d and
\* of the migrations a applied.
Running(r, v, d, a) ==
  /\ r.pc = "step"  => ~d /\ a = 1..v /\ Toward(r, v)
  /\ r.pc = "body"  => /\ d
                       /\ IF Down(r)
                          THEN r.goal <= v /\ v + 1 <= r.from /\ a = 1..(v + 1)
                          ELSE r.from <= v - 1 /\ v <= r.goal /\ a = 1..(v - 1)
  /\ r.pc = "clean" => d /\ a = 1..v /\ Toward(r, v)
  /\ r.pc = "force" => r.op = "force"
  /\ r.late = 1 => r.stop /\ r.pc \in {"clean", "step"}

\* A run that overlapped no other has seen every other process exited.
Alone == \A p \in Procs : run[p].alone /\ run[p].pc # "exited" =>
           \A q \in Procs \ {p} : run[q].pc = "exited"

\* What the locals say of the version v when every read of it succeeded.
Sighted(r, v) ==
  /\ r.pc \in {"before", "lock", "begin"} /\ r.op = "version" =>
       r.dir = IF r.arg < v THEN "down" ELSE "up"
  /\ r.pc \in {"lock", "begin"} => r.cur = v
  /\ r.pc \in {"step", "body", "clean"} =>
       IF r.dir = "up" THEN r.from <= r.goal ELSE r.goal <= r.from
  /\ r.pc \in {"step", "body", "clean", "unlock", "after", "record"} =>
       r.cur = r.from /\ IF r.dir = "up" THEN r.from <= v ELSE v <= r.from
  /\ r.pc = "record" => r.new = v
  /\ r.pc = "ended" /\ r.row.status # "lost" =>
       r.row = IF v = r.from THEN NoRow
               ELSE [status  |-> IF r.err THEN "failed" ELSE "success",
                     version |-> IF v > r.from THEN v ELSE r.from]

\* What the locals of such a run say of the version v, and what they say of it
\* when a read has failed: it was taken for 0, if for anything else than v.
Truthful(r, v) ==
  r.alone /\ r.op # "force" =>
    /\ r.pc # "ended" => r.row = NoRow
    /\ r.pc \in {"lock", "begin"} => r.cur \in {0, v}
    /\ r.pc \in {"step", "body", "clean", "unlock", "after", "record"} => r.cur \in {0, r.from}
    /\ r.pc = "record" => r.new \in {0, v}
    /\ r.pc = "ended" /\ r.row.status # "lost" =>
         \/ r.row = NoRow
         \/ /\ r.row.version \in {r.from, v}
            /\ r.row.status = IF r.err THEN "failed" ELSE "success"
    /\ ~r.blind => Sighted(r, v)

Locals == /\ run \in [Procs -> Runs] /\ Alone
          /\ \A p \in Procs : /\ Running(run[p], version, dirty, applied)
                              /\ Truthful(run[p], version)

IInv == TypeOK /\ Placed /\ SchemaMatchesVersion /\ Locals

-----------------------------------------------------------------------------
(***************************************************************************)
(* One process                                                             *)
(***************************************************************************)
\* What a process may do to the lock while its locals become r.
Locking(p, r) ==
  \/ holder' = holder /\ (r.pc \in Holding <=> run[p].pc \in Holding)
  \/ holder = NoProc /\ holder' = p /\ r.pc \in Holding
  \/ holder' = NoProc /\ run[p].pc \in Holding /\ r.pc \notin Holding

\* What a step of a running process p, to the locals r, has to respect.
Fits(p, r) ==
  /\ r \in Runs /\ run' = [run EXCEPT ![p] = r] /\ run[p].pc # "exited"
  /\ r.pc # "exited" /\ r.alone => run[p].alone
  /\ Running(r, version', dirty', applied') /\ Truthful(r, version')
  /\ UNCHANGED tableVars \/ run[p].pc \in Holding
  /\ Locking(p, r)

\* The variables that are not about one process.
Typed == /\ version' \in 0..N /\ dirty' \in BOOLEAN /\ applied' \subseteq 1..N
         /\ place' \in [Tables -> Places]
         /\ misforced' \in BOOLEAN /\ faults' \in 0..MaxFaults

\* Everything a running process does; Start is the other action of Next.
Acts(p) ==
  \/ FindHistory(p) \/ MoveHistory(p) \/ CreateHistoryTable(p)
  \/ FindVersionTable(p) \/ MoveVersionTable(p) \/ OpenLibrary(p)
  \/ PeekVersion(p) \/ ReadBefore(p) \/ Lock(p)
  \/ BeginRun(p) \/ NextMigration(p) \/ RunBody(p) \/ SetClean(p) \/ Unlock(p)
  \/ ForceVersion(p) \/ ReadAfter(p) \/ RecordMigration(p) \/ End(p)
  \/ Forward(p) \/ Crash(p)

LEMMA ZeroFits == 0 \in 0..N /\ 0 \in 0..1 /\ 1 \in 0..1 /\ 1 \in 0..N
BY MigrateBounds

\* The fields that neither the program counter nor the goal of a run are.
Kept(r, o) ==
  /\ r.op = o.op /\ r.dir = o.dir /\ r.cur = o.cur /\ r.new = o.new /\ r.row = o.row
  /\ r.alone = o.alone /\ r.blind = o.blind

\* An exited process believes nothing.
LEMMA ExitedFits ==
  /\ Exited \in Runs
  /\ \A v, d, a : Running(Exited, v, d, a) /\ Truthful(Exited, v)
BY MigrateBounds DEF Exited, Runs, Rows, NoRow, PCs, Running, Truthful, Sighted

\* A run on its way to the lock that has read nothing yet.
LEMMA WayFits ==
  ASSUME NEW o \in Runs, NEW v, NEW d, NEW a, o.pc \in Early \cup {"open"},
         Running(o, v, d, a), Truthful(o, v),
         NEW pc \in {"move", "create", "findv", "movev", "open", "peek", "before", "lock"},
         pc = "before" => o.op # "version", pc = "lock" => o.op = "force"
  PROVE  LET r == [o EXCEPT !.pc = pc] IN
           r \in Runs /\ Running(r, v, d, a) /\ Truthful(r, v)
BY MigrateBounds DEF Runs, PCs, Running, Truthful, Sighted, Early

\* A step in which p gets the locals r keeps what is known of all the others:
\* under the lock there is one process, and a run that overlapped no other has
\* seen them exited.
LEMMA StepKeeps ==
  ASSUME TypeOK, Locals, NEW p \in Procs, NEW r, Fits(p, r)
  PROVE  Locals'
<1>0. /\ run \in [Procs -> Runs] /\ r \in Runs /\ run' = [run EXCEPT ![p] = r]
      /\ run' \in [Procs -> Runs]
  BY DEF Locals, Fits
<1>1. ASSUME NEW q \in Procs, q # p
      PROVE  /\ Running(run[q], version', dirty', applied')
             /\ Truthful(run[q], version') /\ run'[q] = run[q]
  <2>1. PICK o \in Runs : o = run[q]
    BY <1>0
  <2>2. run'[q] = o
    BY <1>0, <1>1, <2>1
  <2>3. Running(o, version, dirty, applied) /\ Truthful(o, version)
    BY <2>1 DEF Locals
  <2>4. UNCHANGED tableVars \/ o.pc \notin Holding
    BY <1>1, <2>1 DEF Fits, TypeOK, Holding
  <2>5. Running(o, version', dirty', applied')
    BY <2>3, <2>4 DEF Running, Holding, tableVars
  <2>6. o.alone => o.pc = "exited"
    BY <1>1, <2>1 DEF Locals, Alone, Fits
  <2>7. Truthful(o, version')
    BY <2>3, <2>6 DEF Truthful, Sighted
  <2>8. QED BY <2>1, <2>2, <2>5, <2>7
<1>2. run'[p] = r
  BY <1>0
<1>3. ASSUME NEW q \in Procs
      PROVE  Running(run'[q], version', dirty', applied') /\ Truthful(run'[q], version')
  BY <1>1, <1>2 DEF Fits
<1>4. Alone'
  BY <1>0, <1>1, <1>2 DEF Alone, Locals, Fits
<1>5. QED BY <1>0, <1>3, <1>4 DEF Locals

LEMMA StepTypes ==
  ASSUME TypeOK, Locals', NEW p \in Procs, NEW r, Fits(p, r), run \in [Procs -> Runs], Typed
  PROVE  TypeOK'
<1>1. \A q \in Procs : (holder' = q) = (run'[q].pc \in Holding)
  <2>1. \A q \in Procs : run'[q] = IF q = p THEN r ELSE run[q]
    BY DEF Fits
  <2>2. \A q \in Procs : (holder = q) = (run[q].pc \in Holding)
    BY DEF TypeOK, Holding
  <2>3. QED BY <2>1, <2>2, MigrateNames DEF Fits, Locking
<1>2. holder' \in Procs \cup {NoProc}
  BY DEF Fits, Locking, TypeOK
<1>3. ASSUME NEW q \in Procs
      PROVE  /\ run'[q].pc \in PCs /\ run'[q].stop \in BOOLEAN
             /\ {run'[q].cur, run'[q].new, run'[q].goal, run'[q].from, run'[q].arg} \subseteq 0..N
             /\ run'[q].steps \in Steps \cup {0}
             /\ run'[q].row.status \in {"none", "success", "failed", "lost", "refused"}
  <2>1. PICK o \in Runs : o = run'[q]
    BY DEF Locals
  <2>2. QED BY <2>1 DEF Runs, Rows
<1>4. QED BY <1>1, <1>2, <1>3 DEF TypeOK, Typed, Holding

-----------------------------------------------------------------------------
(***************************************************************************)
(* The steps of a process                                                  *)
(***************************************************************************)
\* Finding, moving and creating the two tables.
LEMMA OpeningFits ==
  ASSUME TypeOK, Placed, Locals, NEW p \in Procs,
         \/ FindHistory(p) \/ MoveHistory(p) \/ CreateHistoryTable(p)
         \/ FindVersionTable(p) \/ MoveVersionTable(p) \/ OpenLibrary(p)
  PROVE  /\ \E r : Fits(p, r)
         /\ UNCHANGED tableVars /\ Typed
<1>0. PICK o \in Runs : o = run[p] /\ Running(o, version, dirty, applied)
                          /\ Truthful(o, version)
  BY DEF Locals
<1>1. run \in [Procs -> Runs]
  BY DEF Locals
<1>2. o.pc \in {"find", "move", "create", "findv", "movev", "open"}
  BY <1>0 DEF FindHistory, MoveHistory, CreateHistoryTable, FindVersionTable,
              MoveVersionTable, OpenLibrary, At
<1>3. UNCHANGED tableVars
  <2>1. CASE OpenLibrary(p)
    <3>1. place["schema_migrations"] # "elsewhere"
      BY <1>0, <2>1 DEF OpenLibrary, At, Placed, Early
    <3>2. version' = version
      BY <2>1, <3>1 DEF OpenLibrary, Placed, TypeOK, Tables, Places
    <3>3. QED BY <2>1, <3>2 DEF OpenLibrary, tableVars
  <2>2. QED BY <2>1 DEF FindHistory, MoveHistory, CreateHistoryTable,
                        FindVersionTable, MoveVersionTable
<1>4. Typed
  <2>1. place' \in [Tables -> Places]
    BY DEF FindHistory, MoveHistory, CreateHistoryTable, FindVersionTable,
           MoveVersionTable, OpenLibrary, TypeOK, Tables, Places
  <2>2. misforced' \in BOOLEAN /\ faults' \in 0..MaxFaults
    BY MigrateBounds
       DEF FindHistory, MoveHistory, CreateHistoryTable, FindVersionTable,
           MoveVersionTable, OpenLibrary, TypeOK, NoFault, Fault, counters
  <2>3. QED BY <1>3, <2>1, <2>2 DEF Typed, TypeOK, tableVars
<1>5. UNCHANGED holder
  BY DEF FindHistory, MoveHistory, CreateHistoryTable, FindVersionTable,
         MoveVersionTable, OpenLibrary
<1>6. CASE Exit(p)
  <2>1. Fits(p, Exited)
    BY <1>0, <1>2, <1>3, <1>5, <1>6, ExitedFits
       DEF Exit, Fits, Locking, Holding, Exited
  <2>2. QED BY <1>3, <1>4, <2>1
<1>7. ASSUME NEW pc \in {"move", "create", "findv", "movev", "open", "peek", "before", "lock"},
             pc = "before" => o.op # "version", pc = "lock" => o.op = "force",
             Go(p, pc)
      PROVE  \E r : Fits(p, r)
  <2>1. PICK r : r = [o EXCEPT !.pc = pc]
    OBVIOUS
  <2>2. r \in Runs /\ Running(r, version, dirty, applied) /\ Truthful(r, version)
    BY <1>0, <1>2, <1>7, <2>1, WayFits DEF Early
  <2>3. run' = [run EXCEPT ![p] = r]
    BY <1>0, <1>1, <1>7, <2>1 DEF Go
  <2>4. r.pc = pc /\ r.alone = o.alone
    BY <2>1 DEF Runs
  <2>5. Fits(p, r)
    BY <1>0, <1>2, <1>3, <1>5, <1>7, <2>2, <2>3, <2>4
       DEF Fits, Locking, Holding, tableVars
  <2>6. QED BY <2>5
<1>8. ASSUME OpenLibrary(p) PROVE \E r : Fits(p, r)
  <2>1. CASE o.op = "version"
    BY <1>0, <1>7, <1>8, <2>1 DEF OpenLibrary
  <2>2. CASE o.op = "force"
    BY <1>0, <1>7, <1>8, <2>2 DEF OpenLibrary
  <2>3. CASE o.op \notin {"version", "force"}
    BY <1>0, <1>7, <1>8, <2>3 DEF OpenLibrary
  <2>4. QED BY <2>1, <2>2, <2>3
<1>9. \/ Exit(p) \/ OpenLibrary(p)
      \/ \E pc \in {"move", "create", "findv", "movev", "open"} : Go(p, pc)
  BY DEF FindHistory, MoveHistory, CreateHistoryTable, FindVersionTable, MoveVersionTable
<1>10. QED BY <1>3, <1>4, <1>6, <1>7, <1>8, <1>9

\* Reading the version, recording the run, a signal and the end of a process:
\* none of it touches the tables.
LEMMA ReadingFits ==
  ASSUME TypeOK, Locals, NEW p \in Procs,
         \/ PeekVersion(p) \/ ReadBefore(p) \/ ReadAfter(p)
         \/ RecordMigration(p) \/ End(p) \/ Forward(p) \/ Crash(p)
  PROVE  /\ \E r : Fits(p, r)
         /\ UNCHANGED tableVars /\ UNCHANGED place /\ Typed
<1>0. PICK o \in Runs : o = run[p] /\ Running(o, version, dirty, applied)
                          /\ Truthful(o, version)
  BY DEF Locals
<1>1. run \in [Procs -> Runs] /\ version \in 0..N
  BY DEF Locals, TypeOK
<1>2. UNCHANGED tableVars /\ UNCHANGED place
  BY DEF PeekVersion, ReadBefore, ReadAfter, RecordMigration, End, Forward, Crash,
         tableVars
<1>3. Typed
  <2>1. NoFault \/ Fault
    BY DEF PeekVersion, ReadBefore, ReadAfter, Reading, RecordMigration, End, Forward, Crash
  <2>2. misforced' \in BOOLEAN /\ faults' \in 0..MaxFaults
    BY <2>1, MigrateBounds DEF TypeOK, NoFault, Fault, counters
  <2>3. QED BY <1>2, <2>2 DEF Typed, TypeOK, tableVars
<1>4. ASSUME NEW r \in Runs, run' = [run EXCEPT ![p] = r], o.pc # "exited",
             Running(r, version, dirty, applied), Truthful(r, version),
             r.alone = o.alone, UNCHANGED holder, r.pc \in Holding <=> o.pc \in Holding
      PROVE  Fits(p, r)
  BY <1>0, <1>2, <1>4 DEF Fits, Locking, tableVars
<1>5. CASE PeekVersion(p)
  <2>1. PICK v \in {0, version}, b \in BOOLEAN :
               /\ Reading(v, b)
               /\ run' = [run EXCEPT ![p].pc = "before", ![p].blind = @ \/ b,
                                    ![p].dir = IF run[p].arg < v THEN "down" ELSE "up"]
    BY <1>5 DEF PeekVersion
  <2>2. PICK r : r = [o EXCEPT !.pc = "before", !.blind = @ \/ b,
                               !.dir = IF o.arg < v THEN "down" ELSE "up"]
    OBVIOUS
  <2>3. b \/ v = version
    BY <2>1 DEF Reading
  <2>4. r \in Runs /\ Running(r, version, dirty, applied) /\ Truthful(r, version)
    <3>1. /\ r \in Runs /\ r.pc = "before" /\ r.op = o.op /\ r.arg = o.arg /\ r.row = o.row
          /\ r.late = o.late /\ r.stop = o.stop /\ r.alone = o.alone /\ r.blind = (o.blind \/ b)
          /\ r.dir = IF o.arg < v THEN "down" ELSE "up"
      <4>1. PICK bl \in BOOLEAN, dr \in {"up", "down"} :
              bl = (o.blind \/ b) /\ dr = IF o.arg < v THEN "down" ELSE "up"
        OBVIOUS
      <4>2. r = [o EXCEPT !.pc = "before", !.blind = bl, !.dir = dr]
        BY <2>2, <4>1
      <4>3. /\ r \in Runs /\ r.pc = "before" /\ r.op = o.op /\ r.arg = o.arg /\ r.row = o.row
            /\ r.late = o.late /\ r.stop = o.stop /\ r.alone = o.alone /\ r.blind = bl
            /\ r.dir = dr
        BY <4>2 DEF Runs, PCs
      <4>4. QED BY <4>1, <4>3
    <3>2. o.pc = "peek"
      BY <1>0, <1>5 DEF PeekVersion, At
    <3>3. Running(r, version, dirty, applied)
      BY <1>0, <3>1, <3>2 DEF Running
    <3>4. Truthful(r, version)
      BY <1>0, <2>3, <3>1, <3>2 DEF Truthful, Sighted
    <3>5. QED BY <3>1, <3>3, <3>4
  <2>5. /\ run' = [run EXCEPT ![p] = r] /\ r.alone = o.alone
        /\ o.pc = "peek" /\ r.pc = "before" /\ UNCHANGED holder
    BY <1>0, <1>1, <1>5, <2>1, <2>2 DEF PeekVersion, At, Runs
  <2>6. QED BY <1>2, <1>3, <1>4, <2>4, <2>5 DEF Holding
<1>6. CASE ReadBefore(p)
  <2>1. PICK v \in {0, version}, b \in BOOLEAN :
               /\ Reading(v, b)
               /\ run' = [run EXCEPT ![p].pc = "lock", ![p].cur = v, ![p].blind = @ \/ b]
    BY <1>6 DEF ReadBefore
  <2>2. PICK r : r = [o EXCEPT !.pc = "lock", !.cur = v, !.blind = @ \/ b]
    OBVIOUS
  <2>3. v \in 0..N /\ (b \/ v = version)
    BY <1>1, <2>1, MigrateBounds DEF Reading
  <2>4. r \in Runs /\ Running(r, version, dirty, applied) /\ Truthful(r, version)
    BY <1>0, <1>6, <2>2, <2>3, ZenonT(60) DEF ReadBefore, At, Runs, PCs, Running, Truthful, Sighted
  <2>5. /\ run' = [run EXCEPT ![p] = r] /\ r.alone = o.alone
        /\ o.pc = "before" /\ r.pc = "lock" /\ UNCHANGED holder
    BY <1>0, <1>1, <1>6, <2>1, <2>2 DEF ReadBefore, At, Runs
  <2>6. QED BY <1>2, <1>3, <1>4, <2>4, <2>5 DEF Holding
<1>7. CASE ReadAfter(p)
  <2>1. PICK v \in {0, version}, b \in BOOLEAN :
               /\ Reading(v, b)
               /\ run' = [run EXCEPT ![p].pc = "record", ![p].new = v, ![p].blind = @ \/ b]
    BY <1>7 DEF ReadAfter
  <2>2. PICK r : r = [o EXCEPT !.pc = "record", !.new = v, !.blind = @ \/ b]
    OBVIOUS
  <2>3. v \in 0..N /\ (b \/ v = version)
    BY <1>1, <2>1, MigrateBounds DEF Reading
  <2>4. r \in Runs /\ Running(r, version, dirty, applied) /\ Truthful(r, version)
    BY <1>0, <1>7, <2>2, <2>3, ZenonT(60) DEF ReadAfter, At, Runs, PCs, Running, Truthful, Sighted
  <2>5. /\ run' = [run EXCEPT ![p] = r] /\ r.alone = o.alone
        /\ o.pc = "after" /\ r.pc = "record" /\ UNCHANGED holder
    BY <1>0, <1>1, <1>7, <2>1, <2>2 DEF ReadAfter, At, Runs
  <2>6. QED BY <1>2, <1>3, <1>4, <2>4, <2>5 DEF Holding
<1>8. CASE RecordMigration(p)
  <2>1. ASSUME NEW row \in Rows, NEW r, r = [o EXCEPT !.pc = "ended", !.row = row],
               run' = [run EXCEPT ![p] = r],
               row.status = "lost" \/ row = IF ~Moved(o) THEN o.row
                 ELSE [status  |-> IF o.err THEN "failed" ELSE "success",
                       version |-> RecordedVersion(o)]
        PROVE  Fits(p, r)
    <3>1. o.pc = "record"
      BY <1>0, <1>8 DEF RecordMigration, At
    <3>2. /\ r \in Runs /\ r.alone = o.alone /\ r.pc = "ended" /\ r.row = row
          /\ r.blind = o.blind /\ r.op = o.op /\ r.from = o.from /\ r.err = o.err
          /\ r.late = o.late /\ r.stop = o.stop
      BY <1>0, <2>1, ZenonT(60) DEF Runs, PCs
    <3>3. Running(r, version, dirty, applied)
      BY <1>0, <3>1, <3>2 DEF Running, Runs
    <3>4. Truthful(r, version)
      BY <1>0, <1>1, <2>1, <3>1, <3>2
         DEF Truthful, Sighted, Moved, RecordedVersion, Runs
    <3>5. QED BY <1>4, <1>8, <2>1, <3>1, <3>2, <3>3, <3>4 DEF RecordMigration, Holding
  <2>2. CASE ~Moved(run[p]) /\ Go(p, "ended")
    <3>1. PICK r : r = [o EXCEPT !.pc = "ended", !.row = o.row]
      OBVIOUS
    <3>2. run' = [run EXCEPT ![p] = r] /\ o.row \in Rows
      BY <1>0, <1>1, <2>2, <3>1 DEF Go, Runs
    <3>3. QED BY <1>0, <1>2, <1>3, <2>1, <2>2, <3>1, <3>2
  <2>3. CASE /\ Moved(run[p])
             /\ run' = [run EXCEPT ![p].pc = "ended",
                              ![p].row = [status |-> IF run[p].err THEN "failed" ELSE "success",
                                          version |-> RecordedVersion(run[p])]]
    <3>1. PICK row : row = [status  |-> IF o.err THEN "failed" ELSE "success",
                            version |-> RecordedVersion(o)]
      OBVIOUS
    <3>2. PICK r : r = [o EXCEPT !.pc = "ended", !.row = row]
      OBVIOUS
    <3>3. run' = [run EXCEPT ![p] = r] /\ row \in Rows
      BY <1>0, <1>1, <2>3, <3>1, <3>2 DEF Runs, Rows, RecordedVersion
    <3>4. QED BY <1>0, <1>2, <1>3, <2>1, <2>3, <3>1, <3>2, <3>3
  <2>4. CASE run' = [run EXCEPT ![p].pc = "ended", ![p].row.status = "lost"]
    <3>1. PICK row : row = [o.row EXCEPT !.status = "lost"]
      OBVIOUS
    <3>2. PICK r : r = [o EXCEPT !.pc = "ended", !.row = row]
      OBVIOUS
    <3>3. /\ run' = [run EXCEPT ![p] = r] /\ row \in Rows /\ row.status = "lost"
      BY <1>0, <1>1, <2>4, <3>1, <3>2 DEF Runs, Rows
    <3>4. QED BY <1>2, <1>3, <2>1, <3>2, <3>3
  <2>5. QED BY <1>8, <2>2, <2>3, <2>4 DEF RecordMigration
<1>9. CASE End(p)
  <2>1. Fits(p, Exited)
    BY <1>0, <1>2, <1>9, ExitedFits
       DEF End, At, Exit, Fits, Locking, Holding, Exited
  <2>2. QED BY <1>2, <1>3, <2>1
<1>10. CASE Forward(p)
  <2>1. PICK r : r = [o EXCEPT !.stop = TRUE]
    OBVIOUS
  <2>2. r \in Runs /\ Running(r, version, dirty, applied) /\ Truthful(r, version)
    <3>1. /\ r \in Runs /\ r.stop /\ r.pc = o.pc /\ r.op = o.op /\ r.dir = o.dir
          /\ r.arg = o.arg /\ r.cur = o.cur /\ r.goal = o.goal /\ r.new = o.new
          /\ r.err = o.err /\ r.row = o.row /\ r.from = o.from /\ r.late = o.late
          /\ r.alone = o.alone /\ r.blind = o.blind /\ r.steps = o.steps
      BY <2>1 DEF Runs
    <3>2. Running(r, version, dirty, applied)
      BY <1>0, <3>1 DEF Running, Toward, Down
    <3>3. Truthful(r, version)
      BY <1>0, <3>1 DEF Truthful, Sighted
    <3>4. QED BY <3>1, <3>2, <3>3
  <2>3. /\ run' = [run EXCEPT ![p] = r] /\ r.alone = o.alone
        /\ o.pc # "exited" /\ r.pc = o.pc /\ UNCHANGED holder
    BY <1>0, <1>1, <1>10, <2>1 DEF Forward, Runs
  <2>4. QED BY <1>2, <1>3, <1>4, <2>2, <2>3
<1>11. CASE Crash(p)
  <2>1. run' = [run EXCEPT ![p] = Exited] /\ o.pc # "exited" /\ o = run[p]
    BY <1>0, <1>11 DEF Crash, Exit, At
  <2>2. Locking(p, Exited)
    BY <1>0, <1>11 DEF Crash, Locking, Holding, Exited, TypeOK
  <2>3. Fits(p, Exited)
    BY <2>1, <2>2, <1>2, ExitedFits DEF Fits, Exited
  <2>4. QED BY <1>2, <1>3, <2>3
<1>12. QED BY <1>5, <1>6, <1>7, <1>8, <1>9, <1>10, <1>11

\* Taking the lock, giving up on it, and giving it back.
LEMMA LockingFits ==
  ASSUME TypeOK, Locals, NEW p \in Procs, Lock(p) \/ Unlock(p)
  PROVE  /\ \E r : Fits(p, r)
         /\ UNCHANGED tableVars /\ Typed
<1>0. PICK o \in Runs : o = run[p] /\ Running(o, version, dirty, applied)
                          /\ Truthful(o, version)
  BY DEF Locals
<1>1. run \in [Procs -> Runs] /\ version \in 0..N
  BY DEF Locals, TypeOK
<1>2. UNCHANGED tableVars
  BY DEF Lock, Unlock, tableVars
<1>3. Typed
  BY <1>2 DEF Lock, Unlock, NoFault, counters, Typed, TypeOK, tableVars
<1>4. ASSUME NEW pc \in PCs, NEW r, r = [o EXCEPT !.pc = pc],
             \/ o.pc = "lock" /\ pc = "begin"
             \/ o.pc = "lock" /\ pc = "force" /\ o.op = "force"
             \/ o.pc = "unlock" /\ pc = "after"
             \/ o.pc = "unlock" /\ pc = "ended" /\ o.op = "force"
      PROVE  /\ r \in Runs /\ r.pc = pc /\ r.alone = o.alone
             /\ Running(r, version, dirty, applied) /\ Truthful(r, version)
  BY <1>0, <1>4 DEF Runs, Running, Truthful, Sighted
<1>5. CASE Lock(p) /\ holder = NoProc
  <2>1. PICK pc \in PCs : pc = IF o.op = "force" THEN "force" ELSE "begin"
    BY DEF PCs
  <2>2. PICK r : r = [o EXCEPT !.pc = pc]
    OBVIOUS
  <2>3. /\ o.pc = "lock" /\ holder' = p /\ run' = [run EXCEPT ![p] = r]
    BY <1>0, <1>1, <1>5, <2>1, <2>2 DEF Lock, At, Go
  <2>4. Fits(p, r)
    BY <1>0, <1>2, <1>4, <1>5, <2>1, <2>2, <2>3 DEF Fits, Locking, Holding, tableVars
  <2>5. QED BY <1>2, <1>3, <2>4
<1>6. CASE Lock(p) /\ holder # NoProc /\ o.op = "force"
  <2>1. o.pc = "lock" /\ UNCHANGED holder /\ run' = [run EXCEPT ![p] = Exited]
    BY <1>0, <1>6 DEF Lock, At, Exit
  <2>2. Fits(p, Exited)
    BY <1>0, <1>2, <2>1, ExitedFits DEF Fits, Locking, Holding, Exited
  <2>3. QED BY <1>2, <1>3, <2>2
<1>7. CASE Lock(p) /\ holder # NoProc /\ o.op # "force"
  <2>1. PICK r : r = [o EXCEPT !.pc = "after", !.err = TRUE, !.arg = 0, !.steps = 0,
                               !.stop = FALSE, !.from = version]
    OBVIOUS
  <2>2. o.pc = "lock" /\ UNCHANGED holder /\ run' = [run EXCEPT ![p] = r]
    BY <1>0, <1>1, <1>7, <2>1 DEF Lock, At
  <2>3. /\ r \in Runs /\ r.pc = "after" /\ r.alone = o.alone
        /\ Running(r, version, dirty, applied) /\ Truthful(r, version)
    <3>1. /\ r \in Runs /\ r.pc = "after" /\ Kept(r, o) /\ r.from = version
          /\ r.late = o.late
      BY <1>1, <2>1, ZeroFits DEF Runs, PCs, Kept
    <3>2. o.late # 1
      BY <1>0, <2>2 DEF Running
    <3>3. Running(r, version, dirty, applied)
      BY <3>1, <3>2 DEF Running
    <3>4. Truthful(r, version)
      BY <1>0, <1>1, <2>2, <3>1 DEF Truthful, Sighted, Kept
    <3>5. QED BY <3>1, <3>3, <3>4 DEF Kept
  <2>4. Fits(p, r)
    BY <1>0, <1>2, <2>2, <2>3 DEF Fits, Locking, Holding, tableVars
  <2>5. QED BY <1>2, <1>3, <2>4
<1>8. CASE Unlock(p)
  <2>1. PICK pc \in PCs : pc = IF o.op = "force" THEN "ended" ELSE "after"
    BY DEF PCs
  <2>2. PICK r : r = [o EXCEPT !.pc = pc]
    OBVIOUS
  <2>3. /\ o.pc = "unlock" /\ holder' = NoProc /\ run' = [run EXCEPT ![p] = r]
    BY <1>0, <1>1, <1>8, <2>1, <2>2 DEF Unlock, At, Go
  <2>4. Fits(p, r)
    BY <1>0, <1>2, <1>4, <2>1, <2>2, <2>3 DEF Fits, Locking, Holding, tableVars
  <2>5. QED BY <1>2, <1>3, <2>4
<1>9. QED BY <1>5, <1>6, <1>7, <1>8

\* A run that ends under the lock, wherever it is.
LEMMA FinishFits ==
  ASSUME NEW o \in Runs, NEW v \in 0..N, NEW d, NEW a, NEW err \in BOOLEAN,
         Running(o, v, d, a), Truthful(o, v), o.pc \in {"step", "body", "clean"},
         NEW r, r = [o EXCEPT !.pc = "unlock", !.err = err, !.goal = 0, !.late = 0,
                              !.stop = FALSE, !.steps = 0]
  PROVE  /\ r \in Runs /\ Running(r, v, d, a) /\ Truthful(r, v)
         /\ r.alone = o.alone /\ r.pc = "unlock"
<1>1. r \in Runs /\ r.pc = "unlock" /\ Kept(r, o) /\ r.from = o.from /\ r.late = 0
  BY ZeroFits DEF Runs, PCs, Kept
<1>2. Running(r, v, d, a)
  BY <1>1 DEF Running
<1>3. Truthful(r, v)
  BY <1>1 DEF Truthful, Sighted, Kept
<1>4. QED BY <1>1, <1>2, <1>3 DEF Kept

\* Where a run leads, it leads from the version in its direction.
LEMMA GoalsFit ==
  ASSUME version \in 0..N, NEW o \in Runs, NEW g \in Goals(o)
  PROVE  /\ g \in 0..N
         /\ o.op \notin {"version", "force"} =>
              IF o.dir = "up" THEN version <= g ELSE g <= version
         /\ o.op = "version" => g = o.arg
<1>1. CASE o.op = "version"
  BY <1>1 DEF Goals, Runs
<1>2. CASE o.op = "all"
  BY <1>2, MigrateBounds DEF Goals, LastOf, Runs
<1>3. CASE o.op \notin {"version", "all"}
  <2>1. o.steps \in Nat
    <3>1. CASE o.steps \in Steps
      BY <3>1, MigrateNames, Zenon
    <3>2. QED BY <3>1 DEF Runs
  <2>2. g = IF Asked(o) \in 0..N THEN Asked(o) ELSE LastOf(o)
    BY <1>3 DEF Goals
  <2>3. QED BY <1>3, <2>1, <2>2, MigrateBounds DEF LastOf, Asked
<1>4. QED BY <1>1, <1>2, <1>3

\* The library under the lock.
LEMMA LibraryFits ==
  ASSUME TypeOK, Locals, SchemaMatchesVersion, ~misforced, NEW p \in Procs,
         \/ BeginRun(p) \/ NextMigration(p) \/ RunBody(p) \/ SetClean(p) \/ ForceVersion(p)
  PROVE  /\ \E r : Fits(p, r)
         /\ SchemaMatchesVersion' /\ UNCHANGED place /\ Typed
<1>0. PICK o \in Runs : o = run[p] /\ Running(o, version, dirty, applied)
                          /\ Truthful(o, version)
  BY DEF Locals
<1>1. run \in [Procs -> Runs] /\ version \in 0..N /\ dirty \in BOOLEAN /\ applied \subseteq 1..N
  BY DEF Locals, TypeOK
<1>2. UNCHANGED place /\ place \in [Tables -> Places]
  BY DEF BeginRun, NextMigration, RunBody, SetClean, ForceVersion, TypeOK
<1>3. /\ misforced' \in BOOLEAN /\ faults' \in 0..MaxFaults
  <2>1. misforced \in BOOLEAN /\ faults \in 0..MaxFaults
    BY DEF TypeOK
  <2>2. CASE NoFault \/ Fault
    BY <2>1, <2>2, MigrateBounds DEF NoFault, Fault, counters
  <2>3. CASE ForceVersion(p)
    BY <2>1, <2>3 DEF ForceVersion
  <2>4. QED
    BY <2>2, <2>3 DEF BeginRun, NextMigration, RunBody, SetClean
<1>4. o.pc \in Holding /\ UNCHANGED holder
  BY <1>0 DEF BeginRun, NextMigration, RunBody, SetClean, ForceVersion, At, Holding
<1>5. ASSUME NEW r \in Runs, run' = [run EXCEPT ![p] = r], r.pc \in Holding,
             r.alone = o.alone,
             Running(r, version', dirty', applied'), Truthful(r, version'),
             version' \in 0..N, dirty' \in BOOLEAN, applied' \subseteq 1..N,
             SchemaMatchesVersion'
      PROVE  /\ \E q : Fits(p, q)
             /\ SchemaMatchesVersion' /\ UNCHANGED place /\ Typed
  <2>1. Fits(p, r)
    BY <1>0, <1>4, <1>5 DEF Fits, Locking, Holding
  <2>2. QED BY <1>2, <1>3, <1>5, <2>1 DEF Typed
<1>6. ASSUME NEW err \in BOOLEAN, Finish(p, err), UNCHANGED tableVars,
             o.pc \in {"step", "body", "clean"}, UNCHANGED misforced
      PROVE  /\ \E q : Fits(p, q)
             /\ SchemaMatchesVersion' /\ UNCHANGED place /\ Typed
  <2>1. PICK r : r = [o EXCEPT !.pc = "unlock", !.err = err, !.goal = 0, !.late = 0,
                               !.stop = FALSE, !.steps = 0]
    OBVIOUS
  <2>2. /\ r \in Runs /\ Running(r, version, dirty, applied) /\ Truthful(r, version)
        /\ r.alone = o.alone /\ r.pc = "unlock"
    <3>1. /\ version \in 0..N /\ err \in BOOLEAN /\ o.pc \in {"step", "body", "clean"}
          /\ Running(o, version, dirty, applied) /\ Truthful(o, version)
      BY <1>0, <1>1, <1>6
    <3>2. QED BY <2>1, <3>1, FinishFits, ZenonT(60)
  <2>3. run' = [run EXCEPT ![p] = r]
    BY <1>0, <1>1, <1>6, <2>1 DEF Finish
  <2>4. SchemaMatchesVersion' /\ UNCHANGED <<version, dirty, applied>>
    BY <1>6 DEF SchemaMatchesVersion, tableVars
  <2>5. QED BY <1>1, <1>5, <2>2, <2>3, <2>4 DEF Holding
<1>7. CASE BeginRun(p)
  <2>1. o.pc = "begin" /\ UNCHANGED <<version, dirty, applied, misforced>>
    BY <1>0, <1>7 DEF BeginRun, At, NoFault, counters, tableVars
  <2>2. SchemaMatchesVersion'
    BY <2>1 DEF SchemaMatchesVersion
  <2>3. CASE run' = [run EXCEPT ![p].pc = "unlock", ![p].err = TRUE, ![p].arg = 0,
                                ![p].steps = 0, ![p].stop = FALSE, ![p].from = version]
    <3>1. PICK r : r = [o EXCEPT !.pc = "unlock", !.err = TRUE, !.arg = 0,
                                 !.steps = 0, !.stop = FALSE, !.from = version]
      OBVIOUS
    <3>2. /\ r \in Runs /\ r.pc = "unlock" /\ r.alone = o.alone
          /\ Running(r, version, dirty, applied) /\ Truthful(r, version)
      <4>1. /\ r \in Runs /\ r.pc = "unlock" /\ Kept(r, o) /\ r.from = version
            /\ r.late = o.late
        BY <1>1, <3>1, ZeroFits DEF Runs, PCs, Kept
      <4>2. o.late # 1
        BY <1>0, <2>1 DEF Running
      <4>3. Running(r, version, dirty, applied)
        BY <4>1, <4>2 DEF Running
      <4>4. Truthful(r, version)
        BY <1>0, <1>1, <2>1, <4>1 DEF Truthful, Sighted, Kept
      <4>5. QED BY <4>1, <4>3, <4>4 DEF Kept
    <3>3. run' = [run EXCEPT ![p] = r]
      BY <1>0, <1>1, <2>3, <3>1
    <3>4. QED BY <1>1, <1>5, <2>1, <2>2, <3>2, <3>3 DEF Holding
  <2>4. ASSUME NEW g \in Goals(o), ~dirty,
               run' = [run EXCEPT ![p].pc = "step", ![p].goal = g, ![p].arg = 0,
                                  ![p].from = version]
        PROVE  /\ \E q : Fits(p, q)
               /\ SchemaMatchesVersion' /\ UNCHANGED place /\ Typed
    <3>1. PICK r : r = [o EXCEPT !.pc = "step", !.goal = g, !.arg = 0, !.from = version]
      OBVIOUS
    <3>2. g \in 0..N
      BY <1>1, <2>4, GoalsFit
    <3>3. /\ r \in Runs /\ r.pc = "step" /\ Kept(r, o) /\ r.goal = g
          /\ r.from = version /\ r.late = o.late /\ r.alone = o.alone
      BY <1>1, <3>1, <3>2, ZeroFits DEF Runs, PCs, Kept
    <3>4. applied = 1..version
      BY <2>4 DEF SchemaMatchesVersion
    <3>5. Running(r, version, dirty, applied)
      BY <1>0, <1>1, <2>1, <2>4, <3>2, <3>3, <3>4 DEF Running, Toward
    <3>6. o.alone /\ ~o.blind /\ o.op # "force" =>
            IF o.dir = "up" THEN version <= g ELSE g <= version
      <4>1. o.alone /\ ~o.blind /\ o.op = "version" =>
              o.dir = IF o.arg < version THEN "down" ELSE "up"
        BY <1>0, <2>1 DEF Truthful, Sighted
      <4>2. QED BY <1>1, <2>4, <4>1, GoalsFit
    <3>7. Truthful(r, version)
      BY <1>0, <1>1, <2>1, <3>3, <3>6 DEF Truthful, Sighted, Kept
    <3>8. run' = [run EXCEPT ![p] = r]
      BY <1>0, <1>1, <2>4, <3>1
    <3>9. QED BY <1>1, <1>5, <2>1, <2>2, <3>3, <3>5, <3>7, <3>8 DEF Holding
  <2>5. QED BY <1>0, <1>7, <2>3, <2>4 DEF BeginRun
<1>8. CASE NextMigration(p)
  <2>1. o.pc = "step" /\ misforced' = misforced /\ ~dirty /\ applied = 1..version
        /\ Toward(o, version)
    BY <1>0, <1>8 DEF NextMigration, At, NoFault, Fault, counters, Running
  <2>2. CASE \E err \in BOOLEAN : Finish(p, err) /\ UNCHANGED tableVars
    BY <1>6, <2>1, <2>2
  <2>3. CASE /\ version # o.goal /\ ~o.stop /\ Go(p, "body")
             /\ version' = Target(version, o.goal) /\ dirty' = TRUE /\ UNCHANGED applied
    <3>1. PICK r : r = [o EXCEPT !.pc = "body"]
      OBVIOUS
    <3>2. /\ r \in Runs /\ r.pc = "body" /\ r.alone = o.alone /\ r.goal = o.goal
          /\ r.from = o.from /\ r.op = o.op /\ r.dir = o.dir /\ r.cur = o.cur
          /\ r.row = o.row /\ r.late = o.late /\ r.stop = o.stop /\ r.blind = o.blind
      BY <3>1 DEF Runs, PCs
    <3>3. o.goal \in 0..N /\ o.from \in 0..N /\ o.late \in 0..1 /\ o.dir \in {"up", "down"}
      BY DEF Runs
    <3>4. /\ version' \in Int
          /\ IF Down(o) THEN o.goal <= version' /\ version' + 1 <= o.from /\ version = version' + 1
             ELSE o.from <= version' - 1 /\ version' <= o.goal /\ version = version' - 1
      BY <1>1, <2>1, <2>3, <3>3, MigrateBounds DEF Toward, Target, Down
    <3>5. version' \in 0..N
      <4>1. CASE Down(o)
        BY <1>1, <3>3, <3>4, <4>1, MigrateBounds
      <4>2. CASE ~Down(o)
        BY <1>1, <3>3, <3>4, <4>2, MigrateBounds
      <4>3. QED BY <4>1, <4>2
    <3>6. Running(r, version', dirty', applied')
      BY <1>0, <2>1, <2>3, <3>2, <3>3, <3>4, <3>5 DEF Running, Down
    <3>7. Truthful(r, version')
      BY <1>0, <1>1, <2>1, <3>2, <3>3, <3>4, <3>5 DEF Truthful, Sighted, Down
    <3>8. SchemaMatchesVersion'
      BY <1>1, <2>1, <2>3, <3>4, <3>5 DEF SchemaMatchesVersion
    <3>9. run' = [run EXCEPT ![p] = r]
      BY <1>0, <1>1, <2>3, <3>1 DEF Go
    <3>10. QED BY <1>1, <1>5, <2>3, <3>2, <3>5, <3>6, <3>7, <3>8, <3>9 DEF Holding
  <2>4. (Short(o) /\ ~o.stop) \in BOOLEAN
    OBVIOUS
  <2>5. QED BY <1>0, <1>8, <2>2, <2>3, <2>4 DEF NextMigration, Stops
<1>9. CASE RunBody(p)
  <2>1. /\ o.pc = "body" /\ misforced' = misforced /\ dirty /\ UNCHANGED <<version, dirty>>
        /\ IF Down(o) THEN o.goal <= version /\ version + 1 <= o.from /\ applied = 1..(version + 1)
           ELSE o.from <= version - 1 /\ version <= o.goal /\ applied = 1..(version - 1)
    BY <1>0, <1>9 DEF RunBody, At, NoFault, Fault, counters, Running
  <2>2. CASE \E err \in BOOLEAN : Finish(p, err) /\ UNCHANGED tableVars
    BY <1>6, <2>1, <2>2
  <2>3. CASE /\ run' = [run EXCEPT ![p].pc = "clean",
                                   ![p].late = IF run[p].stop THEN @ + 1 ELSE @]
             /\ applied' = IF Down(o) THEN applied \ {version + 1} ELSE applied \cup {version}
    <3>0. PICK l \in 0..1 : l = IF o.stop THEN 1 ELSE 0
      BY ZeroFits
    <3>1. PICK r : r = [o EXCEPT !.pc = "clean", !.late = l]
      OBVIOUS
    <3>2. /\ r \in Runs /\ r.pc = "clean" /\ r.alone = o.alone /\ r.goal = o.goal
          /\ r.from = o.from /\ r.op = o.op /\ r.dir = o.dir /\ r.cur = o.cur
          /\ r.row = o.row /\ r.late = l /\ r.stop = o.stop /\ r.blind = o.blind
      BY <3>1 DEF Runs, PCs
    <3>3. /\ o.goal \in 0..N /\ o.from \in 0..N /\ o.late = 0 /\ o.dir \in {"up", "down"}
      BY <1>0, <2>1 DEF Runs, Running
    <3>4. run' = [run EXCEPT ![p] = r]
      <4>1. run' = [run EXCEPT ![p].pc = "clean", ![p].late = l]
        BY <1>0, <1>1, <2>3, <3>0, <3>3
      <4>2. QED BY <1>0, <1>1, <3>1, <4>1
    <3>5. applied' = 1..version
      <4>1. CASE Down(o)
        <5>1. applied = 1..(version + 1) /\ applied' = applied \ {version + 1}
          BY <2>1, <2>3, <4>1
        <5>2. QED BY <1>1, <5>1
      <4>2. CASE ~Down(o)
        <5>1. /\ applied = 1..(version - 1) /\ applied' = applied \cup {version}
              /\ o.from <= version - 1
          BY <2>1, <2>3, <4>2
        <5>2. QED BY <1>1, <3>3, <5>1
      <4>3. QED BY <4>1, <4>2
    <3>6. applied' \subseteq 1..N
      BY <1>1, <3>5, MigrateBounds
    <3>7. Toward(o, version)
      BY <1>1, <2>1, <3>3, MigrateBounds DEF Toward, Down
    <3>8. Running(r, version', dirty', applied')
      BY <2>1, <3>0, <3>2, <3>5, <3>7 DEF Running, Toward
    <3>9. Truthful(r, version')
      BY <1>0, <1>1, <2>1, <3>2 DEF Truthful, Sighted
    <3>10. SchemaMatchesVersion'
      BY <1>1, <2>1, <3>5 DEF SchemaMatchesVersion
    <3>11. QED BY <1>1, <1>5, <2>1, <3>2, <3>4, <3>6, <3>8, <3>9, <3>10 DEF Holding
  <2>4. QED BY <1>0, <1>9, <2>1, <2>2, <2>3 DEF RunBody, tableVars
<1>10. CASE SetClean(p)
  <2>1. /\ o.pc = "clean" /\ UNCHANGED <<version, applied, misforced>>
        /\ dirty /\ applied = 1..version /\ Toward(o, version)
    BY <1>0, <1>10 DEF SetClean, At, NoFault, Fault, counters, Running
  <2>2. CASE \E err \in BOOLEAN : Finish(p, err) /\ UNCHANGED tableVars
    BY <1>6, <2>1, <2>2
  <2>3. CASE dirty' = FALSE /\ Go(p, "step")
    <3>1. PICK r : r = [o EXCEPT !.pc = "step"]
      OBVIOUS
    <3>2. /\ r \in Runs /\ r.pc = "step" /\ r.alone = o.alone /\ r.goal = o.goal
          /\ r.from = o.from /\ r.op = o.op /\ r.dir = o.dir /\ r.cur = o.cur
          /\ r.row = o.row /\ r.late = o.late /\ r.stop = o.stop /\ r.blind = o.blind
      BY <3>1 DEF Runs, PCs
    <3>3. Running(r, version', dirty', applied')
      BY <1>0, <2>1, <2>3, <3>2 DEF Running, Toward
    <3>4. Truthful(r, version')
      BY <1>0, <2>1, <3>2 DEF Truthful, Sighted
    <3>5. SchemaMatchesVersion'
      BY <2>1, <2>3 DEF SchemaMatchesVersion
    <3>6. run' = [run EXCEPT ![p] = r]
      BY <1>0, <1>1, <2>3, <3>1 DEF Go
    <3>7. QED BY <1>1, <1>5, <2>1, <2>3, <3>2, <3>3, <3>4, <3>5, <3>6 DEF Holding
  <2>4. QED BY <1>0, <1>10, <2>1, <2>2, <2>3 DEF SetClean, tableVars
<1>11. CASE ForceVersion(p)
  <2>1. o.pc = "force" /\ o.op = "force" /\ o.arg \in 0..N
    BY <1>0, <1>11 DEF ForceVersion, At, Running, Runs
  <2>2. /\ version' = o.arg /\ dirty' = FALSE /\ applied' = applied
        /\ misforced' = (misforced \/ applied # 1..o.arg)
        /\ run' = [run EXCEPT ![p].pc = "unlock", ![p].row.status = "refused"]
    BY <1>0, <1>11 DEF ForceVersion
  <2>3. PICK r : r = [o EXCEPT !.pc = "unlock", !.row.status = "refused"]
    OBVIOUS
  <2>4. /\ r \in Runs /\ r.pc = "unlock" /\ r.alone = o.alone /\ r.op = "force"
        /\ r.late = o.late /\ r.stop = o.stop
    BY <2>1, <2>3 DEF Runs, Rows, PCs
  <2>5. Running(r, version', dirty', applied') /\ Truthful(r, version')
    BY <1>0, <2>1, <2>4 DEF Running, Truthful, Sighted
  <2>6. SchemaMatchesVersion'
    BY <2>2 DEF SchemaMatchesVersion
  <2>7. run' = [run EXCEPT ![p] = r]
    BY <1>0, <1>1, <2>2, <2>3
  <2>8. QED BY <1>1, <1>5, <2>1, <2>2, <2>4, <2>5, <2>6, <2>7 DEF Holding
<1>12. QED BY <1>7, <1>8, <1>9, <1>10, <1>11

-----------------------------------------------------------------------------
(***************************************************************************)
(* The invariant                                                           *)
(***************************************************************************)
\* Somebody types a command.
LEMMA StartKeeps ==
  ASSUME IInv, NEW p \in Procs, NEW cmd \in Commands, Start(p, cmd)
  PROVE  IInv'
<1>0. /\ run \in [Procs -> Runs] /\ UNCHANGED <<place, tableVars, holder, counters>>
      /\ run[p].pc = "exited"
  BY DEF IInv, Locals, Start, NoFault, At
<1>1. cmd.op \in {"all", "steps", "version", "force"} /\ cmd.dir \in {"up", "down"}
      /\ cmd.arg \in 0..N /\ cmd.steps \in Steps \cup {0}
  BY MigrateBounds, MigrateNames DEF Commands, Command
<1>2. PICK al \in BOOLEAN : al = ({q \in Procs \ {p} : ~At(q, "exited")} = {})
  OBVIOUS
<1>3. PICK new : new = [Exited EXCEPT !.pc = "find", !.op = cmd.op, !.dir = cmd.dir,
                                      !.arg = cmd.arg, !.steps = cmd.steps, !.alone = al]
  OBVIOUS
<1>4. /\ new \in Runs /\ new.pc = "find" /\ new.alone = al
      /\ Running(new, version, dirty, applied) /\ Truthful(new, version)
  <2>1. /\ new \in Runs /\ new.pc = "find" /\ new.alone = al /\ new.row = NoRow
        /\ new.late = 0
    BY <1>1, <1>3, ZeroFits DEF Exited, Runs, Rows, NoRow, PCs
  <2>2. QED BY <2>1 DEF Running, Truthful, Sighted
<1>5. run' = [q \in Procs |-> IF q = p THEN new
                              ELSE IF run[q].pc # "exited" THEN [run[q] EXCEPT !.alone = FALSE]
                              ELSE run[q]]
  BY <1>0, <1>2, <1>3 DEF Start, At
<1>6. ASSUME NEW q \in Procs, q # p
      PROVE  /\ run'[q] \in Runs /\ run'[q].pc = run[q].pc
             /\ run'[q].alone => run[q].pc = "exited"
             /\ Running(run'[q], version, dirty, applied) /\ Truthful(run'[q], version)
  <2>1. PICK o \in Runs : /\ o = run[q] /\ Running(o, version, dirty, applied)
                          /\ Truthful(o, version)
    BY <1>0 DEF IInv, Locals
  <2>2. CASE o.pc = "exited"
    BY <1>5, <1>6, <2>1, <2>2
  <2>3. CASE o.pc # "exited"
    <3>1. PICK r : r = [o EXCEPT !.alone = FALSE]
      OBVIOUS
    <3>2. r \in Runs /\ r.pc = o.pc /\ ~r.alone
      BY <3>1 DEF Runs
    <3>3. /\ r.goal = o.goal /\ r.from = o.from /\ r.op = o.op /\ r.late = o.late
          /\ r.stop = o.stop
      BY <3>1 DEF Runs
    <3>4. Running(r, version, dirty, applied) /\ Truthful(r, version)
      BY <2>1, <3>2, <3>3 DEF Running, Toward, Down, Truthful, Sighted
    <3>5. run'[q] = r
      BY <1>5, <1>6, <2>1, <2>3, <3>1
    <3>6. QED BY <2>1, <3>2, <3>4, <3>5
  <2>4. QED BY <2>2, <2>3
<1>7. run'[p] = new
  BY <1>5
<1>8. run' \in [Procs -> Runs]
  BY <1>4, <1>5, <1>6, <1>7
<1>9. Alone'
  BY <1>2, <1>4, <1>6, <1>7 DEF Alone, At
<1>10. Locals'
  BY <1>0, <1>4, <1>6, <1>7, <1>8, <1>9 DEF Locals, tableVars
<1>11. TypeOK'
  <2>1. ASSUME NEW q \in Procs
        PROVE  /\ run'[q].pc \in PCs /\ run'[q].stop \in BOOLEAN
               /\ {run'[q].cur, run'[q].new, run'[q].goal, run'[q].from, run'[q].arg} \subseteq 0..N
               /\ run'[q].steps \in Steps \cup {0}
               /\ run'[q].row.status \in {"none", "success", "failed", "lost", "refused"}
    <3>1. PICK o \in Runs : o = run'[q]
      BY <1>8
    <3>2. QED BY <3>1 DEF Runs, Rows
  <2>2. ASSUME NEW q \in Procs PROVE (holder' = q) = (run'[q].pc \in Holding)
    BY <1>0, <1>4, <1>6, <1>7 DEF IInv, TypeOK, Holding
  <2>3. QED BY <1>0, <2>1, <2>2 DEF IInv, TypeOK, tableVars, counters, Holding
<1>12. Placed'
  BY <1>0, <1>4, <1>6, <1>7 DEF IInv, Placed, tableVars, Early
<1>13. SchemaMatchesVersion'
  BY <1>0 DEF IInv, SchemaMatchesVersion, tableVars, counters
<1>14. QED BY <1>10, <1>11, <1>12, <1>13 DEF IInv

\* The version table, once in public, stays there, and until then nobody goes
\* past the point where it is found.
LEMMA ActsPlaced ==
  ASSUME TypeOK, Placed, run \in [Procs -> Runs], NEW p \in Procs, Acts(p),
         NEW r, Fits(p, r), UNCHANGED tableVars \/ place["schema_migrations"] = "public"
  PROVE  Placed'
<1>1. CASE place["schema_migrations"] = "public"
  BY <1>1
     DEF Acts, Placed, TypeOK, Tables, FindHistory, MoveHistory, CreateHistoryTable,
         FindVersionTable, MoveVersionTable, OpenLibrary, PeekVersion, ReadBefore,
         ReadAfter, RecordMigration, End, Forward, Crash, Lock, Unlock, BeginRun,
         NextMigration, RunBody, SetClean, ForceVersion
<1>2. CASE place["schema_migrations"] # "public"
  <2>1. run[p].pc \in Early \cup {"open"} /\ run[p].pc # "exited"
        /\ (place["schema_migrations"] = "elsewhere" => run[p].pc # "open")
    BY <1>2 DEF Placed, Fits, Early
  <2>2. UNCHANGED version
    BY <1>2 DEF tableVars
  <2>3. \A q \in Procs : run'[q] = IF q = p THEN r ELSE run[q]
    BY DEF Fits
  <2>4. CASE MoveVersionTable(p) \/ OpenLibrary(p)
    <3>1. place'["schema_migrations"] = "public" \/ (Exit(p) /\ UNCHANGED place)
      BY <2>4 DEF MoveVersionTable, OpenLibrary, TypeOK, Tables
    <3>2. Exit(p) => r.pc = "exited"
      BY <2>3 DEF Exit, Exited
    <3>3. QED BY <1>2, <2>2, <2>3, <3>1, <3>2 DEF Placed, Early
  <2>5. ASSUME ~MoveVersionTable(p), ~OpenLibrary(p)
        PROVE  /\ UNCHANGED place \/ place' = [place EXCEPT !["migration_history"] = "public"]
               /\ r.pc \in Early \cup {"open"}
               /\ place["schema_migrations"] = "elsewhere" => r.pc # "open"
    <3>1. \/ FindHistory(p) \/ MoveHistory(p) \/ CreateHistoryTable(p)
          \/ FindVersionTable(p) \/ Crash(p)
      BY <2>1, <2>5
         DEF Acts, At, Early, PeekVersion, ReadBefore, ReadAfter, RecordMigration,
             End, Forward, Lock, Unlock, BeginRun, NextMigration, RunBody, SetClean,
             ForceVersion
    <3>2. /\ UNCHANGED place \/ place' = [place EXCEPT !["migration_history"] = "public"]
          /\ \/ Exit(p) \/ \E pc \in {"move", "create", "findv", "movev"} : Go(p, pc)
             \/ Go(p, "open") /\ place["schema_migrations"] # "elsewhere"
      BY <3>1
         DEF FindHistory, MoveHistory, CreateHistoryTable, FindVersionTable, Crash
    <3>3. \A pc : Go(p, pc) => r.pc = pc
      BY <2>3 DEF Go, Runs
    <3>4. Exit(p) => r.pc = "exited"
      BY <2>3 DEF Exit, Exited
    <3>5. QED BY <3>2, <3>3, <3>4 DEF Early
  <2>6. CASE ~MoveVersionTable(p) /\ ~OpenLibrary(p)
    <3>1. place'["schema_migrations"] = place["schema_migrations"]
      BY <2>5, <2>6 DEF TypeOK, Tables
    <3>2. QED BY <2>2, <2>3, <2>5, <2>6, <3>1 DEF Placed, Early
  <2>7. QED BY <2>4, <2>6
<1>3. QED BY <1>1, <1>2

\* Whatever a running process does, it does as Fits says.
LEMMA ActsFit ==
  ASSUME IInv, NEW p \in Procs, Acts(p), ~misforced
  PROVE  /\ \E r : Fits(p, r)
         /\ SchemaMatchesVersion' /\ Typed
         /\ UNCHANGED tableVars \/ place["schema_migrations"] = "public"
<1>1. CASE \/ FindHistory(p) \/ MoveHistory(p) \/ CreateHistoryTable(p)
           \/ FindVersionTable(p) \/ MoveVersionTable(p) \/ OpenLibrary(p)
  <2>1. UNCHANGED misforced
    BY <1>1
       DEF FindHistory, MoveHistory, CreateHistoryTable, FindVersionTable,
           MoveVersionTable, OpenLibrary, NoFault, Fault, counters
  <2>2. QED BY <1>1, <2>1, OpeningFits DEF IInv, SchemaMatchesVersion, tableVars
<1>2. CASE \/ PeekVersion(p) \/ ReadBefore(p) \/ ReadAfter(p)
           \/ RecordMigration(p) \/ End(p) \/ Forward(p) \/ Crash(p)
  <2>1. UNCHANGED misforced
    BY <1>2
       DEF PeekVersion, ReadBefore, ReadAfter, Reading, RecordMigration, End,
           Forward, Crash, NoFault, Fault, counters
  <2>2. QED BY <1>2, <2>1, ReadingFits DEF IInv, SchemaMatchesVersion, tableVars
<1>3. CASE Lock(p) \/ Unlock(p)
  <2>1. UNCHANGED misforced
    BY <1>3 DEF Lock, Unlock, NoFault, counters
  <2>2. QED BY <1>3, <2>1, LockingFits DEF IInv, SchemaMatchesVersion, tableVars
<1>4. CASE \/ BeginRun(p) \/ NextMigration(p) \/ RunBody(p) \/ SetClean(p)
           \/ ForceVersion(p)
  <2>1. run[p].pc \notin Early \cup {"open"}
    BY <1>4
       DEF BeginRun, NextMigration, RunBody, SetClean, ForceVersion, At, Early
  <2>2. place["schema_migrations"] = "public"
    BY <2>1 DEF IInv, Placed
  <2>3. QED BY <1>4, <2>2, LibraryFits DEF IInv
<1>5. QED BY <1>1, <1>2, <1>3, <1>4 DEF Acts

LEMMA InitIInv == Init => IInv
<1> SUFFICES ASSUME Init PROVE IInv
  OBVIOUS
<1>1. version \in 0..N /\ applied = 1..version /\ dirty = FALSE
  <2>1. 0 \in 0..N /\ 1 \in 0..N /\ 1..0 = {} /\ 1..1 = {1}
    BY MigrateBounds
  <2>2. QED BY <2>1 DEF Init
<1>2. TypeOK
  <2>1. /\ version \in 0..N /\ dirty \in BOOLEAN /\ holder = NoProc
        /\ misforced \in BOOLEAN /\ faults \in 0..MaxFaults
    <3>1. 0 \in 0..MaxFaults
      BY MigrateBounds
    <3>2. dirty \in BOOLEAN
      BY <1>1
    <3>3. QED BY <1>1, <3>1, <3>2 DEF Init
  <2>2. applied \subseteq 1..N
    BY <1>1, MigrateBounds
  <2>3. place \in [Tables -> Places]
    BY DEF Init, Places
  <2>4. \A p \in Procs : run[p] = Exited
    BY DEF Init
  <2>5. \A p \in Procs :
          /\ run[p].pc \in PCs /\ run[p].stop \in BOOLEAN
          /\ {run[p].cur, run[p].new, run[p].goal, run[p].from, run[p].arg} \subseteq 0..N
          /\ run[p].steps \in Steps \cup {0}
          /\ run[p].row.status \in {"none", "success", "failed", "lost", "refused"}
          /\ run[p].pc = "exited"
    <3>1. Exited \in Runs /\ Exited.pc = "exited"
      BY ExitedFits DEF Exited
    <3>2. QED BY <2>4, <3>1, ZenonT(60) DEF Runs, Rows
  <2>6. QED BY <2>1, <2>2, <2>3, <2>5, MigrateNames DEF TypeOK
<1>3. Placed
  BY DEF Init, Placed, Tables, Exited, Early
<1>4. SchemaMatchesVersion
  BY <1>1 DEF SchemaMatchesVersion
<1>5. Locals
  BY ExitedFits DEF Init, Locals, Alone, Exited
<1>6. QED BY <1>2, <1>3, <1>4, <1>5 DEF IInv

LEMMA NextIInv == IInv /\ [Next]_vars => IInv'
<1> SUFFICES ASSUME IInv, [Next]_vars PROVE IInv'
  OBVIOUS
<1>0. run \in [Procs -> Runs]
  BY DEF IInv, Locals
<1>1. CASE UNCHANGED vars
  BY <1>1
     DEF IInv, vars, tableVars, counters, TypeOK, Placed, SchemaMatchesVersion,
         Locals, Alone
<1>2. ASSUME NEW p \in Procs, Acts(p), ~misforced PROVE IInv'
  <2>1. /\ \E r : Fits(p, r)
        /\ SchemaMatchesVersion' /\ Typed
        /\ UNCHANGED tableVars \/ place["schema_migrations"] = "public"
    BY <1>2, ActsFit
  <2>2. PICK r : Fits(p, r)
    BY <2>1
  <2>3. Locals'
    BY <2>2, StepKeeps DEF IInv
  <2>4. TypeOK'
    BY <1>0, <2>1, <2>2, <2>3, StepTypes DEF IInv
  <2>5. Placed'
    BY <1>0, <1>2, <2>1, <2>2, ActsPlaced DEF IInv
  <2>6. QED BY <2>1, <2>3, <2>4, <2>5 DEF IInv
<1>3. QED BY <1>1, <1>2, StartKeeps DEF Next, Acts

LEMMA IInvAlways == Spec => []IInv
<1>1. QED BY InitIInv, NextIInv, PTL DEF Spec

-----------------------------------------------------------------------------
(***************************************************************************)
(* The theorems                                                            *)
(***************************************************************************)
\* executeMigrationWithTracking and golang-migrate: every variable has its
\* type, and the process that holds the advisory lock is the one between Lock
\* and Unlock.
THEOREM TypeCorrect == Spec => []TypeOK
<1>1. IInv => TypeOK
  BY DEF IInv
<1>2. QED BY <1>1, IInvAlways, PTL

\* migrateUp, migrateDown, migrateSteps, migrateToVersion and forceMigration:
\* schema_migrations tells what the schema is, for any number of processes,
\* migrations, failures and crashes, unless -force is given a wrong version.
THEOREM SchemaKnown == Spec => []SchemaMatchesVersion
<1>1. IInv => SchemaMatchesVersion
  BY DEF IInv
<1>2. QED BY <1>1, IInvAlways, PTL

\* executeMigrationWithTracking, migrateToVersion, migrateSteps: a run that no
\* other overlapped has written the row due to it, for any number of steps
\* asked for, or, when a read of the version failed, none or one that names a
\* version it found or left and tells whether it failed.
THEOREM HistoryIsTruthful == Spec => []HistoryTruthful
<1>1. IInv => HistoryTruthful
  <2> SUFFICES ASSUME IInv, NEW p \in Procs, NEW r \in Runs, r = run[p], r.pc = "ended",
                      r.alone, r.op # "force", r.row.status # "lost"
               PROVE  \/ r.row = DueRow(r)
                      \/ r.blind /\ r.row = NoRow
                      \/ /\ r.blind /\ r.row.version \in {r.from, version}
                         /\ r.row.status = IF r.err THEN "failed" ELSE "success"
    BY DEF HistoryTruthful, At, IInv, Locals
  <2>1. Truthful(r, version)
    BY DEF IInv, Locals
  <2>2. CASE r.blind
    BY <2>1, <2>2 DEF Truthful
  <2>3. CASE ~r.blind
    BY <2>1, <2>3 DEF Truthful, Sighted, DueRow
  <2>4. QED BY <2>2, <2>3
<1>2. QED BY <1>1, IInvAlways, PTL

\* The signal forwarder: the migration in progress is the last to run.
THEOREM InterruptsStop == Spec => []InterruptStops
<1>1. IInv => InterruptStops
  <2> SUFFICES ASSUME IInv, NEW p \in Procs PROVE run[p].late <= 1
    BY DEF InterruptStops
  <2>1. run[p].late \in 0..1
    BY DEF IInv, Locals, Runs
  <2>2. QED BY <2>1
<1>2. QED BY <1>1, IInvAlways, PTL

-----------------------------------------------------------------------------
(***************************************************************************)
(* The processes implement SchemaMigration                                 *)
(*                                                                         *)
(* The run in progress is the one of the process under the lock, between   *)
(* BeginRun and the end of the run: its goal is the goal of the schema.    *)
(* Every other step of a process leaves the schema and that goal alone.    *)
(***************************************************************************)
Migrating == {"step", "body", "clean"}

\* The process in a run is the holder, and there is one holder.
LEMMA GoalOfRun ==
  ASSUME TypeOK, NEW p \in Procs, run[p].pc \in Migrating
  PROVE  Goal = run[p].goal /\ \A q \in Procs : run[q].pc \in Migrating => q = p
<1>1. \A q \in Procs : run[q].pc \in Migrating => holder = q
  BY DEF TypeOK, Migrating
<1>2. InRun(p) /\ holder = p
  BY <1>1 DEF InRun, Migrating
<1>3. QED BY <1>1, <1>2 DEF Goal

LEMMA GoalOfNone ==
  ASSUME \A p \in Procs : run[p].pc \notin Migrating
  PROVE  Goal = -1
BY DEF Goal, InRun, Migrating

LEMMA GoalNextOfRun ==
  ASSUME TypeOK', NEW p \in Procs, run'[p].pc \in Migrating
  PROVE  Goal' = run'[p].goal
<1>1. \A q \in Procs : run'[q].pc \in Migrating => holder' = q
  BY DEF TypeOK, Migrating
<1>2. InRun(p)' /\ holder' = p
  BY <1>1 DEF InRun, Migrating
<1>3. QED BY <1>1, <1>2 DEF Goal

LEMMA GoalNextOfNone ==
  ASSUME \A p \in Procs : run'[p].pc \notin Migrating
  PROVE  Goal' = -1
BY DEF Goal, InRun, Migrating

\* The goal changes when a run begins or ends, and nowhere else.
LEMMA GoalStays ==
  ASSUME TypeOK, TypeOK',
         \A q \in Procs : /\ run'[q].pc \in Migrating <=> run[q].pc \in Migrating
                          /\ run[q].pc \in Migrating => run'[q].goal = run[q].goal
  PROVE  Goal' = Goal
<1>1. CASE \E q \in Procs : run[q].pc \in Migrating
  <2>1. PICK q \in Procs : run[q].pc \in Migrating
    BY <1>1
  <2>2. Goal = run[q].goal
    BY <2>1, GoalOfRun
  <2>3. Goal' = run'[q].goal
    BY <2>1, GoalNextOfRun
  <2>4. QED BY <2>1, <2>2, <2>3
<1>2. CASE \A q \in Procs : run[q].pc \notin Migrating
  <2>1. Goal = -1
    BY <1>2, GoalOfNone
  <2>2. \A q \in Procs : run'[q].pc \notin Migrating
    BY <1>2
  <2>3. QED BY <2>1, <2>2, GoalNextOfNone
<1>3. QED BY <1>1, <1>2

LEMMA GoalBegins ==
  ASSUME TypeOK, TypeOK', NEW p \in Procs, run[p].pc = "begin", run'[p].pc \in Migrating
  PROVE  Goal = -1 /\ Goal' = run'[p].goal
<1>1. \A q \in Procs : run[q].pc \notin Migrating
  BY DEF TypeOK, Migrating
<1>2. QED BY <1>1, GoalOfNone, GoalNextOfRun

LEMMA GoalEnds ==
  ASSUME TypeOK, NEW p \in Procs, run[p].pc \in Migrating, run'[p].pc \notin Migrating,
         \A q \in Procs \ {p} : run'[q] = run[q]
  PROVE  Goal = run[p].goal /\ Goal' = -1
<1>1. \A q \in Procs : run[q].pc \in Migrating => q = p
  BY GoalOfRun
<1>2. \A q \in Procs : run'[q].pc \notin Migrating
  BY <1>1
<1>3. QED BY <1>2, GoalOfRun, GoalNextOfNone

\* A process is elsewhere: before the lock, after it, or forcing a version.
LEMMA ElsewhereShown ==
  ASSUME IInv, TypeOK', NEW p \in Procs, NEW r, Fits(p, r), UNCHANGED tableVars,
         run[p].pc \notin Migrating, r.pc \notin Migrating
  PROVE  UNCHANGED Schema!svars
<1>1. \A q \in Procs : run'[q] = IF q = p THEN r ELSE run[q]
  BY DEF IInv, Locals, Fits
<1>2. Goal' = Goal
  BY <1>1, GoalStays DEF IInv
<1>3. QED BY <1>2 DEF Schema!svars, tableVars

\* Finding the tables, opening the library, the lock, the reads and the record.
LEMMA WrapperShown ==
  ASSUME IInv, TypeOK', NEW p \in Procs, NEW r, Fits(p, r),
         \/ FindHistory(p) \/ MoveHistory(p) \/ CreateHistoryTable(p)
         \/ FindVersionTable(p) \/ MoveVersionTable(p) \/ OpenLibrary(p)
         \/ PeekVersion(p) \/ ReadBefore(p) \/ ReadAfter(p)
         \/ RecordMigration(p) \/ End(p) \/ Lock(p) \/ Unlock(p)
  PROVE  UNCHANGED Schema!svars
<1>1. UNCHANGED tableVars
  BY OpeningFits, ReadingFits, LockingFits DEF IInv
<1>2. PICK o \in Runs : o = run[p]
  BY DEF IInv, Locals
<1>3. run' = [run EXCEPT ![p] = r] /\ run'[p] = r /\ run \in [Procs -> Runs]
  BY DEF IInv, Locals, Fits
<1>4. o.pc \notin Migrating
  BY <1>2
     DEF FindHistory, MoveHistory, CreateHistoryTable, FindVersionTable,
         MoveVersionTable, OpenLibrary, PeekVersion, ReadBefore, ReadAfter,
         RecordMigration, End, Lock, Unlock, At, Migrating
<1>5. Exit(p) => r.pc = "exited"
  BY <1>3 DEF Exit, Exited
<1>6. \A pc : Go(p, pc) => r.pc = pc
  BY <1>2, <1>3 DEF Go, Runs
<1>7. r.pc \notin Migrating
  <2>1. CASE \/ FindHistory(p) \/ MoveHistory(p) \/ CreateHistoryTable(p)
             \/ FindVersionTable(p) \/ MoveVersionTable(p) \/ OpenLibrary(p)
             \/ End(p) \/ Unlock(p)
    BY <1>5, <1>6, <2>1
       DEF FindHistory, MoveHistory, CreateHistoryTable, FindVersionTable,
           MoveVersionTable, OpenLibrary, End, Unlock, Migrating
  <2>2. CASE PeekVersion(p)
    <3>1. PICK v \in {0, version}, b \in BOOLEAN :
               run' = [run EXCEPT ![p].pc = "before", ![p].blind = @ \/ b,
                                  ![p].dir = IF run[p].arg < v THEN "down" ELSE "up"]
      BY <2>2 DEF PeekVersion
    <3>2. PICK l : l = [o EXCEPT !.pc = "before", !.blind = @ \/ b,
                                 !.dir = IF o.arg < v THEN "down" ELSE "up"]
      OBVIOUS
    <3>3. r = l
      BY <1>2, <1>3, <3>1, <3>2
    <3>4. QED BY <3>2, <3>3 DEF Runs, Migrating
  <2>3. CASE ReadBefore(p) \/ ReadAfter(p)
    <3>1. PICK v \in {0, version}, b \in BOOLEAN :
               \/ run' = [run EXCEPT ![p].pc = "lock", ![p].cur = v, ![p].blind = @ \/ b]
               \/ run' = [run EXCEPT ![p].pc = "record", ![p].new = v, ![p].blind = @ \/ b]
      BY <2>3 DEF ReadBefore, ReadAfter
    <3>2. r = [o EXCEPT !.pc = "lock", !.cur = v, !.blind = @ \/ b] \/
          r = [o EXCEPT !.pc = "record", !.new = v, !.blind = @ \/ b]
      BY <1>2, <1>3, <3>1
    <3>3. r.pc \in {"lock", "record"}
      BY <3>2 DEF Runs
    <3>4. QED BY <3>3 DEF Migrating
  <2>4. CASE RecordMigration(p)
    BY <1>2, <1>3, <1>6, <2>4 DEF RecordMigration, Runs, Migrating
  <2>5. CASE Lock(p)
    BY <1>2, <1>3, <1>5, <1>6, <2>5 DEF Lock, Runs, Migrating
  <2>6. QED BY <2>1, <2>2, <2>3, <2>4, <2>5
<1>8. QED BY <1>1, <1>2, <1>4, <1>7, ElsewhereShown

\* A run that is over.
LEMMA EndShown ==
  ASSUME IInv, NEW p \in Procs, NEW r, Fits(p, r), UNCHANGED tableVars,
         run[p].pc \in Migrating, r.pc \notin Migrating
  PROVE  Schema!End
<1>1. \A q \in Procs : run'[q] = IF q = p THEN r ELSE run[q]
  BY DEF IInv, Locals, Fits
<1>2. Goal = run[p].goal /\ Goal' = -1
  BY <1>1, GoalEnds DEF IInv
<1>3. run[p].goal \in 0..N
  BY DEF IInv, TypeOK
<1>4. QED BY <1>2, <1>3, MigrateBounds DEF Schema!End, Schema!NoRun, tableVars

\* The library at work: where it was and what it holds is what Running says.
LEMMA RunShown ==
  ASSUME IInv, IInv', NEW p \in Procs, NEW r, Fits(p, r),
         NextMigration(p) \/ RunBody(p) \/ SetClean(p)
  PROVE  Schema!Announce \/ Schema!Perform \/ Schema!Confirm \/ Schema!End
<1>1. PICK o \in Runs : o = run[p] /\ Running(o, version, dirty, applied)
  BY DEF IInv, Locals
<1>2. run' = [run EXCEPT ![p] = r] /\ run'[p] = r /\ run \in [Procs -> Runs]
      /\ Running(r, version', dirty', applied')
  BY DEF IInv, Locals, Fits
<1>3. o.pc \in Migrating /\ o.goal \in 0..N
  BY <1>1 DEF NextMigration, RunBody, SetClean, At, Migrating, Runs
<1>4. Goal = o.goal /\ Goal # -1
  BY <1>1, <1>3, GoalOfRun, MigrateBounds DEF IInv
<1>5. CASE r.pc \notin Migrating /\ UNCHANGED tableVars
  BY <1>1, <1>3, <1>5, EndShown
<1>6. ASSUME r.pc \in Migrating, r.goal = o.goal PROVE Goal' = Goal
  BY <1>2, <1>4, <1>6, GoalNextOfRun DEF IInv
<1>7. ASSUME NEW err, Finish(p, err) PROVE r.pc \notin Migrating
  <2>1. PICK l : l = [o EXCEPT !.pc = "unlock", !.err = err, !.goal = 0, !.late = 0,
                               !.stop = FALSE, !.steps = 0]
    OBVIOUS
  <2>2. r = l
    BY <1>1, <1>2, <1>7, <2>1 DEF Finish
  <2>3. QED BY <2>1, <2>2 DEF Runs, Migrating
<1>8. ASSUME NEW pc, Go(p, pc) PROVE r.pc = pc /\ r.goal = o.goal
  BY <1>1, <1>2, <1>8 DEF Go, Runs
<1>9. CASE NextMigration(p)
  <2>1. CASE /\ version # o.goal /\ Go(p, "body") /\ UNCHANGED applied
             /\ version' = Target(version, o.goal) /\ dirty' = TRUE
    <3>1. r.pc \in Migrating /\ r.goal = o.goal
      BY <1>8, <2>1 DEF Migrating
    <3>2. ~dirty
      BY <1>1, <1>9 DEF NextMigration, At, Running
    <3>3. Schema!Announce
      BY <1>4, <1>6, <2>1, <3>1, <3>2 DEF Schema!Announce, Schema!NoRun, Target
    <3>4. QED BY <3>3
  <2>2. QED BY <1>1, <1>5, <1>7, <1>9, <2>1 DEF NextMigration
<1>10. CASE RunBody(p)
  <2>1. /\ UNCHANGED <<version, dirty>> /\ dirty
        /\ IF Down(o) THEN applied = 1..(version + 1) ELSE applied = 1..(version - 1)
    BY <1>1, <1>10 DEF RunBody, At, Running
  <2>2. CASE run' = [run EXCEPT ![p].pc = "clean",
                                ![p].late = IF run[p].stop THEN @ + 1 ELSE @]
    <3>1. r.pc = "clean" /\ r.goal = o.goal
      BY <1>1, <1>2, <2>2 DEF Runs
    <3>2. applied' = 1..version
      BY <1>2, <2>1, <3>1 DEF Running
    <3>3. Goal' = Goal
      BY <1>6, <3>1 DEF Migrating
    <3>4. Schema!Perform
      BY <1>4, <2>1, <3>2, <3>3 DEF Schema!Perform, Schema!NoRun
    <3>5. QED BY <3>4
  <2>3. CASE UNCHANGED applied /\ Finish(p, TRUE)
    BY <1>5, <1>7, <2>1, <2>3 DEF tableVars
  <2>4. QED BY <1>10, <2>2, <2>3 DEF RunBody
<1>11. CASE SetClean(p)
  <2>1. UNCHANGED <<version, applied>> /\ dirty /\ applied = 1..version
    BY <1>1, <1>11 DEF SetClean, At, Running
  <2>2. CASE dirty' = FALSE /\ Go(p, "step")
    <3>1. r.pc \in Migrating /\ r.goal = o.goal
      BY <1>8, <2>2 DEF Migrating
    <3>2. Schema!Confirm
      BY <1>4, <1>6, <2>1, <2>2, <3>1 DEF Schema!Confirm, Schema!NoRun
    <3>3. QED BY <3>2
  <2>3. CASE UNCHANGED dirty /\ Finish(p, TRUE)
    BY <1>5, <1>7, <2>1, <2>3 DEF tableVars
  <2>4. QED BY <1>11, <2>2, <2>3 DEF SetClean
<1>12. QED BY <1>9, <1>10, <1>11

\* The start of a run, which a dirty version or a missing goal refuses.
LEMMA BeginShown ==
  ASSUME IInv, TypeOK', NEW p \in Procs, NEW r, Fits(p, r), BeginRun(p)
  PROVE  UNCHANGED Schema!svars \/ \E v \in 0..N : Schema!Begin(v)
<1>1. PICK o \in Runs : o = run[p]
  BY DEF IInv, Locals
<1>2. run' = [run EXCEPT ![p] = r] /\ run'[p] = r /\ run \in [Procs -> Runs]
  BY DEF IInv, Locals, Fits
<1>3. o.pc = "begin" /\ UNCHANGED tableVars
  BY <1>1 DEF BeginRun, At
<1>4. CASE run' = [run EXCEPT ![p].pc = "unlock", ![p].err = TRUE, ![p].arg = 0,
                              ![p].steps = 0, ![p].stop = FALSE, ![p].from = version]
  <2>1. r.pc = "unlock"
    BY <1>1, <1>2, <1>4 DEF Runs
  <2>2. QED BY <1>1, <1>3, <2>1, ElsewhereShown DEF Migrating
<1>5. ASSUME NEW g \in Goals(o), ~dirty,
             run' = [run EXCEPT ![p].pc = "step", ![p].goal = g, ![p].arg = 0,
                                ![p].from = version]
      PROVE  \E v \in 0..N : Schema!Begin(v)
  <2>1. g \in 0..N
    <3>1. version \in 0..N
      BY DEF IInv, TypeOK
    <3>2. QED BY <1>5, <3>1, GoalsFit
  <2>2. r.pc = "step" /\ r.goal = g
    BY <1>1, <1>2, <1>5 DEF Runs
  <2>3. Goal = -1 /\ Goal' = g
    BY <1>1, <1>2, <1>3, <2>2, GoalBegins DEF IInv, Migrating
  <2>4. Schema!Begin(g)
    BY <1>3, <1>5, <2>3 DEF Schema!Begin, Schema!NoRun, tableVars
  <2>5. QED BY <2>1, <2>4
<1>6. QED BY <1>1, <1>4, <1>5 DEF BeginRun

LEMMA ForceShown ==
  ASSUME IInv, TypeOK', NEW p \in Procs, NEW r, Fits(p, r), ForceVersion(p)
  PROVE  \E v \in 0..N : Schema!Force(v)
<1>1. PICK o \in Runs : o = run[p]
  BY DEF IInv, Locals
<1>2. run' = [run EXCEPT ![p] = r] /\ run'[p] = r /\ run \in [Procs -> Runs]
  BY DEF IInv, Locals, Fits
<1>3. o.pc = "force" /\ r.pc = "unlock"
  BY <1>1, <1>2 DEF ForceVersion, At, Runs
<1>4. \A q \in Procs : run[q].pc \notin Migrating
  BY <1>1, <1>3 DEF IInv, TypeOK, Migrating
<1>5. \A q \in Procs : run'[q].pc \notin Migrating
  BY <1>2, <1>3, <1>4 DEF Migrating
<1>6. Goal = -1 /\ Goal' = -1
  BY <1>4, <1>5, GoalOfNone, GoalNextOfNone
<1>7. Schema!Force(o.arg)
  BY <1>1, <1>6 DEF ForceVersion, Schema!Force, Schema!NoRun
<1>8. o.arg \in 0..N
  BY DEF Runs
<1>9. QED BY <1>7, <1>8

\* A signal, and a process that dies, in a run or elsewhere.
LEMMA SignalShown ==
  ASSUME IInv, TypeOK', NEW p \in Procs, NEW r, Fits(p, r), Forward(p) \/ Crash(p)
  PROVE  UNCHANGED Schema!svars \/ Schema!End
<1>1. UNCHANGED tableVars
  BY DEF Forward, Crash
<1>2. PICK o \in Runs : o = run[p]
  BY DEF IInv, Locals
<1>3. run' = [run EXCEPT ![p] = r] /\ run'[p] = r /\ run \in [Procs -> Runs]
  BY DEF IInv, Locals, Fits
<1>4. CASE Crash(p)
  <2>1. r.pc \notin Migrating
    BY <1>3, <1>4 DEF Crash, Exit, Exited, Migrating
  <2>2. QED BY <1>1, <2>1, EndShown, ElsewhereShown
<1>5. CASE Forward(p)
  <2>1. r.pc = o.pc /\ r.goal = o.goal
    BY <1>2, <1>3, <1>5 DEF Forward, Runs
  <2>2. Goal' = Goal
    BY <1>2, <1>3, <2>1, GoalStays DEF IInv
  <2>3. QED BY <1>1, <2>2 DEF Schema!svars, tableVars
<1>6. QED BY <1>4, <1>5

LEMMA StartShown ==
  ASSUME IInv, TypeOK', NEW p \in Procs, NEW cmd \in Commands, Start(p, cmd)
  PROVE  UNCHANGED Schema!svars
<1>1. PICK new : new = [Exited EXCEPT !.pc = "find", !.op = cmd.op, !.dir = cmd.dir,
                          !.arg = cmd.arg, !.steps = cmd.steps,
                          !.alone = {q \in Procs \ {p} : ~At(q, "exited")} = {}]
  OBVIOUS
<1>2. run' = [q \in Procs |-> IF q = p THEN new
                              ELSE IF run[q].pc # "exited" THEN [run[q] EXCEPT !.alone = FALSE]
                              ELSE run[q]]
  BY <1>1 DEF Start, At
<1>3. new.pc = "find" /\ run[p].pc = "exited"
  BY <1>1 DEF Start, At, Exited
<1>4. ASSUME NEW q \in Procs
      PROVE  /\ run'[q].pc \in Migrating <=> run[q].pc \in Migrating
             /\ run[q].pc \in Migrating => run'[q].goal = run[q].goal
  <2>1. PICK o \in Runs : o = run[q]
    BY DEF IInv, Locals
  <2>2. [o EXCEPT !.alone = FALSE].pc = o.pc /\ [o EXCEPT !.alone = FALSE].goal = o.goal
    BY DEF Runs
  <2>3. QED BY <1>2, <1>3, <2>1, <2>2 DEF Migrating
<1>5. Goal' = Goal
  BY <1>4, GoalStays DEF IInv
<1>6. UNCHANGED tableVars
  BY DEF Start
<1>7. QED BY <1>5, <1>6 DEF Schema!svars, tableVars

LEMMA InitSchema == Init => Schema!Init
<1> SUFFICES ASSUME Init PROVE Schema!Init
  OBVIOUS
<1>1. version \in 0..N /\ applied = 1..version /\ dirty = FALSE
  <2>1. 0 \in 0..N /\ 1 \in 0..N /\ 1..0 = {} /\ 1..1 = {1}
    BY MigrateBounds
  <2>2. QED BY <2>1 DEF Init
<1>2. \A p \in Procs : run[p].pc \notin Migrating
  BY DEF Init, Exited, Migrating
<1>3. QED BY <1>1, <1>2, GoalOfNone DEF Schema!Init, Schema!NoRun

LEMMA NextSchema == IInv /\ IInv' /\ [Next]_vars => [Schema!Next]_Schema!svars
<1> SUFFICES ASSUME IInv, IInv', [Next]_vars PROVE Schema!Next \/ UNCHANGED Schema!svars
  OBVIOUS
<1>0. TypeOK'
  BY DEF IInv
<1>1. CASE UNCHANGED vars
  BY <1>1 DEF vars, tableVars, Schema!svars, Goal, InRun
<1>2. ASSUME NEW p \in Procs, Acts(p), ~misforced
      PROVE  Schema!Next \/ UNCHANGED Schema!svars
  <2>1. PICK r : Fits(p, r)
    BY <1>2, ActsFit
  <2>2. CASE \/ FindHistory(p) \/ MoveHistory(p) \/ CreateHistoryTable(p)
             \/ FindVersionTable(p) \/ MoveVersionTable(p) \/ OpenLibrary(p)
             \/ PeekVersion(p) \/ ReadBefore(p) \/ ReadAfter(p)
             \/ RecordMigration(p) \/ End(p) \/ Lock(p) \/ Unlock(p)
    BY <1>0, <2>1, <2>2, WrapperShown
  <2>3. CASE NextMigration(p) \/ RunBody(p) \/ SetClean(p)
    BY <2>1, <2>3, RunShown DEF Schema!Next
  <2>4. CASE BeginRun(p)
    BY <1>0, <2>1, <2>4, BeginShown DEF Schema!Next
  <2>5. CASE ForceVersion(p)
    BY <1>0, <2>1, <2>5, ForceShown DEF Schema!Next
  <2>6. CASE Forward(p) \/ Crash(p)
    BY <1>0, <2>1, <2>6, SignalShown DEF Schema!Next
  <2>7. QED BY <1>2, <2>2, <2>3, <2>4, <2>5, <2>6 DEF Acts
<1>3. QED BY <1>0, <1>1, <1>2, StartShown DEF Next, Acts

\* cmd/migrate under golang-migrate's lock: however many processes overlap,
\* wait, fail, crash or are interrupted, the schema is migrated as by one run
\* after another, a migration at a time.
THEOREM MigratesOneByOne == Spec => OneRunAtATime
<1>1. IInv /\ [Next]_vars => IInv'
  BY NextIInv
<1>2. IInv /\ IInv' /\ [Next]_vars => [Schema!Next]_Schema!svars
  BY NextSchema
<1>3. QED
  BY <1>1, <1>2, InitIInv, InitSchema, PTL DEF Spec, OneRunAtATime, Schema!Spec

=============================================================================
