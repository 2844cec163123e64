---------------------------- MODULE SchemaMigration ----------------------------
(***************************************************************************)
(* What the migration tool promises whoever deploys with it, with no       *)
(* processes, lock, tables, signals or library in it: however many of them *)
(* are started, the schema is migrated by one run after another.  A run    *)
(* starts from a clean schema and takes it towards its goal, a migration   *)
(* at a time, each announced by a dirty version, run once, and confirmed   *)
(* by a clean one.  It may end anywhere; no other one goes on from there   *)
(* but from a clean version, or from the one an operator has forced.       *)
(***************************************************************************)
EXTENDS Integers

CONSTANT N  \* migrations, with versions 1..N; version 0 is none

VARIABLES
  version, dirty,  \* what the schema is said to be
  applied,         \* the migrations whose effect is in the schema
  goal             \* the goal of the run in progress

svars == <<version, dirty, applied, goal>>

NoRun == -1

Init ==
  /\ version \in 0..N /\ applied = 1..version /\ dirty = FALSE
  /\ goal = NoRun

Begin(g) ==
  /\ goal = NoRun /\ ~dirty /\ goal' = g
  /\ UNCHANGED <<version, dirty, applied>>

\* The next migration towards the goal is announced.
Announce ==
  /\ goal # NoRun /\ version # goal
  /\ ~dirty /\ dirty' = TRUE
  /\ version' = IF version < goal THEN version + 1 ELSE version - 1
  /\ UNCHANGED <<applied, goal>>

\* Its body takes effect: from the schema before it to the one announced.
Perform ==
  /\ goal # NoRun /\ dirty
  /\ applied \in {1..(version - 1), 1..(version + 1)} /\ applied' = 1..version
  /\ UNCHANGED <<version, dirty, goal>>

Confirm ==
  /\ goal # NoRun /\ applied = 1..version
  /\ dirty /\ dirty' = FALSE
  /\ UNCHANGED <<version, applied, goal>>

\* The run is over: at its goal, stopped, failed or crashed.
End ==
  /\ goal # NoRun /\ goal' = NoRun
  /\ UNCHANGED <<version, dirty, applied>>

\* An operator says what the schema is.
Force(v) ==
  /\ goal = NoRun /\ version' = v /\ dirty' = FALSE
  /\ UNCHANGED <<applied, goal>>

Next ==
  \/ Announce \/ Perform \/ Confirm \/ End
  \/ \E v \in 0..N : Begin(v) \/ Force(v)

Spec == Init /\ [][Next]_svars

=============================================================================
