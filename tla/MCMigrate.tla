------------------------------- MODULE MCMigrate -------------------------------
(***************************************************************************)
(* Instances of Migrate for TLC.                                           *)
(***************************************************************************)
EXTENDS Migrate, TLC

CONSTANTS p1, p2

Symmetry == Permutations(Procs)

=============================================================================
