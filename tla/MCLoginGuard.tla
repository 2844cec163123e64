----------------------------- MODULE MCLoginGuard -----------------------------
(***************************************************************************)
(* An instance of LoginGuard for TLC.                                      *)
(***************************************************************************)
EXTENDS LoginGuard, TLC

CONSTANTS c1, c2

Symmetry == Permutations(Clients)

=============================================================================
