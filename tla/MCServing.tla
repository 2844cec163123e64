------------------------------- MODULE MCServing -------------------------------
(***************************************************************************)
(* Instances of Serving, with Gateway in front of it, for TLC.             *)
(***************************************************************************)
EXTENDS Gateway

CONSTANTS r1, r2

=============================================================================
