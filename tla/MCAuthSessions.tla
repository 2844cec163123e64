---------------------------- MODULE MCAuthSessions ----------------------------
(***************************************************************************)
(* Instances of AuthSessions for TLC.                                      *)
(***************************************************************************)
EXTENDS AuthSessions, TLC

CONSTANTS c1, c2, c3, dev1, dev2

Symmetry == Permutations(Clients) \cup Permutations(Devices)

(***************************************************************************)
(* A bound of the run auth_sessions.  A behaviour that issues its third    *)
(* refresh token is followed only while no reset was requested and no      *)
(* password changed in it: revocation is explored with two tokens, the     *)
(* device limit and the rotation with three.                               *)
(***************************************************************************)
ThreeTokensWithoutReset ==
    rtSt[3] # "none" => \A u \in Users : issued + pwd[u] <= 1

=============================================================================
