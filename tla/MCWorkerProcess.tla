---------------------------- MODULE MCWorkerProcess ----------------------------
(***************************************************************************)
(* Instances of WorkerProcess for TLC: a worker without the push server,   *)
(* which main leaves out when FCM is unavailable.                          *)
(***************************************************************************)
EXTENDS WorkerProcess

TwoWorkers == <<"email", "event">>

=============================================================================
