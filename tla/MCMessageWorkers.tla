-------------------------- MODULE MCMessageWorkers --------------------------
(***************************************************************************)
(* Instance of MessageWorkers for TLC: two pushes and an e-mail task.      *)
(***************************************************************************)
EXTENDS MessageWorkers, TLC

CONSTANTS p1, p2, b1, a1

MailParts == b1 :> {a1}

\* The pushes carry one idempotency key; the worker cannot decode p2's payload.
PushKeys == [m \in Messages |-> IF m \in Pushes THEN "key" ELSE NoKey]

=============================================================================
