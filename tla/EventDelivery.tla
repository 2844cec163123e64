---------------------------- MODULE EventDelivery ----------------------------
(***************************************************************************)
(* What the event pipeline promises a caller of Publish, with no outbox,   *)
(* queue, drain or worker in it.  An event whose domain change committed   *)
(* may be run; one whose transaction was rolled back never is; one that    *)
(* was acknowledged stays in somebody's keeping until its handlers have    *)
(* run or have been set aside for an operator.                             *)
(***************************************************************************)
EXTENDS Naturals

CONSTANTS
  Events,    \* the calls of Publish whose type has handlers in the worker
  Handlers   \* Handlers[e]: the async handlers of e

VARIABLES
  phase,     \* phase[e]: what has become of the domain change and its caller
  kept,      \* events some part of the pipeline answers for
  ran,       \* ran[e]: handlers of e that have run to completion
  parked     \* parked[e]: handlers of e set aside for an operator

dvars == <<phase, kept, ran, parked>>

Init ==
  /\ phase = [e \in Events |-> "none"]
  /\ kept = {}
  /\ ran = [e \in Events |-> {}]
  /\ parked = [e \in Events |-> {}]

\* The domain change of e is durable.
Happened(e) == phase[e] \in {"live", "acked", "failed"}

Become(e, p) == phase' = [phase EXCEPT ![e] = p]

\* The domain change commits before the caller is answered.
Commit(e) ==
  /\ phase[e] = "none" /\ Become(e, "live")
  /\ UNCHANGED <<kept, ran, parked>>

\* The caller sees success, and the event is in keeping.
Ack(e) ==
  /\ phase[e] \in {"none", "live"} /\ Become(e, "acked")
  /\ kept' = kept \cup {e}
  /\ UNCHANGED <<ran, parked>>

\* The caller sees an error, or is cut off, after its change committed.
Fail(e) ==
  /\ phase[e] = "live" /\ Become(e, "failed")
  /\ UNCHANGED <<kept, ran, parked>>

\* The transaction is rolled back: the event never happened.
Withdraw(e) ==
  /\ phase[e] = "none" /\ Become(e, "void")
  /\ UNCHANGED <<kept, ran, parked>>

\* Only an event nobody was promised may be picked up or dropped again.
Entrust(e) ==
  /\ phase[e] \in {"live", "failed"}
  /\ \/ kept' = kept \cup {e}
     \/ kept' = kept \ {e}
  /\ UNCHANGED <<phase, ran, parked>>

\* Handlers in S run, perhaps again; the attempt may be the last one of P.
Run(e, S, P) ==
  /\ Happened(e)
  /\ ran' = [ran EXCEPT ![e] = @ \cup S]
  /\ parked' = [parked EXCEPT ![e] = @ \cup P]
  /\ kept' \in {kept, kept \cup {e}}
  /\ UNCHANGED phase

\* Events in keeping are set aside together, all their handlers with them.
Park(S) ==
  /\ S \subseteq kept
  /\ parked' = [e \in Events |-> IF e \in S THEN Handlers[e] ELSE parked[e]]
  /\ UNCHANGED <<phase, kept, ran>>

Next ==
  \/ \E e \in Events :
       \/ Commit(e) \/ Ack(e) \/ Fail(e) \/ Withdraw(e) \/ Entrust(e)
       \/ \E S, P \in SUBSET Handlers[e] : Run(e, S, P)
  \/ \E S \in SUBSET kept : Park(S)

Spec == Init /\ [][Next]_dvars

\* What the contract keeps at all times: an acknowledged event is in keeping,
\* and nothing is kept, run or set aside of an event that did not happen.
Promised ==
  \A e \in Events :
    /\ phase[e] = "acked" => e \in kept
    /\ e \in kept \/ ran[e] # {} \/ parked[e] # {} => Happened(e)

\* What a step may never take back: the answer to the caller, the keeping of
\* what was acknowledged, a run.
Lasting ==
  \A e \in Events :
    /\ phase[e] = "acked" => phase'[e] = "acked" /\ e \in kept'
    /\ Happened(e) => Happened(e)'
    /\ ran[e] \subseteq ran'[e]

\* An acknowledged event is settled in the end.
Settled(e) == Handlers[e] \subseteq ran[e] \cup parked[e]
Settles == \A e \in Events : phase[e] = "acked" ~> Settled(e)

=============================================================================
