---------------------------- MODULE MCEventOutbox ----------------------------
(***************************************************************************)
(* Instances of EventOutbox for TLC.                                       *)
(***************************************************************************)
EXTENDS EventOutbox, TLC

CONSTANTS e1, e2, e3, d1, d2

\* One identifier per event and async subscription, as distinct request ids
\* give, and one that all but the first subscriptions of every event share.
Ids == Events \X (1..2)
OwnId == [e \in Events |-> [i \in 1..2 |-> <<e, i>>]]
SharedId == [e \in Events |-> [i \in 1..3 |-> IF i = 1 THEN <<e, i>> ELSE <<e1, 2>>]]

\* A direct publish with two async handlers, and one in a transaction whose
\* event also has a critical synchronous handler.
MixedSubs == (e1 :> <<"async", "async">>) @@ (e2 :> <<"async", "async", "critical">>)
\* One async handler each, as internal/app/wire_events.go registers.
WiredSubs == [e \in Events |-> <<"async">>]
SameKeys == [e \in Events |-> "key"]
NoKeys == [e \in Events |-> NoKey]
Symmetry == Permutations(Drainers)

=============================================================================
