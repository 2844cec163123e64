----------------------------- MODULE ServingProofs -----------------------------
(***************************************************************************)
(* Proofs about Serving, for any number of calls, background goroutines    *)
(* and panics: the interceptors admit only callers that were entitled, the *)
(* metrics add up, and the shutdown closes nothing under a call; and about *)
(* Gateway, which behaves to the API as Serving allows and routes every    *)
(* request to the method it names.                                         *)
(*                                                                         *)
(* HandlerEntitled needs that a call at the authentication has recorded    *)
(* what it finds there (Witnessed); MetricsAddUp is inductive by itself,   *)
(* and what keeps the gauge a natural number; ClosedInOrder needs where    *)
(* main is when each thing is closed (Phases).  RoutedAsNamed follows from *)
(* what each row of the routes asks of a path (RowShape): no request fits  *)
(* two of them but for GetUser and GetMe.                                  *)
(***************************************************************************)
EXTENDS Gateway, SequenceTheorems, FiniteSetTheorems, TLAPS

Locals == [pc : PCs, kind : Kinds, bytes : Nat, gotMeta : BOOLEAN, code : Codes,
           entitled : BOOLEAN]

-----------------------------------------------------------------------------
(***************************************************************************)
(* The inductive invariant                                                 *)
(***************************************************************************)
\* A call on its way in has recorded that its caller is entitled, if it is
\* now; one that has passed the authentication has recorded that it was.
Witnessed ==
  \A r \in Calls :
    /\ At(r, "auth") /\ Entitled(call[r].kind, session, admin) => call[r].entitled
    /\ At(r, "validate") \/ call[r].pc \in Handling => call[r].entitled

Closing == {"obs", "pool", "cache", "dispatchers", "exited"}

\* Where main is when it has stopped the server, seen its last call out, and
\* closed what the calls use; before Serve has run there are no calls.
Phases ==
  /\ serve # "serving" => \A r \in Calls : call[r].pc = "unmade"
  /\ main \in {"stop", "draining"} \cup Closing => health = "NOT_SERVING"
  /\ main \in {"draining"} \cup Closing => stopped # "no"
  /\ stopped # "no" => main \in {"draining"} \cup Closing /\ health = "NOT_SERVING"
  /\ main \in Closing => \A r \in Calls : call[r].pc \notin Inside
  /\ pool = "closed" => /\ main \in {"cache", "dispatchers", "exited"}
                        /\ \A b \in Loops : loop[b] # "querying"
  /\ main \in {"cache", "dispatchers"} => pool = "closed"
  /\ main = "dispatchers" => cache = "closed"
  /\ dispatchers = "closed" => main = "exited" /\ cache = "closed" /\ pool = "closed"

IInv == TypeOK /\ Witnessed /\ MetricsAddUp /\ Phases

-----------------------------------------------------------------------------
(***************************************************************************)
(* Counting calls                                                          *)
(***************************************************************************)
In(c, pcs) == {r \in Calls : c[r].pc \in pcs}
Count(c, pcs) == Cardinality(In(c, pcs))

LEMMA CountsAre ==
  /\ Running = Count(call, Inside)
  /\ Cardinality({r \in Calls : At(r, "done")}) = Count(call, {"done"})
  /\ Running' = Count(call', Inside)
  /\ Cardinality({r \in Calls : At(r, "done")})' = Count(call', {"done"})
<1>1. /\ {r \in Calls : At(r, "done")} = In(call, {"done"})
      /\ {r \in Calls : At(r, "done")'} = In(call', {"done"})
  BY DEF At, In
<1>2. QED BY <1>1 DEF Running, Count, In

\* What one call's locals become adds to a count, takes from it or leaves it.
Moved(c, d, r, l, pcs) ==
  /\ c[r].pc \in pcs /\ l.pc \notin pcs => Count(c, pcs) = Count(d, pcs) + 1
  /\ c[r].pc \notin pcs /\ l.pc \in pcs => Count(d, pcs) = Count(c, pcs) + 1
  /\ (c[r].pc \in pcs <=> l.pc \in pcs) => Count(d, pcs) = Count(c, pcs)

LEMMA CountMoves ==
  ASSUME NEW c, c \in [Calls -> Locals], NEW r \in Calls, NEW l \in Locals, NEW pcs,
         NEW d, d = [c EXCEPT ![r] = l]
  PROVE  Count(c, pcs) \in Nat /\ Count(d, pcs) \in Nat /\ Moved(c, d, r, l, pcs)
<1>1. \A q \in Calls : d[q] = IF q = r THEN l ELSE c[q]
  OBVIOUS
<1> DEFINE S == In(c, pcs)
           T == In(d, pcs)
<1>2. /\ S \in SUBSET Calls /\ T \in SUBSET Calls
      /\ c[r].pc \in pcs /\ l.pc \notin pcs => T = S \ {r} /\ r \in S
      /\ c[r].pc \notin pcs /\ l.pc \in pcs => T = S \cup {r} /\ r \notin S
      /\ (c[r].pc \in pcs <=> l.pc \in pcs) => T = S
  BY <1>1 DEF In
<1>3. Count(c, pcs) = Cardinality(S) /\ Count(d, pcs) = Cardinality(T)
  BY DEF Count
<1> HIDE DEF S, T
<1>4. /\ IsFiniteSet(S) /\ Cardinality(S) \in Nat
      /\ IsFiniteSet(T) /\ Cardinality(T) \in Nat
  BY <1>2, ServingBounds, FS_Subset, FS_CardinalityType
<1>5. c[r].pc \in pcs /\ l.pc \notin pcs => Cardinality(S) = Cardinality(T) + 1
  BY <1>2, <1>4, FS_RemoveElement
<1>6. c[r].pc \notin pcs /\ l.pc \in pcs => Cardinality(T) = Cardinality(S) + 1
  BY <1>2, <1>4, FS_AddElement
<1>7. QED BY <1>2, <1>3, <1>4, <1>5, <1>6 DEF Moved

\* No call moves in or out of a count when each keeps its program counter.
LEMMA CountStays ==
  ASSUME NEW c, NEW d, NEW pcs, \A r \in Calls : d[r].pc = c[r].pc
  PROVE  Count(d, pcs) = Count(c, pcs)
BY DEF Count, In

-----------------------------------------------------------------------------
(***************************************************************************)
(* The calls                                                               *)
(***************************************************************************)
UnmadeTo(pc, code) == [Unmade EXCEPT !.pc = pc, !.code = code]

LEMMA UnmadeIsLocal ==
  /\ Unmade \in Locals /\ Unmade.pc = "unmade"
  /\ \A pc \in PCs, code \in Codes :
       UnmadeTo(pc, code) \in Locals /\ UnmadeTo(pc, code).pc = pc
BY DEF Unmade, Locals, PCs, Kinds, Codes, UnmadeTo

\* A call r is answered: it leaves the interceptors for the log and metrics.
LEMMA AnswerStep ==
  ASSUME TypeOK, NEW r \in Calls, NEW code \in Codes, Answer(r, code)
  PROVE  \E l \in Locals : call' = [call EXCEPT ![r] = l] /\ l.pc = "answer"
<1>1. UnmadeTo("answer", code) \in Locals /\ UnmadeTo("answer", code).pc = "answer"
  BY UnmadeIsLocal DEF PCs
<1>2. call' = [call EXCEPT ![r] = UnmadeTo("answer", code)]
  BY DEF Answer, UnmadeTo
<1>3. QED BY <1>1, <1>2

LEMMA DoneStep ==
  ASSUME TypeOK, NEW r \in Calls, Done(r)
  PROVE  \E l \in Locals : call' = [call EXCEPT ![r] = l] /\ l.pc = "done"
<1>1. PICK l : l = [Unmade EXCEPT !.pc = "done"]
  OBVIOUS
<1>2. l \in Locals /\ l.pc = "done"
  BY <1>1, UnmadeIsLocal DEF Locals, PCs
<1>3. QED BY <1>1, <1>2 DEF Done

\* Where a call r may go in one step, and what its new locals l have witnessed.
Forth(r, l) ==
  /\ call' = [call EXCEPT ![r] = l] /\ l \in Locals
  /\ \/ /\ call[r].pc = "unmade" /\ l.pc = "auth" /\ serve = "serving" /\ stopped = "no"
        /\ l.entitled = Entitled(l.kind, session, admin)
        /\ inflight' = inflight + 1 /\ UNCHANGED <<counted, panics>>
     \/ /\ call[r].pc = "unmade" /\ l.pc = "undecodable" /\ serve = "serving"
        /\ UNCHANGED <<inflight, counted, panics>>
     \/ /\ call[r].pc = "auth" /\ l.pc \in {"recv", "validate"}
        /\ Entitled(call[r].kind, session, admin) /\ l.entitled = call[r].entitled
        /\ UNCHANGED <<inflight, counted, panics>>
     \/ /\ call[r].pc = "validate" /\ l.pc = "handler" /\ l.entitled = call[r].entitled
        /\ UNCHANGED <<inflight, counted, panics>>
     \/ /\ call[r].pc = "recv" /\ l.pc \in {"recv", "upload"}
        /\ l.entitled = call[r].entitled
        /\ UNCHANGED <<inflight, counted, panics>>
     \/ /\ call[r].pc \in Inside /\ l.pc = "answer"
        /\ UNCHANGED <<inflight, counted, panics>>
     \/ /\ call[r].pc \in Inside /\ l.pc = "done" /\ panics < MaxPanics
        /\ panics' = panics + 1 /\ UNCHANGED <<inflight, counted>>
     \/ /\ call[r].pc = "answer" /\ l.pc = "done"
        /\ inflight' = inflight - 1 /\ counted' = counted + 1 /\ UNCHANGED panics

Elsewhere == UNCHANGED <<session, admin, loop, lifeVars>>

LEMMA CallSteps ==
  ASSUME TypeOK, NEW r \in Calls, Proceed(r) \/ Client(r)
  PROVE  Elsewhere /\ main # "exited" /\ \E l : Forth(r, l)
<1>0. call \in [Calls -> Locals] /\ call[r] \in Locals
  BY DEF TypeOK, Locals
<1>1. Elsewhere /\ main # "exited"
  BY DEF Proceed, Client, Authenticate, Validate, Handle, Return, ReceiveFails,
         Arrive, Receive, Undecodable, Panic, Elsewhere
<1>2. ASSUME NEW k \in Kinds, Arrive(r, k) PROVE \E l : Forth(r, l)
  <2>1. PICK e \in BOOLEAN : e = Entitled(k, session, admin)
    BY DEF Entitled, TypeOK
  <2>2. PICK l : l = [Unmade EXCEPT !.kind = k, !.pc = "auth", !.entitled = e]
    OBVIOUS
  <2>3. l \in Locals /\ l.pc = "auth" /\ l.kind = k /\ l.entitled = e
    BY <2>2 DEF Unmade, Locals, PCs, Kinds, Codes
  <2>4. Forth(r, l)
    BY <1>0, <1>2, <2>1, <2>2, <2>3, UnmadeIsLocal DEF Arrive, Forth, At
  <2>5. QED BY <2>4
<1>3. CASE Undecodable(r)
  <2>1. PICK l : l = [call[r] EXCEPT !.pc = "undecodable"]
    OBVIOUS
  <2>2. l \in Locals /\ l.pc = "undecodable" /\ call' = [call EXCEPT ![r] = l]
    BY <1>0, <1>3, <2>1 DEF Undecodable, Locals, PCs
  <2>3. Forth(r, l)
    BY <1>3, <2>2 DEF Undecodable, Forth, At
  <2>4. QED BY <1>1, <2>3
<1>4. ASSUME NEW code \in Codes, Answer(r, code), call[r].pc \in Inside,
             UNCHANGED <<inflight, counted, panics>>
      PROVE  \E l : Forth(r, l)
  <2>1. PICK l \in Locals : call' = [call EXCEPT ![r] = l] /\ l.pc = "answer"
    BY <1>4, AnswerStep
  <2>2. Forth(r, l)
    BY <1>4, <2>1 DEF Forth
  <2>3. QED BY <2>2
<1>5. ASSUME NEW pc \in PCs, Go(r, pc), UNCHANGED <<inflight, counted, panics>>,
             \/ /\ call[r].pc = "auth" /\ pc \in {"recv", "validate"}
                /\ Entitled(call[r].kind, session, admin)
             \/ call[r].pc = "validate" /\ pc = "handler"
             \/ call[r].pc = "recv" /\ pc = "upload"
      PROVE  \E l : Forth(r, l)
  <2>1. PICK l : l = [call[r] EXCEPT !.pc = pc]
    OBVIOUS
  <2>2. /\ l \in Locals /\ l.pc = pc /\ call' = [call EXCEPT ![r] = l]
        /\ l.entitled = call[r].entitled
    BY <1>0, <1>5, <2>1 DEF Go, Locals
  <2>3. Forth(r, l)
    BY <1>5, <2>2 DEF Forth
  <2>4. QED BY <2>3
<1>6. CASE Authenticate(r)
  <2>1. /\ call[r].pc = "auth" /\ call[r].kind \in Kinds
        /\ UNCHANGED <<inflight, counted, panics>>
    BY <1>0, <1>6 DEF Authenticate, At, Locals
  <2>2. CASE Refused(call[r].kind)
    BY <1>1, <1>4, <1>6, <2>1, <2>2 DEF Authenticate, Codes, Inside
  <2>3. CASE ~Refused(call[r].kind)
    <3>1. Entitled(call[r].kind, session, admin)
      BY <2>3 DEF Refused, Entitled
    <3>2. PICK pc \in {"recv", "validate"} :
                 pc = IF call[r].kind = "stream" THEN "recv" ELSE "validate"
      OBVIOUS
    <3>3. Go(r, pc)
      BY <1>6, <2>3, <3>2 DEF Authenticate
    <3>4. QED BY <1>1, <1>5, <2>1, <3>1, <3>2, <3>3 DEF PCs
  <2>4. QED BY <2>2, <2>3
<1>7. CASE Validate(r)
  BY <1>1, <1>4, <1>5, <1>7 DEF Validate, At, Codes, PCs, Inside
<1>8. CASE Handle(r)
  <2>1. PICK outcome \in {"ok", "domain", "plain"} : Answer(r, MapError(outcome))
    BY <1>8 DEF Handle
  <2>2. PICK code \in Codes : code = MapError(outcome)
    BY DEF MapError, Codes
  <2>3. Answer(r, code)
    BY <2>1, <2>2
  <2>4. QED BY <1>1, <1>4, <1>8, <2>3 DEF Handle, At, Inside
<1>9. CASE Return(r)
  <2>1. PICK l \in Locals : call' = [call EXCEPT ![r] = l] /\ l.pc = "done"
    BY <1>9, DoneStep DEF Return
  <2>2. Forth(r, l)
    BY <1>9, <2>1 DEF Return, Forth, At
  <2>3. QED BY <1>1, <2>2
<1>10. CASE Panic(r)
  <2>1. PICK l \in Locals : call' = [call EXCEPT ![r] = l] /\ l.pc = "done"
    BY <1>10, DoneStep DEF Panic
  <2>2. Forth(r, l)
    BY <1>10, <2>1 DEF Panic, Forth, At, Inside
  <2>3. QED BY <1>1, <2>2
<1>11. CASE ReceiveFails(r)
  BY <1>1, <1>4, <1>11 DEF ReceiveFails, At, Codes, Inside
<1>12. ASSUME NEW m \in Messages, Receive(r, m) PROVE \E l : Forth(r, l)
  <2>1. call[r].pc = "recv" /\ UNCHANGED <<inflight, counted, panics>>
    BY <1>12 DEF Receive, At
  <2>2. CASE Answer(r, "status")
    BY <1>4, <2>1, <2>2 DEF Codes, Inside
  <2>3. CASE Go(r, "upload")
    BY <1>5, <2>1, <2>3 DEF PCs
  <2>4. CASE call' = [call EXCEPT ![r].gotMeta = TRUE]
    <3>1. PICK l : l = [call[r] EXCEPT !.gotMeta = TRUE]
      OBVIOUS
    <3>2. /\ l \in Locals /\ l.pc = "recv" /\ call' = [call EXCEPT ![r] = l]
          /\ l.entitled = call[r].entitled
      BY <1>0, <2>1, <2>4, <3>1 DEF Locals
    <3>3. QED BY <2>1, <3>2 DEF Forth
  <2>5. CASE call' = [call EXCEPT ![r].bytes = @ + 1]
    <3>1. PICK l : l = [call[r] EXCEPT !.bytes = @ + 1]
      OBVIOUS
    <3>2. /\ l \in Locals /\ l.pc = "recv" /\ call' = [call EXCEPT ![r] = l]
          /\ l.entitled = call[r].entitled
      BY <1>0, <2>1, <2>5, <3>1 DEF Locals
    <3>3. QED BY <2>1, <3>2 DEF Forth
  <2>6. QED BY <1>12, <2>2, <2>3, <2>4, <2>5 DEF Receive, Messages
<1>13. QED
  BY <1>1, <1>2, <1>3, <1>6, <1>7, <1>8, <1>9, <1>10, <1>11, <1>12 DEF Proceed, Client

-----------------------------------------------------------------------------
(***************************************************************************)
(* The invariant                                                           *)
(***************************************************************************)
LEMMA CallKeeps ==
  ASSUME IInv, NEW r \in Calls, NEW l, Forth(r, l), Elsewhere, main # "exited"
  PROVE  IInv'
<1>0. /\ call \in [Calls -> Locals] /\ l \in Locals /\ call' = [call EXCEPT ![r] = l]
      /\ call' \in [Calls -> Locals]
      /\ inflight \in Nat /\ counted \in Nat /\ panics \in 0..MaxPanics
  BY DEF IInv, TypeOK, Locals, Forth
<1>1. /\ Count(call, Inside) \in Nat /\ Count(call', Inside) \in Nat
      /\ Count(call, {"done"}) \in Nat /\ Count(call', {"done"}) \in Nat
      /\ inflight = Count(call, Inside) + panics
      /\ counted + panics = Count(call, {"done"})
  <2>1. PICK c, d : c = call /\ d = call'
    OBVIOUS
  <2>2. /\ Count(c, Inside) \in Nat /\ Count(d, Inside) \in Nat
        /\ Count(c, {"done"}) \in Nat /\ Count(d, {"done"}) \in Nat
    BY <1>0, <2>1, CountMoves
  <2>3. QED BY <2>1, <2>2, CountsAre DEF IInv, MetricsAddUp
<1>2. /\ call[r].pc \in Inside /\ l.pc \notin Inside
           => Count(call, Inside) = Count(call', Inside) + 1
      /\ call[r].pc \notin Inside /\ l.pc \in Inside
           => Count(call', Inside) = Count(call, Inside) + 1
      /\ (call[r].pc \in Inside <=> l.pc \in Inside)
           => Count(call', Inside) = Count(call, Inside)
  <2>1. PICK c, d : c = call /\ d = call'
    OBVIOUS
  <2>2. c \in [Calls -> Locals] /\ d = [c EXCEPT ![r] = l] /\ l \in Locals
    BY <1>0, <2>1
  <2>3. Moved(c, d, r, l, Inside)
    BY <2>2, CountMoves
  <2>4. QED BY <2>1, <2>3 DEF Moved
<1>3. /\ call[r].pc # "done" /\ l.pc = "done"
           => Count(call', {"done"}) = Count(call, {"done"}) + 1
      /\ call[r].pc # "done" /\ l.pc # "done"
           => Count(call', {"done"}) = Count(call, {"done"})
  <2>1. PICK c, d : c = call /\ d = call'
    OBVIOUS
  <2>2. c \in [Calls -> Locals] /\ d = [c EXCEPT ![r] = l] /\ l \in Locals
    BY <1>0, <2>1
  <2>3. PICK pcs : pcs = {"done"}
    OBVIOUS
  <2>4. Moved(c, d, r, l, pcs)
    BY <2>2, CountMoves
  <2>5. QED BY <2>1, <2>3, <2>4 DEF Moved
<1>4. /\ inflight' = Count(call', Inside) + panics'
      /\ counted' + panics' = Count(call', {"done"})
      /\ counted' \in Nat /\ panics' \in 0..MaxPanics
  <2>1. MaxPanics \in Nat
    BY ServingBounds
  <2>2. CASE call[r].pc = "unmade" /\ l.pc = "auth" /\ inflight' = inflight + 1
             /\ UNCHANGED <<counted, panics>>
    <3>1. Count(call', Inside) = Count(call, Inside) + 1
      BY <1>2, <2>2 DEF Inside
    <3>2. Count(call', {"done"}) = Count(call, {"done"})
      BY <1>3, <2>2
    <3>3. QED BY <1>0, <1>1, <2>1, <2>2, <3>1, <3>2
  <2>3. CASE /\ call[r].pc \in Inside <=> l.pc \in Inside
             /\ call[r].pc # "done" /\ l.pc # "done" /\ UNCHANGED <<inflight, counted, panics>>
    BY <1>0, <1>1, <1>2, <1>3, <2>1, <2>3
  <2>4. CASE call[r].pc \in Inside /\ l.pc = "done" /\ panics < MaxPanics
             /\ panics' = panics + 1 /\ UNCHANGED <<inflight, counted>>
    <3>1. Count(call, Inside) = Count(call', Inside) + 1
      BY <1>2, <2>4 DEF Inside
    <3>2. Count(call', {"done"}) = Count(call, {"done"}) + 1
      BY <1>3, <2>4 DEF Inside
    <3>3. QED BY <1>0, <1>1, <2>1, <2>4, <3>1, <3>2
  <2>5. CASE call[r].pc = "answer" /\ l.pc = "done"
             /\ inflight' = inflight - 1 /\ counted' = counted + 1 /\ UNCHANGED panics
    <3>1. Count(call, Inside) = Count(call', Inside) + 1
      BY <1>2, <2>5 DEF Inside
    <3>2. Count(call', {"done"}) = Count(call, {"done"}) + 1
      BY <1>3, <2>5
    <3>3. QED BY <1>0, <1>1, <2>1, <2>5, <3>1, <3>2
  <2>6. QED BY <2>2, <2>3, <2>4, <2>5 DEF Forth, Inside
<1>5. MetricsAddUp'
  BY <1>4, CountsAre DEF MetricsAddUp
<1>6. inflight' \in Nat
  <2>1. panics' \in Nat
    BY <1>4, ServingBounds
  <2>2. QED BY <1>1, <1>4, <2>1
<1>7. TypeOK'
  BY <1>0, <1>4, <1>6 DEF IInv, TypeOK, Elsewhere, lifeVars, Locals
<1>8. \A q \in Calls : call'[q] = IF q = r THEN l ELSE call[q]
  BY <1>0
<1>9. Witnessed'
  <2>1. ASSUME NEW q \in Calls, q # r
        PROVE  /\ call'[q].pc = "auth" /\ Entitled(call'[q].kind, session', admin')
                    => call'[q].entitled
               /\ call'[q].pc \in {"validate"} \cup Handling => call'[q].entitled
    BY <1>8, <2>1 DEF IInv, Witnessed, At, Elsewhere
  <2>2. /\ l.pc = "auth" /\ Entitled(l.kind, session', admin') => l.entitled
        /\ l.pc \in {"validate"} \cup Handling => l.entitled
    BY DEF IInv, Witnessed, At, Elsewhere, Forth, Handling, Inside
  <2>3. QED BY <1>8, <2>1, <2>2 DEF Witnessed, At
<1>10. Phases'
  <2>1. serve # "serving" => call[r].pc = "unmade"
    BY DEF IInv, Phases
  <2>2. serve = "serving"
    BY <2>1 DEF Forth, Inside
  <2>3. main \in Closing => l.pc \notin Inside
    BY DEF IInv, Phases, Forth, Inside, Closing
  <2>4. QED BY <1>8, <2>2, <2>3 DEF IInv, Phases, Elsewhere, lifeVars
<1>11. QED BY <1>5, <1>7, <1>9, <1>10 DEF IInv

\* The caller's role changes: every call on its way notes what it makes of it.
LEMMA RoleKeeps ==
  ASSUME IInv, SetRole
  PROVE  IInv'
<1>0. call \in [Calls -> Locals] /\ admin \in BOOLEAN /\ admin' = ~admin
  BY DEF IInv, TypeOK, Locals, SetRole
<1>1. ASSUME NEW q \in Calls
      PROVE  /\ call'[q] \in Locals /\ call'[q].pc = call[q].pc
             /\ call'[q].kind = call[q].kind
             /\ call[q].entitled => call'[q].entitled
             /\ call[q].pc \in Inside /\ Entitled(call[q].kind, session, admin')
                  => call'[q].entitled
  <2>1. CASE call[q].pc \in Inside
    <3>1. PICK e \in BOOLEAN :
                 e = (call[q].entitled \/ Entitled(call[q].kind, session, ~admin))
      OBVIOUS
    <3>2. PICK l : l = [call[q] EXCEPT !.entitled = e]
      OBVIOUS
    <3>3. /\ l \in Locals /\ l.pc = call[q].pc /\ l.kind = call[q].kind
          /\ l.entitled = e
      BY <1>0, <3>2 DEF Locals
    <3>4. call'[q] = l
      BY <2>1, <3>1, <3>2 DEF SetRole, Witness
    <3>5. QED BY <1>0, <3>1, <3>3, <3>4
  <2>2. CASE call[q].pc \notin Inside
    BY <1>0, <2>2 DEF SetRole, Witness
  <2>3. QED BY <2>1, <2>2
<1>2. call' \in [Calls -> Locals]
  BY <1>1 DEF SetRole, Witness
<1>3. /\ Count(call', Inside) = Count(call, Inside)
      /\ Count(call', {"done"}) = Count(call, {"done"})
  <2>1. PICK c, d : c = call /\ d = call'
    OBVIOUS
  <2>2. \A q \in Calls : d[q].pc = c[q].pc
    BY <1>1, <2>1
  <2>3. QED BY <2>1, <2>2, CountStays
<1>4. MetricsAddUp'
  BY <1>3, CountsAre DEF IInv, MetricsAddUp, SetRole
<1>5. TypeOK'
  BY <1>0, <1>2 DEF IInv, TypeOK, SetRole, lifeVars, Locals
<1>6. Witnessed'
  BY <1>1 DEF IInv, Witnessed, At, SetRole, Handling, Inside
<1>7. Phases'
  BY <1>1 DEF IInv, Phases, SetRole, lifeVars
<1>8. QED BY <1>4, <1>5, <1>6, <1>7 DEF IInv

\* The steps of no call.
LEMMA RestKeeps ==
  ASSUME IInv, UNCHANGED callVars, UNCHANGED admin,
         \/ session' = session
         \/ session' = "invalid",
         TypeOK', Phases'
  PROVE  IInv'
<1>1. MetricsAddUp'
  BY CountsAre DEF IInv, MetricsAddUp, callVars
<1>2. Witnessed'
  BY DEF IInv, Witnessed, At, callVars, Entitled
<1>3. QED BY <1>1, <1>2 DEF IInv

LEMMA InitIInv == Init => IInv
<1> SUFFICES ASSUME Init PROVE IInv
  OBVIOUS
<1>1. \A r \in Calls : call[r] = Unmade /\ call[r].pc = "unmade"
  BY UnmadeIsLocal DEF Init
<1>2. call \in [Calls -> Locals]
  BY UnmadeIsLocal DEF Init
<1>3. TypeOK
  BY <1>2, ServingBounds DEF Init, TypeOK, Locals
<1>4. Witnessed
  BY <1>1 DEF Witnessed, At, Handling
<1>5. In(call, Inside) = {} /\ In(call, {"done"}) = {}
  BY <1>1 DEF In, Inside
<1>6. Count(call, Inside) = 0 /\ Count(call, {"done"}) = 0
  BY <1>5, FS_EmptySet DEF Count
<1>7. MetricsAddUp
  BY <1>6, CountsAre DEF Init, MetricsAddUp
<1>8. Phases
  BY <1>1 DEF Init, Phases, Closing
<1>9. QED BY <1>3, <1>4, <1>7, <1>8 DEF IInv

LEMMA NextIInv == IInv /\ [Next]_vars => IInv'
<1> SUFFICES ASSUME IInv, [Next]_vars PROVE IInv'
  OBVIOUS
<1>1. CASE UNCHANGED vars
  <2>1. TypeOK'
    BY <1>1 DEF IInv, TypeOK, vars, callVars, lifeVars
  <2>2. Phases'
    BY <1>1 DEF IInv, Phases, vars, callVars, lifeVars
  <2>3. QED BY <1>1, <2>1, <2>2, RestKeeps DEF vars
<1>2. CASE Revoke
  <2>1. TypeOK'
    BY <1>2 DEF IInv, TypeOK, Revoke, callVars, lifeVars
  <2>2. Phases'
    BY <1>2 DEF IInv, Phases, Revoke, callVars, lifeVars
  <2>3. QED BY <1>2, <2>1, <2>2, RestKeeps DEF Revoke
<1>3. ASSUME NEW r \in Calls, Proceed(r) \/ Client(r) PROVE IInv'
  BY <1>3, CallSteps, CallKeeps DEF IInv
<1>4. ASSUME NEW b \in Loops, Loop(b) PROVE IInv'
  <2>1. TypeOK'
    BY <1>4 DEF IInv, TypeOK, Loop, Tick, QueryEnds, StopLoop, callVars, lifeVars
  <2>2. \A d \in Loops : loop'[d] = "querying" => loop[d] = "querying" \/ main = "serving"
    BY <1>4 DEF IInv, TypeOK, Loop, Tick, QueryEnds, StopLoop, Cancelled
  <2>3. UNCHANGED callVars /\ UNCHANGED lifeVars /\ UNCHANGED <<session, admin>>
    BY <1>4 DEF Loop, Tick, QueryEnds, StopLoop
  <2>4. Phases'
    BY <2>2, <2>3 DEF IInv, Phases, callVars, lifeVars
  <2>5. QED BY <2>1, <2>3, <2>4, RestKeeps
<1>5. CASE Serve \/ Signal \/ Shutdown
  <2>1. UNCHANGED callVars /\ UNCHANGED <<session, admin, loop>>
    BY <1>5
       DEF Serve, Signal, Shutdown, HealthDown, GracefulStop, ForceStop, StopReturns,
           CloseObs, ClosePool, CloseCache, CloseDispatchers
  <2>2. TypeOK'
    BY <1>5, <2>1, ZenonT(60)
       DEF IInv, TypeOK, callVars, Serve, Signal, Shutdown, HealthDown, GracefulStop,
           ForceStop, StopReturns, CloseObs, ClosePool, CloseCache, CloseDispatchers
  <2>3. Phases'
    <3>1. CASE Serve
      BY <2>1, <3>1 DEF IInv, TypeOK, Phases, callVars, Serve, Closing, Inside
    <3>2. CASE Signal \/ HealthDown \/ GracefulStop \/ ForceStop
      BY <2>1, <3>2
         DEF IInv, TypeOK, Phases, callVars, Signal, HealthDown, GracefulStop, ForceStop,
             Closing
    <3>3. CASE StopReturns \/ CloseObs \/ ClosePool
      BY <2>1, <3>3
         DEF IInv, TypeOK, Phases, callVars, StopReturns, Drained, CloseObs, ClosePool,
             Closing
    <3>4. CASE CloseCache \/ CloseDispatchers
      BY <2>1, <3>4
         DEF IInv, TypeOK, Phases, callVars, CloseCache, CloseDispatchers, Closing
    <3>5. QED BY <1>5, <3>1, <3>2, <3>3, <3>4 DEF Shutdown
  <2>4. QED BY <2>1, <2>2, <2>3, RestKeeps
<1>6. QED BY <1>1, <1>2, <1>3, <1>4, <1>5, RoleKeeps DEF Next

LEMMA IInvAlways == Spec => []IInv
<1>1. QED BY InitIInv, NextIInv, PTL DEF Spec

-----------------------------------------------------------------------------
(***************************************************************************)
(* The theorems                                                            *)
(***************************************************************************)
\* The API process: every variable has its type, and the gauge of calls in
\* flight never falls below zero.
THEOREM TypeCorrect == Spec => []TypeOK
<1>1. IInv => TypeOK
  BY DEF IInv
<1>2. QED BY <1>1, IInvAlways, PTL

\* authUnary and authStream: a handler runs only for a caller who was entitled
\* to its method at some time since the call arrived.
THEOREM HandlersAreEntitled == Spec => []HandlerEntitled
<1>1. IInv => HandlerEntitled
  BY DEF IInv, Witnessed, HandlerEntitled
<1>2. QED BY <1>1, IInvAlways, PTL

\* metricsUnary and metricsStream: gauge and counter account for every call,
\* but for those that panicked.
THEOREM MetricsAccount == Spec => []MetricsAddUp
<1>1. IInv => MetricsAddUp
  BY DEF IInv
<1>2. QED BY <1>1, IInvAlways, PTL

\* AwaitShutdown: nothing is closed under a call or a query.
THEOREM ShutdownInOrder == Spec => []ClosedInOrder
<1>1. ASSUME IInv PROVE ClosedInOrder
  <2>1. pool = "closed" => Running = 0
    <3>1. SUFFICES ASSUME pool = "closed" PROVE In(call, Inside) = {}
      BY CountsAre, FS_EmptySet DEF Count
    <3>2. QED BY <1>1, <3>1 DEF IInv, Phases, Closing, In
  <2>2. QED BY <1>1, <2>1 DEF IInv, Phases, ClosedInOrder
<1>2. QED BY <1>1, IInvAlways, PTL

-----------------------------------------------------------------------------
(***************************************************************************)
(* The gateway's table of routes: its seven parts joined                   *)
(***************************************************************************)
\* A table s of n rows.
Table(s, n) == n \in Nat /\ s \in [1..n -> Range(s)]

LEMMA TablesAre ==
  /\ Table(SignInRoutes, 4) /\ Table(CredentialRoutes, 5) /\ Table(DeviceRoutes, 2)
  /\ Table(ProfileRoutes, 4) /\ Table(PreferenceRoutes, 5) /\ Table(AdminRoutes, 5)
  /\ Table(HealthRoutes, 2)
<1>1. Table(SignInRoutes, 4)
  BY DEF SignInRoutes, Table, Range
<1>2. Table(CredentialRoutes, 5)
  BY DEF CredentialRoutes, Table, Range
<1>3. Table(DeviceRoutes, 2)
  BY DEF DeviceRoutes, Table, Range
<1>4. Table(ProfileRoutes, 4)
  BY DEF ProfileRoutes, Table, Range
<1>5. Table(PreferenceRoutes, 5)
  BY DEF PreferenceRoutes, Table, Range
<1>6. Table(AdminRoutes, 5)
  BY DEF AdminRoutes, Table, Range
<1>7. Table(HealthRoutes, 2)
  BY DEF HealthRoutes, Table, Range
<1>8. QED BY <1>1, <1>2, <1>3, <1>4, <1>5, <1>6, <1>7

\* u is s, of m rows, with the n rows of t after them.
Joined(s, m, t, n, u) ==
  /\ Table(u, m + n)
  /\ \A i \in 1..m : u[i] = s[i]
  /\ \A i \in 1..n : u[m + i] = t[i]

LEMMA Joins ==
  ASSUME NEW s, NEW t, NEW m, NEW n, Table(s, m), Table(t, n)
  PROVE  Joined(s, m, t, n, s \o t)
<1> DEFINE S == Range(s) \cup Range(t)
<1>1. m \in Nat /\ n \in Nat /\ s \in [1..m -> S] /\ t \in [1..n -> S]
  BY DEF Table
<1> HIDE DEF S
<1>2. s \in Seq(S) /\ t \in Seq(S) /\ Len(s) = m /\ Len(t) = n
  BY <1>1, SeqDef
<1>3. PICK u, k : u = s \o t /\ k = m + n
  OBVIOUS
<1>4. /\ u \in Seq(S) /\ Len(u) = k
      /\ \A i \in 1..k : u[i] = IF i <= m THEN s[i] ELSE t[i - m]
  BY <1>2, <1>3, ConcatProperties
<1>6. \A i \in 1..m : i \in 1..k /\ i <= m
  BY <1>1, <1>3
<1>7. u \in [1..k -> S]
  BY <1>4, LenProperties
<1>8. Table(u, k)
  <2>1. k \in Nat
    BY <1>1, <1>3
  <2>2. \A i \in 1..k : u[i] \in Range(u)
    BY <1>7 DEF Range
  <2>3. QED BY <1>7, <2>1, <2>2 DEF Table
<1>9. \A i \in 1..m : u[i] = s[i]
  BY <1>4, <1>6
<1>10. \A i \in 1..n : u[m + i] = t[i]
  <2>1. SUFFICES ASSUME NEW i \in 1..n PROVE u[m + i] = t[i]
    OBVIOUS
  <2>2. PICK h : h = m + i
    OBVIOUS
  <2>3. h \in 1..k /\ ~(h <= m) /\ h - m = i
    BY <1>1, <1>3, <2>2
  <2>4. QED BY <1>4, <2>2, <2>3
<1>11. Joined(s, m, t, n, u)
  BY <1>3, <1>8, <1>9, <1>10 DEF Joined
<1>12. QED BY <1>3, <1>11

\* Which row of which part each row of Routes is.
LEMMA RowsAt ==
  /\ DOMAIN Routes = 1..27
  /\ \A i \in 1..4 : Routes[i] = SignInRoutes[i]
  /\ \A i \in 1..5 : Routes[4 + i] = CredentialRoutes[i]
  /\ \A i \in 1..2 : Routes[9 + i] = DeviceRoutes[i]
  /\ \A i \in 1..4 : Routes[11 + i] = ProfileRoutes[i]
  /\ \A i \in 1..5 : Routes[15 + i] = PreferenceRoutes[i]
  /\ \A i \in 1..5 : Routes[20 + i] = AdminRoutes[i]
  /\ \A i \in 1..2 : Routes[25 + i] = HealthRoutes[i]
<1>1. PICK a : a = SignInRoutes \o CredentialRoutes
  OBVIOUS
<1>2. PICK b : b = a \o DeviceRoutes
  OBVIOUS
<1>3. PICK c : c = b \o ProfileRoutes
  OBVIOUS
<1>4. PICK d : d = c \o PreferenceRoutes
  OBVIOUS
<1>5. PICK e : e = d \o AdminRoutes
  OBVIOUS
<1>6. Routes = e \o HealthRoutes
  BY <1>1, <1>2, <1>3, <1>4, <1>5 DEF Routes
<1>7. Joined(SignInRoutes, 4, CredentialRoutes, 5, a)
  BY <1>1, Joins, TablesAre
<1>8. Table(a, 9)
  BY <1>7 DEF Joined
<1>9. Joined(a, 9, DeviceRoutes, 2, b)
  BY <1>2, <1>8, Joins, TablesAre
<1>10. Table(b, 11)
  BY <1>9 DEF Joined
<1>11. Joined(b, 11, ProfileRoutes, 4, c)
  BY <1>3, <1>10, Joins, TablesAre
<1>12. Table(c, 15)
  BY <1>11 DEF Joined
<1>13. Joined(c, 15, PreferenceRoutes, 5, d)
  BY <1>4, <1>12, Joins, TablesAre
<1>14. Table(d, 20)
  BY <1>13 DEF Joined
<1>15. Joined(d, 20, AdminRoutes, 5, e)
  BY <1>5, <1>14, Joins, TablesAre
<1>16. Table(e, 25)
  BY <1>15 DEF Joined
<1>17. Joined(e, 25, HealthRoutes, 2, Routes)
  BY <1>6, <1>16, Joins, TablesAre
<1>18. Table(Routes, 27)
  BY <1>17 DEF Joined
<1>19. DOMAIN Routes = 1..27
  BY <1>18 DEF Table
<1>20. QED BY <1>7, <1>9, <1>11, <1>13, <1>15, <1>17, <1>19 DEF Joined

Proper(path) == Len(path) \in Nat /\ DOMAIN path = 1..Len(path)

\* The path p matches a path of two to five words or parameters.
Shape2(p, a, b) == Len(p) = 2 /\ a \in {p[1], Param} /\ b \in {p[2], Param}
Shape3(p, a, b, c) ==
  /\ Len(p) = 3
  /\ a \in {p[1], Param} /\ b \in {p[2], Param} /\ c \in {p[3], Param}
Shape4(p, a, b, c, d) ==
  /\ Len(p) = 4 /\ a \in {p[1], Param} /\ b \in {p[2], Param}
  /\ c \in {p[3], Param} /\ d \in {p[4], Param}
Shape5(p, a, b, c, d, e) ==
  /\ Len(p) = 5 /\ a \in {p[1], Param} /\ b \in {p[2], Param}
  /\ c \in {p[3], Param} /\ d \in {p[4], Param} /\ e \in {p[5], Param}

LEMMA Shapes2 ==
  ASSUME NEW v, NEW r, NEW p, Proper(p), NEW a, NEW b,
         MatchesPath(Rt(v, <<a, b>>, r), p)
  PROVE  Shape2(p, a, b)
<1>1. Len(p) = 2 /\ DOMAIN p = 1..2
  BY DEF Rt, MatchesPath, Proper
<1>2. \A i \in 1..2 : <<a, b>>[i] \in {p[i], Param}
  BY <1>1 DEF Rt, MatchesPath
<1>3. QED BY <1>1, <1>2 DEF Shape2

LEMMA Shapes3 ==
  ASSUME NEW v, NEW r, NEW p, Proper(p), NEW a, NEW b, NEW c,
         MatchesPath(Rt(v, <<a, b, c>>, r), p)
  PROVE  Shape3(p, a, b, c)
<1>1. Len(p) = 3 /\ DOMAIN p = 1..3
  BY DEF Rt, MatchesPath, Proper
<1>2. \A i \in 1..3 : <<a, b, c>>[i] \in {p[i], Param}
  BY <1>1 DEF Rt, MatchesPath
<1>3. QED BY <1>1, <1>2 DEF Shape3

LEMMA Shapes4 ==
  ASSUME NEW v, NEW r, NEW p, Proper(p), NEW a, NEW b, NEW c, NEW d,
         MatchesPath(Rt(v, <<a, b, c, d>>, r), p)
  PROVE  Shape4(p, a, b, c, d)
<1>1. Len(p) = 4 /\ DOMAIN p = 1..4
  BY DEF Rt, MatchesPath, Proper
<1>2. \A i \in 1..4 : <<a, b, c, d>>[i] \in {p[i], Param}
  BY <1>1 DEF Rt, MatchesPath
<1>3. QED BY <1>1, <1>2 DEF Shape4

LEMMA Shapes5 ==
  ASSUME NEW v, NEW r, NEW p, Proper(p), NEW a, NEW b, NEW c, NEW d, NEW e,
         MatchesPath(Rt(v, <<a, b, c, d, e>>, r), p)
  PROVE  Shape5(p, a, b, c, d, e)
<1>1. Len(p) = 5 /\ DOMAIN p = 1..5
  BY DEF Rt, MatchesPath, Proper
<1>2. \A i \in 1..5 : <<a, b, c, d, e>>[i] \in {p[i], Param}
  BY <1>1 DEF Rt, MatchesPath
<1>3. QED BY <1>1, <1>2 DEF Shape5

\* What a request with verb v and path p has when it matches row i.
SignInShape(v, p, i) ==
  /\ i = 1 => v = "POST" /\ Shape3(p, "v1", "auth", "register")
  /\ i = 2 => v = "POST" /\ Shape3(p, "v1", "auth", "login")
  /\ i = 3 => v = "POST" /\ Shape4(p, "v1", "auth", "token", "refresh")
  /\ i = 4 => v = "POST" /\ Shape3(p, "v1", "auth", "logout")

CredentialShape(v, p, i) ==
  /\ i = 1 => v = "POST" /\ Shape4(p, "v1", "auth", "email", "verify")
  /\ i = 2 => v = "POST" /\ Shape4(p, "v1", "auth", "email", "resend")
  /\ i = 3 => v = "POST" /\ Shape4(p, "v1", "auth", "password", "reset-request")
  /\ i = 4 => v = "POST" /\ Shape4(p, "v1", "auth", "password", "reset")
  /\ i = 5 => v = "POST" /\ Shape4(p, "v1", "auth", "password", "change")

DeviceShape(v, p, i) ==
  /\ i = 1 => v = "GET" /\ Shape3(p, "v1", "auth", "devices")
  /\ i = 2 => v = "DELETE" /\ Shape4(p, "v1", "auth", "devices", Param)

ProfileShape(v, p, i) ==
  /\ i = 1 => v = "GET" /\ Shape3(p, "v1", "users", Param)
  /\ i = 2 => v = "GET" /\ Shape3(p, "v1", "users", "me")
  /\ i = 3 => v = "PATCH" /\ Shape3(p, "v1", "users", "me")
  /\ i = 4 => v = "DELETE" /\ Shape3(p, "v1", "users", "me")

PreferenceShape(v, p, i) ==
  /\ i = 1 => v = "GET" /\ Shape4(p, "v1", "users", "me", "settings")
  /\ i = 2 => v = "PUT" /\ Shape4(p, "v1", "users", "me", "settings")
  /\ i = 3 => v = "POST" /\ Shape4(p, "v1", "users", "me", "push-tokens")
  /\ i = 4 => v = "GET" /\ Shape4(p, "v1", "users", "me", "notification-preferences")
  /\ i = 5 => v = "PUT" /\ Shape4(p, "v1", "users", "me", "notification-preferences")

AdminShape(v, p, i) ==
  /\ i = 1 => v = "GET" /\ Shape3(p, "v1", "admin", "users")
  /\ i = 2 => v = "GET" /\ Shape4(p, "v1", "admin", "users", Param)
  /\ i = 3 => v = "POST" /\ Shape5(p, "v1", "admin", "users", Param, "suspend")
  /\ i = 4 => v = "POST" /\ Shape5(p, "v1", "admin", "users", Param, "unsuspend")
  /\ i = 5 => v = "PUT" /\ Shape5(p, "v1", "admin", "users", Param, "role")

HealthShape(v, p, i) ==
  /\ i = 1 => v = "GET" /\ Shape2(p, "v1", "health")
  /\ i = 2 => v = "GET" /\ Shape3(p, "v1", "health", "ready")

LEMMA SignInShapes ==
  ASSUME NEW v, NEW p, Proper(p), NEW i \in 1..4,
         SignInRoutes[i].verb = v, MatchesPath(SignInRoutes[i], p)
  PROVE  SignInShape(v, p, i)
<1>1. /\ i = 1 => Shape3(p, "v1", "auth", "register")
      /\ i = 2 => Shape3(p, "v1", "auth", "login")
      /\ i = 3 => Shape4(p, "v1", "auth", "token", "refresh")
      /\ i = 4 => Shape3(p, "v1", "auth", "logout")
  BY Shapes3, Shapes4 DEF SignInRoutes
<1>2. /\ i = 1 => v = "POST"
      /\ i = 2 => v = "POST"
      /\ i = 3 => v = "POST"
      /\ i = 4 => v = "POST"
  BY DEF SignInRoutes, Rt
<1>3. QED BY <1>1, <1>2 DEF SignInShape

LEMMA CredentialShapes ==
  ASSUME NEW v, NEW p, Proper(p), NEW i \in 1..5,
         CredentialRoutes[i].verb = v, MatchesPath(CredentialRoutes[i], p)
  PROVE  CredentialShape(v, p, i)
<1>1. /\ i = 1 => Shape4(p, "v1", "auth", "email", "verify")
      /\ i = 2 => Shape4(p, "v1", "auth", "email", "resend")
      /\ i = 3 => Shape4(p, "v1", "auth", "password", "reset-request")
      /\ i = 4 => Shape4(p, "v1", "auth", "password", "reset")
      /\ i = 5 => Shape4(p, "v1", "auth", "password", "change")
  BY Shapes4 DEF CredentialRoutes
<1>2. /\ i = 1 => v = "POST"
      /\ i = 2 => v = "POST"
      /\ i = 3 => v = "POST"
      /\ i = 4 => v = "POST"
      /\ i = 5 => v = "POST"
  BY DEF CredentialRoutes, Rt
<1>3. QED BY <1>1, <1>2 DEF CredentialShape

LEMMA DeviceShapes ==
  ASSUME NEW v, NEW p, Proper(p), NEW i \in 1..2,
         DeviceRoutes[i].verb = v, MatchesPath(DeviceRoutes[i], p)
  PROVE  DeviceShape(v, p, i)
<1>1. /\ i = 1 => Shape3(p, "v1", "auth", "devices")
      /\ i = 2 => Shape4(p, "v1", "auth", "devices", Param)
  BY Shapes3, Shapes4 DEF DeviceRoutes
<1>2. /\ i = 1 => v = "GET"
      /\ i = 2 => v = "DELETE"
  BY DEF DeviceRoutes, Rt
<1>3. QED BY <1>1, <1>2 DEF DeviceShape

LEMMA ProfileShapes ==
  ASSUME NEW v, NEW p, Proper(p), NEW i \in 1..4,
         ProfileRoutes[i].verb = v, MatchesPath(ProfileRoutes[i], p)
  PROVE  ProfileShape(v, p, i)
<1>1. /\ i = 1 => Shape3(p, "v1", "users", Param)
      /\ i = 2 => Shape3(p, "v1", "users", "me")
      /\ i = 3 => Shape3(p, "v1", "users", "me")
      /\ i = 4 => Shape3(p, "v1", "users", "me")
  BY Shapes3 DEF ProfileRoutes
<1>2. /\ i = 1 => v = "GET"
      /\ i = 2 => v = "GET"
      /\ i = 3 => v = "PATCH"
      /\ i = 4 => v = "DELETE"
  BY DEF ProfileRoutes, Rt
<1>3. QED BY <1>1, <1>2 DEF ProfileShape

LEMMA PreferenceShapes ==
  ASSUME NEW v, NEW p, Proper(p), NEW i \in 1..5,
         PreferenceRoutes[i].verb = v, MatchesPath(PreferenceRoutes[i], p)
  PROVE  PreferenceShape(v, p, i)
<1>1. /\ i = 1 => Shape4(p, "v1", "users", "me", "settings")
      /\ i = 2 => Shape4(p, "v1", "users", "me", "settings")
      /\ i = 3 => Shape4(p, "v1", "users", "me", "push-tokens")
      /\ i = 4 => Shape4(p, "v1", "users", "me", "notification-preferences")
      /\ i = 5 => Shape4(p, "v1", "users", "me", "notification-preferences")
  BY Shapes4 DEF PreferenceRoutes
<1>2. /\ i = 1 => v = "GET"
      /\ i = 2 => v = "PUT"
      /\ i = 3 => v = "POST"
      /\ i = 4 => v = "GET"
      /\ i = 5 => v = "PUT"
  BY DEF PreferenceRoutes, Rt
<1>3. QED BY <1>1, <1>2 DEF PreferenceShape

LEMMA AdminShapes ==
  ASSUME NEW v, NEW p, Proper(p), NEW i \in 1..5,
         AdminRoutes[i].verb = v, MatchesPath(AdminRoutes[i], p)
  PROVE  AdminShape(v, p, i)
<1>1. /\ i = 1 => Shape3(p, "v1", "admin", "users")
      /\ i = 2 => Shape4(p, "v1", "admin", "users", Param)
      /\ i = 3 => Shape5(p, "v1", "admin", "users", Param, "suspend")
      /\ i = 4 => Shape5(p, "v1", "admin", "users", Param, "unsuspend")
      /\ i = 5 => Shape5(p, "v1", "admin", "users", Param, "role")
  BY Shapes3, Shapes4, Shapes5 DEF AdminRoutes
<1>2. /\ i = 1 => v = "GET"
      /\ i = 2 => v = "GET"
      /\ i = 3 => v = "POST"
      /\ i = 4 => v = "POST"
      /\ i = 5 => v = "PUT"
  BY DEF AdminRoutes, Rt
<1>3. QED BY <1>1, <1>2 DEF AdminShape

LEMMA HealthShapes ==
  ASSUME NEW v, NEW p, Proper(p), NEW i \in 1..2,
         HealthRoutes[i].verb = v, MatchesPath(HealthRoutes[i], p)
  PROVE  HealthShape(v, p, i)
<1>1. /\ i = 1 => Shape2(p, "v1", "health")
      /\ i = 2 => Shape3(p, "v1", "health", "ready")
  BY Shapes2, Shapes3 DEF HealthRoutes
<1>2. /\ i = 1 => v = "GET"
      /\ i = 2 => v = "GET"
  BY DEF HealthRoutes, Rt
<1>3. QED BY <1>1, <1>2 DEF HealthShape

\* The shape of all rows.
RowShape(v, p, i) ==
  /\ i \in 1..4 => SignInShape(v, p, i)
  /\ i \in 5..9 => CredentialShape(v, p, i - 4)
  /\ i \in 10..11 => DeviceShape(v, p, i - 9)
  /\ i \in 12..15 => ProfileShape(v, p, i - 11)
  /\ i \in 16..20 => PreferenceShape(v, p, i - 15)
  /\ i \in 21..25 => AdminShape(v, p, i - 20)
  /\ i \in 26..27 => HealthShape(v, p, i - 25)

LEMMA MatchShapes ==
  ASSUME NEW q, Proper(q.path), NEW i \in Matching(q)
  PROVE  i \in 1..27 /\ RowShape(q.verb, q.path, i)
<1>1. i \in 1..27 /\ Routes[i].verb = q.verb /\ MatchesPath(Routes[i], q.path)
  BY RowsAt DEF Matching
<1>2. i \in 1..4 => SignInShape(q.verb, q.path, i)
  <2>1. SUFFICES ASSUME i \in 1..4 PROVE SignInShape(q.verb, q.path, i)
    OBVIOUS
  <2>2. PICK k \in 1..4 : k = i /\ 0 + k = i
    BY <2>1
  <2>3. Routes[i] = SignInRoutes[k]
    BY <2>2, RowsAt
  <2>4. QED BY <1>1, <2>2, <2>3, SignInShapes
<1>3. i \in 5..9 => CredentialShape(q.verb, q.path, i - 4)
  <2>1. SUFFICES ASSUME i \in 5..9 PROVE CredentialShape(q.verb, q.path, i - 4)
    OBVIOUS
  <2>2. PICK k \in 1..5 : k = i - 4 /\ 4 + k = i
    BY <2>1
  <2>3. Routes[i] = CredentialRoutes[k]
    BY <2>2, RowsAt
  <2>4. QED BY <1>1, <2>2, <2>3, CredentialShapes
<1>4. i \in 10..11 => DeviceShape(q.verb, q.path, i - 9)
  <2>1. SUFFICES ASSUME i \in 10..11 PROVE DeviceShape(q.verb, q.path, i - 9)
    OBVIOUS
  <2>2. PICK k \in 1..2 : k = i - 9 /\ 9 + k = i
    BY <2>1
  <2>3. Routes[i] = DeviceRoutes[k]
    BY <2>2, RowsAt
  <2>4. QED BY <1>1, <2>2, <2>3, DeviceShapes
<1>5. i \in 12..15 => ProfileShape(q.verb, q.path, i - 11)
  <2>1. SUFFICES ASSUME i \in 12..15 PROVE ProfileShape(q.verb, q.path, i - 11)
    OBVIOUS
  <2>2. PICK k \in 1..4 : k = i - 11 /\ 11 + k = i
    BY <2>1
  <2>3. Routes[i] = ProfileRoutes[k]
    BY <2>2, RowsAt
  <2>4. QED BY <1>1, <2>2, <2>3, ProfileShapes
<1>6. i \in 16..20 => PreferenceShape(q.verb, q.path, i - 15)
  <2>1. SUFFICES ASSUME i \in 16..20 PROVE PreferenceShape(q.verb, q.path, i - 15)
    OBVIOUS
  <2>2. PICK k \in 1..5 : k = i - 15 /\ 15 + k = i
    BY <2>1
  <2>3. Routes[i] = PreferenceRoutes[k]
    BY <2>2, RowsAt
  <2>4. QED BY <1>1, <2>2, <2>3, PreferenceShapes
<1>7. i \in 21..25 => AdminShape(q.verb, q.path, i - 20)
  <2>1. SUFFICES ASSUME i \in 21..25 PROVE AdminShape(q.verb, q.path, i - 20)
    OBVIOUS
  <2>2. PICK k \in 1..5 : k = i - 20 /\ 20 + k = i
    BY <2>1
  <2>3. Routes[i] = AdminRoutes[k]
    BY <2>2, RowsAt
  <2>4. QED BY <1>1, <2>2, <2>3, AdminShapes
<1>8. i \in 26..27 => HealthShape(q.verb, q.path, i - 25)
  <2>1. SUFFICES ASSUME i \in 26..27 PROVE HealthShape(q.verb, q.path, i - 25)
    OBVIOUS
  <2>2. PICK k \in 1..2 : k = i - 25 /\ 25 + k = i
    BY <2>1
  <2>3. Routes[i] = HealthRoutes[k]
    BY <2>2, RowsAt
  <2>4. QED BY <1>1, <2>2, <2>3, HealthShapes
<1>9. QED BY <1>1, <1>2, <1>3, <1>4, <1>5, <1>6, <1>7, <1>8 DEF RowShape

\* Only GetUser and GetMe have a request in common.
LEMMA ShapesApart ==
  ASSUME NEW v, NEW p, NEW i \in 1..27, NEW j \in 1..27, RowShape(v, p, i),
         RowShape(v, p, j), i < j
  PROVE  i = 12 /\ j = 13
BY DEF RowShape, Shape2, Shape3, Shape4, Shape5, Param, SignInShape, CredentialShape, DeviceShape, ProfileShape, PreferenceShape, AdminShape, HealthShape

-----------------------------------------------------------------------------
(***************************************************************************)
(* The rows                                                                *)
(***************************************************************************)
Rpcs == UNION {DOMAIN t : t \in Tables}

\* A row has no parameter but at k.
OnlyAt(row, k) == \A x \in Params(row) : x = k

\* A row's path is a sequence with one parameter at most, and its method is
\* registered and has no stream.
Plain(row) ==
  /\ Proper(row.path) /\ (OnlyAt(row, 3) \/ OnlyAt(row, 4))
  /\ row.rpc \in Rpcs /\ row.rpc # "UploadAvatar"

LEMMA Only2 ==
  ASSUME NEW v, NEW r, NEW a, NEW b, a # Param, b # Param
  PROVE  OnlyAt(Rt(v, <<a, b>>, r), 3)
<1>1. SUFFICES ASSUME NEW i \in Params(Rt(v, <<a, b>>, r)) PROVE i = 3
  BY DEF OnlyAt
<1>2. i \in 1..2 /\ <<a, b>>[i] = Param
  BY DEF Params, Rt
<1>3. QED BY <1>2

LEMMA Only3 ==
  ASSUME NEW v, NEW r, NEW a, NEW b, NEW c, a # Param, b # Param
  PROVE  OnlyAt(Rt(v, <<a, b, c>>, r), 3)
<1>1. SUFFICES ASSUME NEW i \in Params(Rt(v, <<a, b, c>>, r)) PROVE i = 3
  BY DEF OnlyAt
<1>2. i \in 1..3 /\ <<a, b, c>>[i] = Param
  BY DEF Params, Rt
<1>3. QED BY <1>2

LEMMA Only4 ==
  ASSUME NEW v, NEW r, NEW a, NEW b, NEW c, NEW d, a # Param, b # Param, c # Param
  PROVE  OnlyAt(Rt(v, <<a, b, c, d>>, r), 4)
<1>1. SUFFICES ASSUME NEW i \in Params(Rt(v, <<a, b, c, d>>, r)) PROVE i = 4
  BY DEF OnlyAt
<1>2. i \in 1..4 /\ <<a, b, c, d>>[i] = Param
  BY DEF Params, Rt
<1>3. QED BY <1>2

LEMMA Only5 ==
  ASSUME NEW v, NEW r, NEW a, NEW b, NEW c, NEW d, NEW e, a # Param, b # Param, c # Param, e # Param
  PROVE  OnlyAt(Rt(v, <<a, b, c, d, e>>, r), 4)
<1>1. SUFFICES ASSUME NEW i \in Params(Rt(v, <<a, b, c, d, e>>, r)) PROVE i = 4
  BY DEF OnlyAt
<1>2. i \in 1..5 /\ <<a, b, c, d, e>>[i] = Param
  BY DEF Params, Rt
<1>3. QED BY <1>2

LEMMA RpcsAre ==
  Rpcs = DOMAIN AuthMethods \cup DOMAIN OwnAuthMethods \cup DOMAIN ProfileMethods
           \cup DOMAIN PreferenceMethods \cup DOMAIN AdminMethods \cup DOMAIN HealthMethods
BY DEF Rpcs, Tables

LEMMA RowsPlain == \A i \in 1..27 : Plain(Routes[i])
<1>1. \A i \in 1..4 : Plain(SignInRoutes[i])
  <2>1. \A i \in 1..4 : Proper(SignInRoutes[i].path)
    BY DEF SignInRoutes, Rt, Proper
  <2>2. /\ OnlyAt(SignInRoutes[1], 3) /\ OnlyAt(SignInRoutes[2], 3)
        /\ OnlyAt(SignInRoutes[3], 4) /\ OnlyAt(SignInRoutes[4], 3)
    BY Only3, Only4 DEF SignInRoutes, Param
  <2>3. \A i \in 1..4 : SignInRoutes[i].rpc \in Rpcs /\ SignInRoutes[i].rpc # "UploadAvatar"
    BY RpcsAre DEF SignInRoutes, Rt, AuthMethods, OwnAuthMethods, ProfileMethods,
                   PreferenceMethods, AdminMethods, HealthMethods
  <2>4. QED BY <2>1, <2>2, <2>3 DEF Plain
<1>2. \A i \in 1..5 : Plain(CredentialRoutes[i])
  <2>1. \A i \in 1..5 : Proper(CredentialRoutes[i].path)
    BY DEF CredentialRoutes, Rt, Proper
  <2>2. /\ OnlyAt(CredentialRoutes[1], 4) /\ OnlyAt(CredentialRoutes[2], 4)
        /\ OnlyAt(CredentialRoutes[3], 4) /\ OnlyAt(CredentialRoutes[4], 4)
        /\ OnlyAt(CredentialRoutes[5], 4)
    BY Only4 DEF CredentialRoutes, Param
  <2>3. \A i \in 1..5 : CredentialRoutes[i].rpc \in Rpcs /\ CredentialRoutes[i].rpc # "UploadAvatar"
    BY RpcsAre DEF CredentialRoutes, Rt, AuthMethods, OwnAuthMethods, ProfileMethods,
                   PreferenceMethods, AdminMethods, HealthMethods
  <2>4. QED BY <2>1, <2>2, <2>3 DEF Plain
<1>3. \A i \in 1..2 : Plain(DeviceRoutes[i])
  <2>1. \A i \in 1..2 : Proper(DeviceRoutes[i].path)
    BY DEF DeviceRoutes, Rt, Proper
  <2>2. /\ OnlyAt(DeviceRoutes[1], 3) /\ OnlyAt(DeviceRoutes[2], 4)
    BY Only3, Only4 DEF DeviceRoutes, Param
  <2>3. \A i \in 1..2 : DeviceRoutes[i].rpc \in Rpcs /\ DeviceRoutes[i].rpc # "UploadAvatar"
    BY RpcsAre DEF DeviceRoutes, Rt, AuthMethods, OwnAuthMethods, ProfileMethods,
                   PreferenceMethods, AdminMethods, HealthMethods
  <2>4. QED BY <2>1, <2>2, <2>3 DEF Plain
<1>4. \A i \in 1..4 : Plain(ProfileRoutes[i])
  <2>1. \A i \in 1..4 : Proper(ProfileRoutes[i].path)
    BY DEF ProfileRoutes, Rt, Proper
  <2>2. /\ OnlyAt(ProfileRoutes[1], 3) /\ OnlyAt(ProfileRoutes[2], 3)
        /\ OnlyAt(ProfileRoutes[3], 3) /\ OnlyAt(ProfileRoutes[4], 3)
    BY Only3 DEF ProfileRoutes, Param
  <2>3. \A i \in 1..4 : ProfileRoutes[i].rpc \in Rpcs /\ ProfileRoutes[i].rpc # "UploadAvatar"
    BY RpcsAre DEF ProfileRoutes, Rt, AuthMethods, OwnAuthMethods, ProfileMethods,
                   PreferenceMethods, AdminMethods, HealthMethods
  <2>4. QED BY <2>1, <2>2, <2>3 DEF Plain
<1>5. \A i \in 1..5 : Plain(PreferenceRoutes[i])
  <2>1. \A i \in 1..5 : Proper(PreferenceRoutes[i].path)
    BY DEF PreferenceRoutes, Rt, Proper
  <2>2. /\ OnlyAt(PreferenceRoutes[1], 4) /\ OnlyAt(PreferenceRoutes[2], 4)
        /\ OnlyAt(PreferenceRoutes[3], 4) /\ OnlyAt(PreferenceRoutes[4], 4)
        /\ OnlyAt(PreferenceRoutes[5], 4)
    BY Only4 DEF PreferenceRoutes, Param
  <2>3. \A i \in 1..5 : PreferenceRoutes[i].rpc \in Rpcs /\ PreferenceRoutes[i].rpc # "UploadAvatar"
    BY RpcsAre DEF PreferenceRoutes, Rt, AuthMethods, OwnAuthMethods, ProfileMethods,
                   PreferenceMethods, AdminMethods, HealthMethods
  <2>4. QED BY <2>1, <2>2, <2>3 DEF Plain
<1>6. \A i \in 1..5 : Plain(AdminRoutes[i])
  <2>1. \A i \in 1..5 : Proper(AdminRoutes[i].path)
    BY DEF AdminRoutes, Rt, Proper
  <2>2. /\ OnlyAt(AdminRoutes[1], 3) /\ OnlyAt(AdminRoutes[2], 4)
        /\ OnlyAt(AdminRoutes[3], 4) /\ OnlyAt(AdminRoutes[4], 4)
        /\ OnlyAt(AdminRoutes[5], 4)
    BY Only3, Only4, Only5 DEF AdminRoutes, Param
  <2>3. \A i \in 1..5 : AdminRoutes[i].rpc \in Rpcs /\ AdminRoutes[i].rpc # "UploadAvatar"
    BY RpcsAre DEF AdminRoutes, Rt, AuthMethods, OwnAuthMethods, ProfileMethods,
                   PreferenceMethods, AdminMethods, HealthMethods
  <2>4. QED BY <2>1, <2>2, <2>3 DEF Plain
<1>7. \A i \in 1..2 : Plain(HealthRoutes[i])
  <2>1. \A i \in 1..2 : Proper(HealthRoutes[i].path)
    BY DEF HealthRoutes, Rt, Proper
  <2>2. /\ OnlyAt(HealthRoutes[1], 3) /\ OnlyAt(HealthRoutes[2], 3)
    BY Only2, Only3 DEF HealthRoutes, Param
  <2>3. \A i \in 1..2 : HealthRoutes[i].rpc \in Rpcs /\ HealthRoutes[i].rpc # "UploadAvatar"
    BY RpcsAre DEF HealthRoutes, Rt, AuthMethods, OwnAuthMethods, ProfileMethods,
                   PreferenceMethods, AdminMethods, HealthMethods
  <2>4. QED BY <2>1, <2>2, <2>3 DEF Plain
<1>8. QED BY <1>1, <1>2, <1>3, <1>4, <1>5, <1>6, <1>7, RowsAt

LEMMA ProfileParams == Params(Routes[12]) = {3} /\ Params(Routes[13]) = {}
<1>1. Routes[12] = ProfileRoutes[1] /\ Routes[13] = ProfileRoutes[2]
  BY RowsAt
<1>2. OnlyAt(ProfileRoutes[1], 3) /\ OnlyAt(ProfileRoutes[2], 3)
  BY Only3 DEF ProfileRoutes, Param
<1>3. /\ DOMAIN ProfileRoutes[1].path = 1..3 /\ ProfileRoutes[1].path[3] = Param
      /\ ProfileRoutes[2].path[3] # Param
  <2>1. ASSUME NEW v, NEW r, NEW a, NEW b, NEW c, NEW row, row = Rt(v, <<a, b, c>>, r)
        PROVE  DOMAIN row.path = 1..3 /\ row.path[3] = c
    BY <2>1 DEF Rt
  <2>2. /\ ProfileRoutes[1] = Rt("GET", <<"v1", "users", Param>>, "GetUser")
        /\ ProfileRoutes[2] = Rt("GET", <<"v1", "users", "me">>, "GetMe")
    BY DEF ProfileRoutes
  <2>3. "me" # Param
    BY DEF Param
  <2>4. QED BY <2>1, <2>2, <2>3
<1>4. 3 \in Params(ProfileRoutes[1]) /\ 3 \notin Params(ProfileRoutes[2])
  BY <1>3 DEF Params
<1>5. QED BY <1>1, <1>2, <1>4 DEF OnlyAt

LEMMA KindsAre ==
  ASSUME NEW rpc \in Rpcs, rpc # "UploadAvatar"
  PROVE  KindOf(rpc) \in Kinds \ {"stream"}
<1>1. PICK t : t \in Tables /\ rpc \in DOMAIN t /\ KindOf(rpc) = t[rpc]
  BY DEF KindOf, Rpcs
<1>2. t[rpc] \in {"public", "user", "admin"}
  BY <1>1 DEF Tables, AuthMethods, OwnAuthMethods, ProfileMethods, PreferenceMethods,
              AdminMethods, HealthMethods
<1>3. QED BY <1>1, <1>2 DEF Kinds

-----------------------------------------------------------------------------
(***************************************************************************)
(* The routing                                                             *)
(***************************************************************************)
LEMMA FillMatches ==
  ASSUME NEW row, Proper(row.path), NEW id
  PROVE  Proper(Fill(row.path, id)) /\ MatchesPath(row, Fill(row.path, id))
<1>1. PICK p : p = Fill(row.path, id)
  OBVIOUS
<1>2. /\ DOMAIN p = 1..Len(row.path) /\ Len(row.path) \in Nat
      /\ \A i \in 1..Len(row.path) : p[i] = IF row.path[i] = Param THEN id ELSE row.path[i]
  BY <1>1 DEF Fill, Proper
<1>3. Len(p) = Len(row.path)
  BY <1>1 DEF Fill, Proper
<1>4. QED BY <1>1, <1>2, <1>3 DEF Proper, MatchesPath

\* A request matches its route and, if that is GetUser's, maybe GetMe's.
LEMMA RequestMatches ==
  ASSUME NEW q \in Requests
  PROVE  /\ Proper(q.path)
         /\ \E i \in 1..27 : \/ Matching(q) = {i}
                             \/ i = 13 /\ Matching(q) = {12, 13}
<1>1. PICK i \in DOMAIN Routes, id \in Ids : \E b :
             q = [verb |-> Routes[i].verb, path |-> Fill(Routes[i].path, id), bodyId |-> b]
  BY DEF Requests
<1>2. i \in 1..27 /\ Proper(Routes[i].path)
  BY <1>1, RowsAt, RowsPlain DEF Plain
<1>3. q.verb = Routes[i].verb /\ q.path = Fill(Routes[i].path, id)
  BY <1>1
<1>4. Proper(q.path) /\ MatchesPath(Routes[i], q.path)
  BY <1>2, <1>3, FillMatches
<1>5. i \in Matching(q)
  BY <1>1, <1>3, <1>4 DEF Matching
<1>6. ASSUME NEW j \in Matching(q), NEW k \in Matching(q), j < k
      PROVE  j = 12 /\ k = 13
  BY <1>4, <1>6, MatchShapes, ShapesApart
<1>7. Matching(q) \subseteq 1..27
  BY RowsAt DEF Matching
<1>8. CASE \E j \in Matching(q) : j # i
  <2>1. PICK j \in Matching(q) : j # i
    BY <1>8
  <2>2. {i, j} = {12, 13}
    <3>1. CASE i < j
      BY <1>5, <1>6, <2>1, <3>1
    <3>2. CASE j < i
      BY <1>5, <1>6, <2>1, <3>2
    <3>3. QED BY <1>5, <1>7, <2>1, <3>1, <3>2
  <2>3. 12 \in Matching(q) /\ 13 \in Matching(q)
    BY <1>5, <2>1, <2>2
  <2>4. \A k \in Matching(q) : k = 12 \/ k = 13
    <3>1. SUFFICES ASSUME NEW k \in Matching(q), k # 12, k # 13 PROVE FALSE
      OBVIOUS
    <3>2. CASE k < 12
      BY <1>6, <2>3, <3>1, <3>2
    <3>3. CASE 12 < k
      BY <1>6, <2>3, <3>1, <3>3
    <3>4. QED BY <1>7, <3>1, <3>2, <3>3
  <2>5. QED BY <1>4, <2>3, <2>4
<1>9. CASE \A j \in Matching(q) : j = i
  BY <1>2, <1>4, <1>5, <1>9
<1>10. QED BY <1>8, <1>9

\* The request's route and the one its text names are the same row i.
LEMMA OneRow ==
  ASSUME NEW q \in Requests
  PROVE  \E i \in 1..27 : /\ i \in Matching(q)
                          /\ Route(q) = Routes[i] /\ Named(q) = Routes[i]
<1>1. PICK i \in 1..27 : Matching(q) = {i} \/ (i = 13 /\ Matching(q) = {12, 13})
  BY RequestMatches
<1>2. (CHOOSE k \in Matching(q) : \A j \in Matching(q) : k >= j) = i
  <2>1. CASE Matching(q) = {i}
    BY <2>1
  <2>2. CASE i = 13 /\ Matching(q) = {12, 13}
    BY <2>2
  <2>3. QED BY <1>1, <2>1, <2>2
<1>3. (CHOOSE k \in Matching(q) :
         \A j \in Matching(q) : Params(Routes[k]) \subseteq Params(Routes[j])) = i
  <2>1. CASE Matching(q) = {i}
    BY <2>1
  <2>2. CASE i = 13 /\ Matching(q) = {12, 13}
    BY <2>2, ProfileParams
  <2>3. QED BY <1>1, <2>1, <2>2
<1>4. i \in Matching(q)
  BY <1>1
<1>5. QED BY <1>2, <1>3, <1>4 DEF Route, Named

LEMMA RoutesNamed ==
  ASSUME NEW q \in Requests
  PROVE  /\ Route(q).rpc = Named(q).rpc /\ MessageId(Route(q), q) = PathId(q)
         /\ KindOf(Route(q).rpc) \in Kinds \ {"stream"}
<1>1. PICK i \in 1..27 : /\ i \in Matching(q)
                         /\ Route(q) = Routes[i] /\ Named(q) = Routes[i]
  BY OneRow
<1>2. PICK row : row = Routes[i] /\ Plain(row)
  BY RowsPlain
<1>3. Route(q) = row /\ Named(q) = row /\ MatchesPath(row, q.path) /\ Proper(q.path)
  BY <1>1, <1>2, RequestMatches DEF Matching
<1>4. DOMAIN q.path = DOMAIN row.path
  BY <1>2, <1>3 DEF MatchesPath, Proper, Plain
<1>5. MessageId(row, q) = PathId(q)
  <2>1. Params(row) = {k \in DOMAIN q.path : row.path[k] = Param}
    BY <1>4 DEF Params
  <2>2. CASE Params(row) = {}
    BY <1>3, <2>1, <2>2 DEF MessageId, PathId
  <2>3. CASE Params(row) # {}
    <3>1. PICK k : Params(row) = {k}
      BY <1>2, <2>3 DEF Plain, OnlyAt
    <3>2. (CHOOSE n \in Params(row) : TRUE) = k
      BY <3>1
    <3>3. (CHOOSE n \in DOMAIN q.path : row.path[n] = Param) = k
      BY <2>1, <3>1
    <3>4. PathId(q) = q.path[k]
      BY <1>3, <3>1, <3>2 DEF PathId
    <3>5. MessageId(row, q) = q.path[k]
      BY <2>1, <3>1, <3>3 DEF MessageId
    <3>6. QED BY <3>4, <3>5
  <2>4. QED BY <2>2, <2>3
<1>6. QED BY <1>2, <1>3, <1>5, KindsAre DEF Plain


-----------------------------------------------------------------------------
(***************************************************************************)
(* The gateway in front of the API                                         *)
(***************************************************************************)
\* A request that has been sent went to the method it names, which is no
\* stream, and its call has been made, so that no other can be made for it.
GInv ==
  /\ rest \in [Rests -> [st : {"none", "sent", "answered"}, named : BOOLEAN]]
  /\ \A r \in Rests : rest[r].st = "sent" =>
       rest[r].named /\ call[r].kind # "stream" /\ call[r].pc # "unmade"

LEMMA OutgoingNamed ==
  ASSUME NEW m \in Outgoing
  PROVE  m.kind \in Kinds \ {"stream"} /\ m.named = TRUE
<1>1. PICK q \in Requests :
             m = [kind |-> KindOf(Route(q).rpc),
                  named |-> Route(q).rpc = Named(q).rpc
                              /\ MessageId(Route(q), q) = PathId(q)]
  BY DEF Outgoing
<1>2. QED BY <1>1, RoutesNamed

\* A step of the gateway is one of the API, or the API does not see it.
LEMMA GatewaySteps == GatewayNext => Next \/ UNCHANGED vars
<1>1. ASSUME NEW r \in Rests, main # "exited", Rest(r)
      PROVE  Next \/ UNCHANGED vars
  <2>1. ASSUME NEW m \in Outgoing, Forward(r, m) PROVE Next
    <3>1. r \in Calls /\ m.kind \in Kinds /\ Arrive(r, m.kind)
      BY <2>1, RestsAreCalls, OutgoingNamed DEF Forward
    <3>2. Client(r)
      BY <1>1, <3>1 DEF Client
    <3>3. QED BY <3>1, <3>2 DEF Next
  <2>2. CASE RefuseBody(r) \/ Unavailable(r) \/ ConnectionCloses(r)
    BY <2>2 DEF RefuseBody, Unavailable, ConnectionCloses
  <2>3. QED BY <1>1, <2>1, <2>2 DEF Rest
<1>2. QED BY <1>1 DEF GatewayNext, GatewaySignal, GatewayExits

\* A call that has been made stays of its kind, or loses it with its locals.
LEMMA KindStays ==
  ASSUME TypeOK, Next, NEW q \in Calls, call[q].pc # "unmade"
  PROVE  call'[q].pc # "unmade" /\ call'[q].kind \in {call[q].kind, "public"}
<1>0. call \in [Calls -> Locals]
  BY DEF TypeOK, Locals
<1>1. CASE SetRole
  <2>1. CASE call[q].pc \in Inside
    BY <1>0, <1>1, <2>1 DEF SetRole, Witness, Locals
  <2>2. CASE call[q].pc \notin Inside
    BY <1>0, <1>1, <2>2 DEF SetRole, Witness
  <2>3. QED BY <2>1, <2>2
<1>2. ASSUME NEW r \in Calls, Proceed(r) \/ Client(r)
      PROVE  call'[q].pc # "unmade" /\ call'[q].kind \in {call[q].kind, "public"}
  <2>1. \A code : Answer(r, code) => \E l : /\ call' = [call EXCEPT ![r] = l]
                                            /\ l.pc = "answer" /\ l.kind = "public"
    <3>1. SUFFICES ASSUME NEW code, Answer(r, code)
                   PROVE  \E l : /\ call' = [call EXCEPT ![r] = l]
                                 /\ l.pc = "answer" /\ l.kind = "public"
      OBVIOUS
    <3>2. PICK l : l = [Unmade EXCEPT !.pc = "answer", !.code = code]
      OBVIOUS
    <3>3. l.pc = "answer" /\ l.kind = "public"
      BY <3>2 DEF Unmade
    <3>4. QED BY <3>1, <3>2, <3>3 DEF Answer
  <2>2. Done(r) => \E l : /\ call' = [call EXCEPT ![r] = l]
                          /\ l.pc = "done" /\ l.kind = "public"
    <3>1. PICK l : l = [Unmade EXCEPT !.pc = "done"]
      OBVIOUS
    <3>2. l.pc = "done" /\ l.kind = "public"
      BY <3>1 DEF Unmade
    <3>3. QED BY <3>1, <3>2 DEF Done
  <2>3. \A pc : Go(r, pc) => \E l : /\ call' = [call EXCEPT ![r] = l]
                                    /\ l.pc = pc /\ l.kind = call[r].kind
    <3>1. SUFFICES ASSUME NEW pc, Go(r, pc)
                   PROVE  \E l : /\ call' = [call EXCEPT ![r] = l]
                                 /\ l.pc = pc /\ l.kind = call[r].kind
      OBVIOUS
    <3>2. PICK l : l = [call[r] EXCEPT !.pc = pc]
      OBVIOUS
    <3>3. l.pc = pc /\ l.kind = call[r].kind
      BY <1>0, <3>2 DEF Locals
    <3>4. call' = [call EXCEPT ![r] = l]
      BY <1>0, <3>1, <3>2 DEF Go
    <3>5. QED BY <3>3, <3>4
  <2>4. CASE q # r
    <3>1. \E l : call' = [call EXCEPT ![r] = l]
      BY <1>2, <2>1, <2>2, <2>3
         DEF Proceed, Client, Authenticate, Validate, Handle, Return, ReceiveFails, Arrive,
             Receive, Messages, Undecodable, Panic
    <3>2. QED BY <1>0, <2>4, <3>1
  <2>5. CASE q = r /\ (Authenticate(r) \/ Validate(r))
    BY <1>0, <2>1, <2>3, <2>5 DEF Authenticate, Validate
  <2>6. CASE q = r /\ (Handle(r) \/ Return(r) \/ Panic(r) \/ ReceiveFails(r))
    BY <1>0, <2>1, <2>2, <2>6 DEF Handle, Return, Panic, ReceiveFails
  <2>7. CASE q = r /\ \E m \in Messages : Receive(r, m)
    <3>1. CASE \/ \E code : Answer(r, code)
               \/ Go(r, "upload")
      BY <1>0, <2>1, <2>3, <2>7, <3>1
    <3>2. CASE \/ call' = [call EXCEPT ![r].gotMeta = TRUE]
               \/ call' = [call EXCEPT ![r].bytes = @ + 1]
      BY <1>0, <2>7, <3>2 DEF Locals
    <3>3. QED BY <2>7, <3>1, <3>2 DEF Receive, Messages
  <2>8. QED BY <1>2, <2>4, <2>5, <2>6, <2>7 DEF Proceed, Client, Arrive, Undecodable, At
<1>3. CASE Revoke \/ (\E b \in Loops : Loop(b)) \/ Serve \/ Signal \/ Shutdown
  <2>1. UNCHANGED call
    BY <1>3
       DEF Revoke, Loop, Tick, QueryEnds, StopLoop, Serve, Signal, Shutdown, HealthDown,
           GracefulStop, ForceStop, StopReturns, CloseObs, ClosePool, CloseCache,
           CloseDispatchers, callVars
  <2>2. QED BY <2>1
<1>4. QED BY <1>1, <1>2, <1>3 DEF Next

LEMMA InitGInv == GatewayInit => GInv
BY DEF GatewayInit, GInv, Unasked

LEMMA NextGInv == TypeOK /\ GInv /\ [GatewayNext]_gatewayVars => GInv'
<1> SUFFICES ASSUME TypeOK, GInv, [GatewayNext]_gatewayVars PROVE GInv'
  OBVIOUS
<1>1. CASE UNCHANGED gatewayVars
  BY <1>1 DEF GInv, gatewayVars, vars, callVars
<1>2. CASE Next /\ Carry
  <2>1. rest' \in [Rests -> [st : {"none", "sent", "answered"}, named : BOOLEAN]]
    BY <1>2 DEF GInv, Carry
  <2>2. ASSUME NEW r \in Rests, rest'[r].st = "sent"
        PROVE  rest'[r].named /\ call'[r].kind # "stream" /\ call'[r].pc # "unmade"
    <3>1. rest[r].st = "sent" /\ rest'[r].named = rest[r].named
      BY <1>2, <2>2 DEF GInv, Carry
    <3>2. r \in Calls
      BY RestsAreCalls
    <3>3. QED BY <1>2, <3>1, <3>2, KindStays DEF GInv
  <2>3. QED BY <2>1, <2>2 DEF GInv
<1>3. ASSUME NEW r \in Rests, Rest(r) PROVE GInv'
  <2>1. CASE RefuseBody(r) \/ Unavailable(r) \/ ConnectionCloses(r)
    <3>1. UNCHANGED call /\ Reply(r)
      BY <2>1 DEF RefuseBody, Unavailable, ConnectionCloses, vars, callVars
    <3>2. QED BY <3>1 DEF GInv, Reply
  <2>2. ASSUME NEW m \in Outgoing, Forward(r, m) PROVE GInv'
    <3>1. PICK l : /\ call' = [call EXCEPT ![r] = l]
                   /\ l.pc = "auth" /\ l.kind = m.kind
      <4>1. PICK l : l = [Unmade EXCEPT !.kind = m.kind, !.pc = "auth",
                                        !.entitled = Entitled(m.kind, session, admin)]
        OBVIOUS
      <4>2. l.pc = "auth" /\ l.kind = m.kind
        BY <4>1 DEF Unmade
      <4>3. QED BY <2>2, <4>1, <4>2 DEF Forward, Arrive
    <3>2. m.kind # "stream" /\ m.named = TRUE /\ r \in Calls
      BY OutgoingNamed, RestsAreCalls
    <3>3. rest' = [rest EXCEPT ![r] = [st |-> "sent", named |-> TRUE]]
      BY <2>2, <3>2 DEF Forward
    <3>4. \A q \in Rests : call'[q] = IF q = r THEN l ELSE call[q]
      BY <3>1, <3>2, RestsAreCalls DEF TypeOK
    <3>5. QED BY <3>1, <3>2, <3>3, <3>4 DEF GInv
  <2>3. QED BY <1>3, <2>1, <2>2 DEF Rest
<1>4. CASE GatewaySignal \/ GatewayExits
  BY <1>4 DEF GInv, GatewaySignal, GatewayExits, vars, callVars
<1>5. QED BY <1>1, <1>2, <1>3, <1>4 DEF GatewayNext

-----------------------------------------------------------------------------
(***************************************************************************)
(* The theorems about the gateway                                          *)
(***************************************************************************)
\* The gateway does to the API what its other clients do: behind it the API
\* behaves as Serving says.
THEOREM GatewayImplementsServing == GatewaySpec => Spec
<1>1. GatewayInit => Init
  BY DEF GatewayInit
<1>2. [GatewayNext]_gatewayVars => [Next]_vars
  BY GatewaySteps DEF gatewayVars
<1>3. QED BY <1>1, <1>2, PTL DEF GatewaySpec, Spec

\* So what is proved of the API holds of the API behind the gateway.
THEOREM ApiBehindGateway ==
  GatewaySpec => [](HandlerEntitled /\ MetricsAddUp /\ ClosedInOrder)
<1>1. QED
  BY GatewayImplementsServing, HandlersAreEntitled, MetricsAccount, ShutdownInOrder, PTL

\* The routes and request_X_0 of the generated code: whatever an id in a path
\* or a body is, a request becomes a call of the method it names, on the id in
\* its path.
THEOREM RoutedCorrectly == GatewaySpec => []RoutedAsNamed
<1>1. GInv => RoutedAsNamed
  BY DEF GInv, RoutedAsNamed
<1>2. GatewaySpec => []TypeOK
  BY GatewayImplementsServing, TypeCorrect, PTL
<1>3. QED BY <1>1, <1>2, InitGInv, NextGInv, PTL DEF GatewaySpec

=============================================================================
