-------------------------- MODULE MessageWorkersProofs --------------------------
(***************************************************************************)
(* Proofs about MessageWorkers, for any number of messages, devices, rows, *)
(* rotations and faults: a task that is done was delivered, and what a     *)
(* task repeats or is archived for is paid for by failures and dead        *)
(* tokens.                                                                 *)
(*                                                                         *)
(* The two bounds are no invariants a step preserves.  What is preserved   *)
(* is an account: each retry, each attempt that has failed and each copy a *)
(* task may still deliver costs one unit, and each fault, and each dead    *)
(* token the task will never meet again, pays one (Paid, Met).  A token    *)
(* the task may still meet pays nothing: it is in an active row, or in the *)
(* rows the attempt fetched and has still to send to (May).                *)
(***************************************************************************)
EXTENDS MessageWorkers, FiniteSetTheorems, WellFoundedInduction, TLAPS

Attempts == [pc : {"idle", "prefs", "tokens", "send", "deactivate"},
             rows : [Devices -> RowType], sent : SUBSET Items, todo : SUBSET Items,
             item : SUBSET Items, failed : BOOLEAN]

-----------------------------------------------------------------------------
(***************************************************************************)
(* The inductive invariant                                                 *)
(***************************************************************************)
\* A row has a token its device had, and, if it is there, an id.
RowFits(r, lv) == r.token <= lv /\ (r.present => r.id >= 1)
RowsFit == \A d \in Devices : RowFits(row[d], live[d])

\* The locals a of an attempt of task m, which is in state st, and its copies.
Fits(m, a, st, cp) ==
  /\ a.pc # "idle" <=> st = "active"
  /\ a.todo \subseteq a.sent
  /\ a.pc \in {"prefs", "tokens"} => a.sent = {} /\ ~a.failed
  /\ st \in {"none", "queued", "archived"} => a = NoAttempt
  /\ st = "done" => a.todo = {} /\ ~a.failed
  /\ IF m \in Pushes THEN a.sent \subseteq Devices /\ \A d \in a.todo : a.rows[d].present
     ELSE a.pc \in {"idle", "send"} /\ a.sent \subseteq Parts[m]
  /\ ~a.failed => \A i \in a.sent \ a.todo : cp[i] > 0

\* The rows an attempt fetched; a device that is refused is out of its loop.
Fetched(a, lv, ref) ==
  /\ \A d \in Devices : RowFits(a.rows[d], lv[d])
  /\ a.pc = "deactivate" =>
       \E d \in Devices : /\ a.item = {d} /\ d \notin a.todo /\ a.failed
                          /\ <<d, a.rows[d].id, a.rows[d].token>> \in ref

\* A task with the locals a may still be refused the token tok of row k of
\* device d: the row is active, and not about to be deactivated by this very
\* attempt, or the attempt has fetched it and not come to it.
May(rw, a, d, k, tok) ==
  \/ /\ rw[d].present /\ rw[d].active /\ rw[d].id = k /\ rw[d].token = tok
     /\ ~(a.pc = "deactivate" /\ d \in a.item /\ a.rows[d].id = k /\ a.rows[d].token = tok)
  \/ d \in a.todo /\ a.rows[d].id = k /\ a.rows[d].token = tok

\* The dead tokens it cannot be refused any more.
Met(ref, lv, rw, a) == {t \in ref : t[3] < lv[t[1]] /\ ~May(rw, a, t[1], t[2], t[3])}

Paid(m, fl, ref, lv, rw, a) ==
  fl + IF m \in Pushes THEN Cardinality(Met(ref, lv, rw, a)) ELSE 0

\* What a task has cost: attempts that failed, and, for each item, the copies
\* delivered and those that may still be without another hitch.
Unit(b) == IF b THEN 1 ELSE 0
Failures(st, tr, a) == tr + Unit(st = "archived") + Unit(a.failed)
Reserve(st, a, i) ==
  CASE st \in {"done", "archived"} -> 0
    [] st \in {"none", "queued"} \/ a.pc \in {"prefs", "tokens"} -> 1
    [] OTHER -> Unit(i \in a.todo) + Unit(a.failed)
Sends(st, a, cp, orph, i) == cp[i] + orph[i] + Reserve(st, a, i)

Affords(st, tr, a, cp, orph, paid) ==
  /\ Failures(st, tr, a) <= paid
  /\ \A i \in Items : Sends(st, a, cp, orph, i) <= 1 + paid

\* All that concerns one message: the types, its locals and its account.
Sorts(a, st, tr, cp, ob, fl, ref, lv, rw) ==
  /\ a \in Attempts /\ st \in {"none", "queued", "active", "done", "archived"}
  /\ tr \in 0..RetryMax /\ cp \in [Items -> Nat] /\ ob \in [Items -> Nat]
  /\ fl \in 0..MaxFaults /\ ref \subseteq Devices \X (1..MaxRows) \X Nat
  /\ IsFiniteSet(ref) /\ lv \in [Devices -> Nat] /\ rw \in [Devices -> RowType]
  /\ \A d \in Devices : RowFits(rw[d], lv[d])

Book(m, a, st, tr, cp, ob, fl, ref, lv, rw) ==
  /\ Sorts(a, st, tr, cp, ob, fl, ref, lv, rw)
  /\ Fits(m, a, st, cp) /\ Fetched(a, lv, ref)
  /\ Sendable(m) => Affords(st, tr, a, cp, ob, Paid(m, fl, ref, lv, rw, a))

Books ==
  \A m \in Messages :
    Book(m, w[m], taskSt[m], tries[m], copies[m], orphan[m], faults, refused, live, row)

\* A message nobody has sent has no task.
Unsent == \A m \in Messages : sender[m] = "new" => taskSt[m] = "none"

IInv == TypeOK /\ IsFiniteSet(refused) /\ RowsFit /\ Unsent /\ Books /\ OnlyRefusedRowsInactive

-----------------------------------------------------------------------------
(***************************************************************************)
(* Dead tokens                                                             *)
(***************************************************************************)
LEMMA ItemsAre ==
  Devices \subseteq Items /\ \A m \in Messages \ Pushes : Parts[m] \subseteq Items
BY DEF Items, Emails

\* What a set gains or loses.
LEMMA SetMoves ==
  ASSUME NEW S, NEW T, IsFiniteSet(S), IsFiniteSet(T), NEW x
  PROVE  /\ Cardinality(S) \in Nat /\ Cardinality(T) \in Nat
         /\ S \subseteq T => Cardinality(S) <= Cardinality(T)
         /\ S \subseteq T /\ x \in T /\ x \notin S => Cardinality(S) + 1 <= Cardinality(T)
         /\ S \subseteq T \cup {x} => Cardinality(S) <= Cardinality(T) + 1
<1>1. Cardinality(S) \in Nat /\ Cardinality(T) \in Nat
  BY FS_CardinalityType
<1>2. S \subseteq T => Cardinality(S) <= Cardinality(T)
  <2> SUFFICES ASSUME S \in SUBSET T PROVE Cardinality(S) <= Cardinality(T)
    OBVIOUS
  <2>1. QED BY FS_Subset
<1>3. ASSUME S \subseteq T, x \in T, x \notin S
      PROVE  Cardinality(S) + 1 <= Cardinality(T)
  <2> DEFINE U == S \cup {x}
  <2>1. IsFiniteSet(U) /\ Cardinality(U) = Cardinality(S) + 1
    BY <1>3, FS_AddElement
  <2>2. U \in SUBSET T
    BY <1>3
  <2> HIDE DEF U
  <2>3. Cardinality(U) <= Cardinality(T)
    BY <2>2, FS_Subset
  <2>4. QED BY <1>1, <2>1, <2>3
<1>4. ASSUME S \subseteq T \cup {x}
      PROVE  Cardinality(S) <= Cardinality(T) + 1
  <2> DEFINE U == T \cup {x}
  <2>1. IsFiniteSet(U) /\ Cardinality(U) <= Cardinality(T) + 1
    <3>1. CASE x \in T
      <4>1. PICK V : V = U
        OBVIOUS
      <4>2. V = T
        BY <3>1, <4>1
      <4>3. IsFiniteSet(V) /\ Cardinality(V) <= Cardinality(T) + 1
        BY <1>1, <4>2
      <4>4. QED BY <4>1, <4>3
    <3>2. CASE x \notin T
      <4>1. IsFiniteSet(U) /\ Cardinality(U) = Cardinality(T) + 1
        BY <3>2, FS_AddElement
      <4>2. QED BY <1>1, <4>1
    <3>3. QED BY <3>1, <3>2
  <2>2. S \in SUBSET U
    BY <1>4
  <2> HIDE DEF U
  <2>3. Cardinality(S) <= Cardinality(U) /\ Cardinality(U) \in Nat
    BY <2>1, <2>2, FS_Subset, FS_CardinalityType
  <2>4. QED BY <1>1, <2>1, <2>3
<1>5. QED BY <1>1, <1>2, <1>3, <1>4

\* How the rest of the system moves on: faults and refusals are added up, live
\* tokens get newer, and a row that changes is inactive or has the live token.
Onward(fl, ref, lv, rw, fl2, ref2, lv2, rw2) ==
  /\ fl <= fl2 /\ ref \subseteq ref2
  /\ \A d \in Devices :
       /\ lv[d] <= lv2[d]
       /\ rw2[d] = rw[d] \/ ~rw2[d].active \/ rw2[d].token = lv[d]

\* From the locals a to the locals b a task comes in sight of no dead token but
\* those of lost.
Sight(rw, a, b, lost) ==
  \A d \in Devices : \A k, tok :
    May(rw, b, d, k, tok) => May(rw, a, d, k, tok) \/ <<d, k, tok>> \in lost

\* A dead token stays met, whatever the rest of the system does.
LEMMA MetStays ==
  ASSUME NEW a, NEW b, NEW st, NEW tr, NEW cp, NEW ob, NEW fl, NEW ref, NEW lv, NEW rw,
         NEW st2, NEW tr2, NEW cp2, NEW ob2, NEW fl2, NEW ref2, NEW lv2, NEW rw2,
         Sorts(a, st, tr, cp, ob, fl, ref, lv, rw),
         Sorts(b, st2, tr2, cp2, ob2, fl2, ref2, lv2, rw2),
         Onward(fl, ref, lv, rw, fl2, ref2, lv2, rw2),
         NEW lost, Sight(rw, a, b, lost)
  PROVE  Met(ref, lv, rw, a) \subseteq Met(ref2, lv2, rw2, b) \cup lost
<1> SUFFICES ASSUME NEW t \in Met(ref, lv, rw, a), t \notin lost
             PROVE  t \in Met(ref2, lv2, rw2, b)
  OBVIOUS
<1>1. PICK d \in Devices, k \in 1..MaxRows, tok \in Nat : t = <<d, k, tok>>
  BY DEF Sorts, Met
<1>2. tok < lv[d] /\ ~May(rw, a, d, k, tok) /\ t \in ref
  BY <1>1 DEF Met
<1>3. ~May(rw, b, d, k, tok)
  BY <1>1, <1>2 DEF Sight
<1>4. lv[d] \in Nat /\ lv2[d] \in Nat /\ lv[d] <= lv2[d] /\ tok < lv2[d] /\ tok # lv[d]
  BY <1>2 DEF Sorts, Onward
<1>5. rw2[d] = rw[d] \/ ~rw2[d].active \/ rw2[d].token = lv[d]
  BY DEF Onward
<1>6. ~May(rw2, b, d, k, tok)
  BY <1>3, <1>4, <1>5 DEF May
<1>7. QED BY <1>1, <1>2, <1>4, <1>6 DEF Met, Onward

LEMMA MetFinite ==
  ASSUME NEW ref, IsFiniteSet(ref), NEW lv, NEW rw, NEW a
  PROVE  /\ IsFiniteSet(Met(ref, lv, rw, a)) /\ Cardinality(Met(ref, lv, rw, a)) \in Nat
         /\ Cardinality(Met(ref, lv, rw, a)) <= Cardinality(ref)
         /\ Cardinality(ref) \in Nat
<1> DEFINE S == Met(ref, lv, rw, a)
<1>1. S \in SUBSET ref
  BY DEF Met
<1> HIDE DEF S
<1>2. IsFiniteSet(S) /\ Cardinality(S) \in Nat /\ Cardinality(S) <= Cardinality(ref)
  BY <1>1, FS_Subset, FS_CardinalityType
<1>3. QED BY <1>2, FS_CardinalityType DEF S

\* What a step adds to what is paid: the faults; a token that is met now; and
\* a fault pays for the one token that may be met again.
Rises(m, a, b, fl, ref, lv, rw, fl2, ref2, lv2, rw2, paid, paid2) ==
  /\ paid \in Nat /\ paid2 \in Nat
  /\ Sight(rw, a, b, {}) => paid <= paid2
  /\ Sight(rw, a, b, {}) /\ fl2 = fl + 1 => paid + 1 <= paid2
  /\ \A x : Sight(rw, a, b, {}) /\ m \in Pushes /\ x \in Met(ref2, lv2, rw2, b)
              /\ x \notin Met(ref, lv, rw, a) => paid + 1 <= paid2
  /\ \A x : Sight(rw, a, b, {x}) /\ fl2 = fl + 1 => paid <= paid2

LEMMA PaidMoves ==
  ASSUME NEW m, NEW a, NEW b, NEW st, NEW tr, NEW cp, NEW ob, NEW fl, NEW ref, NEW lv, NEW rw,
         NEW st2, NEW tr2, NEW cp2, NEW ob2, NEW fl2, NEW ref2, NEW lv2, NEW rw2,
         Sorts(a, st, tr, cp, ob, fl, ref, lv, rw),
         Sorts(b, st2, tr2, cp2, ob2, fl2, ref2, lv2, rw2),
         Onward(fl, ref, lv, rw, fl2, ref2, lv2, rw2),
         NEW paid, paid = Paid(m, fl, ref, lv, rw, a),
         NEW paid2, paid2 = Paid(m, fl2, ref2, lv2, rw2, b)
  PROVE  Rises(m, a, b, fl, ref, lv, rw, fl2, ref2, lv2, rw2, paid, paid2)
<1> DEFINE S == Met(ref, lv, rw, a)
           T == Met(ref2, lv2, rw2, b)
<1>1. /\ fl \in Nat /\ fl2 \in Nat /\ fl <= fl2
      /\ IsFiniteSet(ref) /\ IsFiniteSet(ref2)
  BY MessageBounds DEF Sorts, Onward
<1>2. \A lost : Sight(rw, a, b, lost) => S \subseteq T \cup lost
  BY MetStays
<1>3. IsFiniteSet(S) /\ IsFiniteSet(T)
  BY <1>1, MetFinite
<1>4. /\ paid = fl + IF m \in Pushes THEN Cardinality(S) ELSE 0
      /\ paid2 = fl2 + IF m \in Pushes THEN Cardinality(T) ELSE 0
  BY DEF Paid
<1> HIDE DEF S, T
<1>5. Cardinality(S) \in Nat /\ Cardinality(T) \in Nat
  BY <1>3, FS_CardinalityType
<1>6. paid \in Nat /\ paid2 \in Nat
  BY <1>1, <1>4, <1>5
<1>7. ASSUME Sight(rw, a, b, {}) PROVE S \subseteq T
  BY <1>2, <1>7
<1>8. ASSUME Sight(rw, a, b, {})
      PROVE  paid <= paid2 /\ (fl2 = fl + 1 => paid + 1 <= paid2)
  <2>1. Cardinality(S) <= Cardinality(T)
    BY <1>3, <1>7, <1>8, SetMoves
  <2>2. QED BY <1>1, <1>4, <1>5, <2>1
<1>9. ASSUME NEW x, Sight(rw, a, b, {}), m \in Pushes, x \in T, x \notin S
      PROVE  paid + 1 <= paid2
  <2>1. Cardinality(S) + 1 <= Cardinality(T)
    BY <1>3, <1>7, <1>9, SetMoves
  <2>2. QED BY <1>1, <1>4, <1>5, <1>9, <2>1
<1>10. ASSUME NEW x, Sight(rw, a, b, {x}), fl2 = fl + 1
       PROVE  paid <= paid2
  <2>1. S \subseteq T \cup {x}
    BY <1>2, <1>10
  <2>2. Cardinality(S) <= Cardinality(T) + 1
    BY <1>3, <2>1, SetMoves
  <2>3. QED BY <1>1, <1>4, <1>5, <1>10, <2>2
<1>11. QED BY <1>6, <1>8, <1>9, <1>10 DEF Rises, S, T

-----------------------------------------------------------------------------
(***************************************************************************)
(* The account of one message                                              *)
(***************************************************************************)
\* What the failures and the copies of a task may grow by, k, is paid.
Grows(k, st, tr, a, cp, ob, st2, tr2, b, cp2, ob2) ==
  /\ Failures(st2, tr2, b) <= Failures(st, tr, a) + k
  /\ \A i \in Items : Sends(st2, b, cp2, ob2, i) <= Sends(st, a, cp, ob, i) + k

LEMMA Balance ==
  ASSUME NEW k \in {0, 1}, NEW paid \in Nat, NEW paid2 \in Nat, paid + k <= paid2,
         NEW st, NEW tr \in Nat, NEW a, NEW cp \in [Items -> Nat], NEW ob \in [Items -> Nat],
         NEW st2, NEW tr2 \in Nat, NEW b, NEW cp2 \in [Items -> Nat], NEW ob2 \in [Items -> Nat],
         Affords(st, tr, a, cp, ob, paid),
         Grows(k, st, tr, a, cp, ob, st2, tr2, b, cp2, ob2)
  PROVE  Affords(st2, tr2, b, cp2, ob2, paid2)
<1>1. \A c \in BOOLEAN : Unit(c) \in {0, 1}
  BY DEF Unit
<1>2. \A c : Unit(c) \in {0, 1}
  BY DEF Unit
<1>3. Failures(st, tr, a) \in Nat /\ Failures(st2, tr2, b) \in Nat
  BY <1>2 DEF Failures
<1>4. ASSUME NEW i \in Items
      PROVE  Sends(st, a, cp, ob, i) \in Nat /\ Sends(st2, b, cp2, ob2, i) \in Nat
  <2>1. Reserve(st, a, i) \in Nat /\ Reserve(st2, b, i) \in Nat
    BY <1>2 DEF Reserve
  <2>2. QED BY <2>1 DEF Sends
<1>5. Failures(st2, tr2, b) <= paid2
  BY <1>3 DEF Affords, Grows
<1>6. ASSUME NEW i \in Items PROVE Sends(st2, b, cp2, ob2, i) <= 1 + paid2
  BY <1>4, <1>6 DEF Affords, Grows
<1>7. QED BY <1>5, <1>6 DEF Affords

\* A message keeps its account while the rest of the system moves on.
LEMMA RestBook ==
  ASSUME NEW m \in Messages, NEW a, NEW st, NEW tr, NEW cp, NEW ob,
         NEW fl, NEW ref, NEW lv, NEW rw, NEW fl2, NEW ref2, NEW lv2, NEW rw2,
         Book(m, a, st, tr, cp, ob, fl, ref, lv, rw),
         Onward(fl, ref, lv, rw, fl2, ref2, lv2, rw2),
         Sorts(a, st, tr, cp, ob, fl2, ref2, lv2, rw2)
  PROVE  Book(m, a, st, tr, cp, ob, fl2, ref2, lv2, rw2)
<1>0. Sorts(a, st, tr, cp, ob, fl, ref, lv, rw)
  BY DEF Book
<1>1. Sight(rw, a, a, {})
  BY DEF Sight
<1>2. Fetched(a, lv2, ref2)
  <2>1. \A d \in Devices : /\ RowFits(a.rows[d], lv[d]) /\ lv[d] <= lv2[d] /\ lv[d] \in Nat
                           /\ lv2[d] \in Nat /\ a.rows[d] \in RowType
    BY <1>0 DEF Book, Fetched, Onward, Sorts, Attempts
  <2>2. ASSUME NEW d \in Devices PROVE RowFits(a.rows[d], lv2[d])
    BY <2>1 DEF RowFits, RowType
  <2>3. QED BY <2>2 DEF Book, Fetched, Onward
<1>3. ASSUME Sendable(m)
      PROVE  Affords(st, tr, a, cp, ob, Paid(m, fl2, ref2, lv2, rw2, a))
  <2>1. PICK p, q : p = Paid(m, fl, ref, lv, rw, a) /\ q = Paid(m, fl2, ref2, lv2, rw2, a)
    OBVIOUS
  <2>2. p \in Nat /\ q \in Nat /\ p <= q
    BY <1>0, <1>1, <2>1, PaidMoves DEF Rises
  <2>3. Affords(st, tr, a, cp, ob, p)
    BY <1>3, <2>1 DEF Book
  <2>4. /\ tr \in Nat /\ cp \in [Items -> Nat] /\ ob \in [Items -> Nat]
        /\ \A c : Unit(c) \in {0, 1}
    BY MessageBounds DEF Sorts, Unit
  <2>5. \A i \in Items : Reserve(st, a, i) \in Nat
    BY <2>4 DEF Reserve
  <2>6. Affords(st, tr, a, cp, ob, q)
    BY <2>2, <2>3, <2>4, <2>5 DEF Affords, Failures, Sends
  <2>7. QED BY <2>1, <2>6
<1>4. QED BY <1>2, <1>3 DEF Book

\* How the growth k of the account from the locals a to the locals b is paid:
\* by a fault, by a token met, or, if there is none, by leaving no token unmet
\* but one that a fault makes up for.
Covers(m, k, a, b, fl, ref, lv, rw, fl2, ref2, lv2, rw2) ==
  \/ m \notin Pushes /\ (k = 0 \/ fl2 = fl + 1)
  \/ Sight(rw, a, b, {}) /\ (k = 0 \/ fl2 = fl + 1)
  \/ Sight(rw, a, b, {}) /\ m \in Pushes
       /\ \E x \in Met(ref2, lv2, rw2, b) : x \notin Met(ref, lv, rw, a)
  \/ k = 0 /\ fl2 = fl + 1 /\ \E x : Sight(rw, a, b, {x})

LEMMA OwnBook ==
  ASSUME NEW m \in Messages, NEW a, NEW st, NEW tr, NEW cp, NEW ob,
         NEW fl, NEW ref, NEW lv, NEW rw,
         NEW b, NEW st2, NEW tr2, NEW cp2, NEW ob2,
         NEW fl2, NEW ref2, NEW lv2, NEW rw2,
         Book(m, a, st, tr, cp, ob, fl, ref, lv, rw),
         Sorts(b, st2, tr2, cp2, ob2, fl2, ref2, lv2, rw2),
         Onward(fl, ref, lv, rw, fl2, ref2, lv2, rw2),
         Fits(m, b, st2, cp2), Fetched(b, lv2, ref2),
         NEW k \in {0, 1},
         Sendable(m) => /\ Grows(k, st, tr, a, cp, ob, st2, tr2, b, cp2, ob2)
                        /\ Covers(m, k, a, b, fl, ref, lv, rw, fl2, ref2, lv2, rw2)
  PROVE  Book(m, b, st2, tr2, cp2, ob2, fl2, ref2, lv2, rw2)
<1>0. Sorts(a, st, tr, cp, ob, fl, ref, lv, rw)
  BY DEF Book
<1>1. ASSUME Sendable(m)
      PROVE  Affords(st2, tr2, b, cp2, ob2, Paid(m, fl2, ref2, lv2, rw2, b))
  <2>1. PICK p, q : p = Paid(m, fl, ref, lv, rw, a) /\ q = Paid(m, fl2, ref2, lv2, rw2, b)
    OBVIOUS
  <2>8. Rises(m, a, b, fl, ref, lv, rw, fl2, ref2, lv2, rw2, p, q)
    BY <1>0, <2>1, PaidMoves
  <2>2. p \in Nat /\ q \in Nat
    BY <2>8 DEF Rises
  <2>3. p + k <= q
    <3>1. CASE m \notin Pushes /\ (k = 0 \/ fl2 = fl + 1)
      <4>1. p = fl /\ q = fl2 /\ fl \in Nat /\ fl2 \in Nat /\ fl <= fl2
        BY <1>0, <2>1, <3>1, MessageBounds DEF Paid, Sorts, Onward
      <4>2. QED BY <3>1, <4>1
    <3>2. CASE Sight(rw, a, b, {}) /\ (k = 0 \/ fl2 = fl + 1)
      BY <2>2, <2>8, <3>2 DEF Rises
    <3>3. CASE Sight(rw, a, b, {}) /\ m \in Pushes
                 /\ \E x \in Met(ref2, lv2, rw2, b) : x \notin Met(ref, lv, rw, a)
      <4>1. p + 1 <= q
        BY <2>8, <3>3 DEF Rises
      <4>2. QED BY <2>2, <4>1
    <3>4. CASE k = 0 /\ fl2 = fl + 1 /\ \E x : Sight(rw, a, b, {x})
      <4>1. p <= q
        BY <2>8, <3>4 DEF Rises
      <4>2. QED BY <2>2, <3>4, <4>1
    <3>5. QED BY <1>1, <3>1, <3>2, <3>3, <3>4 DEF Covers
  <2>4. Affords(st, tr, a, cp, ob, p)
    BY <1>1, <2>1 DEF Book
  <2>5. /\ tr \in Nat /\ tr2 \in Nat /\ cp \in [Items -> Nat] /\ ob \in [Items -> Nat]
        /\ cp2 \in [Items -> Nat] /\ ob2 \in [Items -> Nat]
    BY <1>0, MessageBounds DEF Sorts
  <2>6. Affords(st2, tr2, b, cp2, ob2, q)
    BY <1>1, <2>2, <2>3, <2>4, <2>5, Balance
  <2>7. QED BY <2>1, <2>6
<1>2. QED BY <1>1 DEF Book

LEMMA UnitIs == \A c : Unit(c) \in {0, 1} /\ (c => Unit(c) = 1) /\ (~c => Unit(c) = 0)
BY DEF Unit

\* An attempt that goes on without a fault in sight leaves no token unmet.
LEMMA InSight ==
  ASSUME NEW rw, NEW a, NEW b, a.pc # "deactivate",
         \A d \in Devices : d \in b.todo =>
           \/ d \in a.todo /\ b.rows[d] = a.rows[d]
           \/ b.rows[d] = rw[d] /\ rw[d].present /\ rw[d].active
  PROVE  Sight(rw, a, b, {})
BY DEF Sight, May

\* An attempt ends and its task goes back to the queue or to the archive.
LEMMA ResetBook ==
  ASSUME NEW m \in Messages, NEW a, NEW tr, NEW cp, NEW ob,
         NEW fl, NEW ref, NEW lv, NEW rw,
         NEW st2, NEW tr2, NEW ob2, NEW fl2,
         Book(m, a, "active", tr, cp, ob, fl, ref, lv, rw),
         Sorts(NoAttempt, st2, tr2, cp, ob2, fl2, ref, lv, rw),
         \/ st2 = "queued" /\ tr2 \in {tr, tr + 1}
         \/ st2 = "archived" /\ tr2 = tr,
         \/ ob2 = ob
         \/ ob2 = [i \in Items |-> IF i \in a.todo THEN ob[i] + 1 ELSE ob[i]],
         \/ fl2 = fl + 1
         \/ fl2 = fl /\ a.failed /\ a.pc = "send"
  PROVE  Book(m, NoAttempt, st2, tr2, cp, ob2, fl2, ref, lv, rw)
<1>0. /\ Sorts(a, "active", tr, cp, ob, fl, ref, lv, rw) /\ Fits(m, a, "active", cp)
      /\ Fetched(a, lv, ref)
  BY DEF Book
<1>1. /\ a \in Attempts /\ fl \in Nat /\ tr \in Nat /\ cp \in [Items -> Nat]
      /\ ob \in [Items -> Nat] /\ ob2 \in [Items -> Nat] /\ lv \in [Devices -> Nat]
  BY <1>0, MessageBounds DEF Sorts
<1>2. /\ NoAttempt.pc = "idle" /\ NoAttempt.todo = {} /\ NoAttempt.sent = {}
      /\ NoAttempt.failed = FALSE /\ \A d \in Devices : NoAttempt.rows[d] = NoRow
  BY DEF NoAttempt
<1>3. Onward(fl, ref, lv, rw, fl2, ref, lv, rw)
  BY <1>1 DEF Onward
<1>4. Fits(m, NoAttempt, st2, cp)
  BY <1>2 DEF Fits
<1>5. Fetched(NoAttempt, lv, ref)
  BY <1>1, <1>2 DEF Fetched, RowFits, NoRow
<1>6. CASE a.failed
  <2>1. Grows(0, "active", tr, a, cp, ob, st2, tr2, NoAttempt, cp, ob2)
    <3>1. Failures(st2, tr2, NoAttempt) <= tr + 1 /\ Failures("active", tr, a) = tr + 1
      BY <1>1, <1>2, <1>6 DEF Failures, Unit
    <3>2. a.pc \notin {"prefs", "tokens"}
      BY <1>0, <1>6 DEF Fits
    <3>3. ASSUME NEW i \in Items
          PROVE  Sends(st2, NoAttempt, cp, ob2, i) <= Sends("active", a, cp, ob, i)
      <4>1. Reserve("active", a, i) = Unit(i \in a.todo) + 1
        BY <1>6, <3>2, UnitIs DEF Reserve
      <4>2. Reserve(st2, NoAttempt, i) \in {0, 1}
        BY DEF Reserve
      <4>3. ob2[i] <= ob[i] + Unit(i \in a.todo) /\ Unit(i \in a.todo) \in {0, 1}
        BY <1>1 DEF Unit
      <4>4. cp[i] \in Nat /\ ob[i] \in Nat /\ ob2[i] \in Nat
        BY <1>1
      <4>5. QED BY <4>1, <4>2, <4>3, <4>4 DEF Sends
    <3>4. Failures("active", tr, a) \in Nat
      BY <1>1, <3>1
    <3>5. \A i \in Items : Sends("active", a, cp, ob, i) \in Nat
      <4>1. \A i \in Items : Reserve("active", a, i) \in Nat
        BY UnitIs DEF Reserve
      <4>2. QED BY <1>1, <4>1 DEF Sends
    <3>6. QED BY <3>1, <3>3, <3>4, <3>5 DEF Grows
  <2>2. Covers(m, 0, a, NoAttempt, fl, ref, lv, rw, fl2, ref, lv, rw)
    <3>1. CASE a.pc # "deactivate"
      <4>1. Sight(rw, a, NoAttempt, {})
        BY <1>2, <3>1, InSight
      <4>2. QED BY <4>1 DEF Covers
    <3>2. CASE a.pc = "deactivate"
      <4>1. PICK d0 \in Devices : a.item = {d0}
        BY <1>0, <3>2 DEF Fetched
      <4>2. PICK x : x = <<d0, a.rows[d0].id, a.rows[d0].token>>
        OBVIOUS
      <4>3. Sight(rw, a, NoAttempt, {x})
        BY <1>2, <4>1, <4>2 DEF Sight, May
      <4>4. fl2 = fl + 1
        BY <3>2
      <4>5. QED BY <4>3, <4>4 DEF Covers
    <3>3. QED BY <3>1, <3>2
  <2>3. QED BY <1>0, <1>3, <1>4, <1>5, <2>1, <2>2, OwnBook
<1>7. CASE ~a.failed
  <2>1. Grows(1, "active", tr, a, cp, ob, st2, tr2, NoAttempt, cp, ob2)
    <3>1. Failures(st2, tr2, NoAttempt) <= tr + 1 /\ Failures("active", tr, a) = tr
      BY <1>1, <1>2, <1>7 DEF Failures, Unit
    <3>3. ASSUME NEW i \in Items
          PROVE  Sends(st2, NoAttempt, cp, ob2, i) <= Sends("active", a, cp, ob, i) + 1
      <4>1. Reserve("active", a, i) \in {1, Unit(i \in a.todo)}
        BY <1>7, UnitIs DEF Reserve
      <4>2. Reserve("active", a, i) >= Unit(i \in a.todo)
        BY <4>1, UnitIs
      <4>3. Reserve(st2, NoAttempt, i) \in {0, 1}
        BY DEF Reserve
      <4>4. ob2[i] <= ob[i] + Unit(i \in a.todo) /\ Unit(i \in a.todo) \in {0, 1}
        BY <1>1 DEF Unit
      <4>5. cp[i] \in Nat /\ ob[i] \in Nat /\ ob2[i] \in Nat
        BY <1>1
      <4>6. Reserve("active", a, i) \in Nat
        BY <4>1, UnitIs
      <4>7. QED BY <4>2, <4>3, <4>4, <4>5, <4>6 DEF Sends
    <3>4. QED BY <1>1, <3>1, <3>3 DEF Grows
  <2>2. Covers(m, 1, a, NoAttempt, fl, ref, lv, rw, fl2, ref, lv, rw)
    <3>1. a.pc # "deactivate" /\ fl2 = fl + 1
      BY <1>0, <1>7 DEF Fetched
    <3>2. Sight(rw, a, NoAttempt, {})
      BY <1>2, <3>1, InSight
    <3>3. QED BY <3>1, <3>2 DEF Covers
  <2>3. QED BY <1>0, <1>3, <1>4, <1>5, <2>1, <2>2, OwnBook
<1>8. QED BY <1>6, <1>7

LEMMA Standing ==
  ASSUME NEW fl, NEW ref, NEW lv, NEW rw, NEW fl2 \in {fl, fl + 1}, fl \in Nat,
         lv \in [Devices -> Nat]
  PROVE  Onward(fl, ref, lv, rw, fl2, ref, lv, rw)
BY DEF Onward

\* An attempt ends well.
LEMMA FinishBook ==
  ASSUME NEW m \in Messages, NEW a, NEW tr, NEW cp, NEW ob,
         NEW fl, NEW ref, NEW lv, NEW rw, NEW b,
         Book(m, a, "active", tr, cp, ob, fl, ref, lv, rw),
         Sorts(b, "done", tr, cp, ob, fl, ref, lv, rw),
         a.pc \in {"prefs", "tokens", "send"}, a.todo = {}, ~a.failed,
         b.pc = "idle", b.todo = {}, b.sent = a.sent, b.rows = a.rows, ~b.failed
  PROVE  Book(m, b, "done", tr, cp, ob, fl, ref, lv, rw)
<1>0. /\ Sorts(a, "active", tr, cp, ob, fl, ref, lv, rw) /\ Fits(m, a, "active", cp)
      /\ Fetched(a, lv, ref)
  BY DEF Book
<1>1. fl \in Nat /\ tr \in Nat /\ cp \in [Items -> Nat] /\ ob \in [Items -> Nat]
  BY <1>0, MessageBounds DEF Sorts
<1>2. Onward(fl, ref, lv, rw, fl, ref, lv, rw)
  BY <1>0, <1>1, Standing DEF Sorts
<1>3. Fits(m, b, "done", cp)
  BY <1>0 DEF Fits
<1>4. Fetched(b, lv, ref)
  BY <1>0 DEF Fetched
<1>5. Grows(0, "active", tr, a, cp, ob, "done", tr, b, cp, ob)
  <2>1. Failures("done", tr, b) = tr /\ Failures("active", tr, a) = tr
    BY <1>1 DEF Failures, Unit
  <2>2. ASSUME NEW i \in Items
        PROVE  Sends("done", b, cp, ob, i) <= Sends("active", a, cp, ob, i) + 0
    <3>1. Reserve("active", a, i) \in Nat /\ Reserve("done", b, i) = 0
      BY UnitIs DEF Reserve
    <3>2. cp[i] \in Nat /\ ob[i] \in Nat
      BY <1>1
    <3>3. QED BY <3>1, <3>2 DEF Sends
  <2>3. QED BY <1>1, <2>1, <2>2 DEF Grows
<1>6. Sight(rw, a, b, {})
  BY InSight
<1>7. Covers(m, 0, a, b, fl, ref, lv, rw, fl, ref, lv, rw)
  BY <1>6 DEF Covers
<1>8. QED BY <1>2, <1>3, <1>4, <1>5, <1>7, OwnBook

\* An attempt begins, or the payload cannot be decoded.
LEMMA StartBook ==
  ASSUME NEW m \in Messages, NEW a, NEW tr, NEW cp, NEW ob,
         NEW fl, NEW ref, NEW lv, NEW rw, NEW b, NEW st2,
         Book(m, a, "queued", tr, cp, ob, fl, ref, lv, rw),
         Sorts(b, st2, tr, cp, ob, fl, ref, lv, rw),
         b.rows = a.rows, ~b.failed, b.todo = b.sent,
         \/ st2 = "archived" /\ b = a /\ m \in Corrupt
         \/ st2 = "active" /\ m \in Pushes /\ b.pc = "prefs" /\ b.sent = {}
         \/ st2 = "active" /\ m \notin Pushes /\ b.pc = "send" /\ b.sent = Parts[m]
  PROVE  Book(m, b, st2, tr, cp, ob, fl, ref, lv, rw)
<1>0. /\ Sorts(a, "queued", tr, cp, ob, fl, ref, lv, rw) /\ Fits(m, a, "queued", cp)
      /\ Fetched(a, lv, ref)
  BY DEF Book
<1>1. fl \in Nat /\ tr \in Nat /\ cp \in [Items -> Nat] /\ ob \in [Items -> Nat]
  BY <1>0, MessageBounds DEF Sorts
<1>2. Onward(fl, ref, lv, rw, fl, ref, lv, rw)
  BY <1>0, <1>1, Standing DEF Sorts
<1>3. a = NoAttempt /\ a.pc = "idle" /\ a.todo = {} /\ ~a.failed
  BY <1>0 DEF Fits, NoAttempt
<1>4. Fits(m, b, st2, cp)
  BY <1>0, <1>3 DEF Fits
<1>5. b.pc # "deactivate"
  BY <1>3
<1>6. Fetched(b, lv, ref)
  BY <1>0, <1>5 DEF Fetched
<1>7. ASSUME Sendable(m)
      PROVE  /\ Grows(0, "queued", tr, a, cp, ob, st2, tr, b, cp, ob)
             /\ Covers(m, 0, a, b, fl, ref, lv, rw, fl, ref, lv, rw)
  <2>1. st2 = "active"
    BY <1>7 DEF Sendable
  <2>2. Failures(st2, tr, b) = tr /\ Failures("queued", tr, a) = tr
    BY <1>1, <1>3, <2>1 DEF Failures, Unit
  <2>3. ASSUME NEW i \in Items
        PROVE  Sends(st2, b, cp, ob, i) <= Sends("queued", a, cp, ob, i) + 0
    <3>1. Reserve("queued", a, i) = 1 /\ Reserve(st2, b, i) \in {0, 1}
      BY <2>1 DEF Reserve, Unit
    <3>2. cp[i] \in Nat /\ ob[i] \in Nat
      BY <1>1
    <3>3. QED BY <3>1, <3>2 DEF Sends
  <2>4. Grows(0, "queued", tr, a, cp, ob, st2, tr, b, cp, ob)
    BY <1>1, <2>2, <2>3 DEF Grows
  <2>5. CASE m \in Pushes
    <3>1. \A d \in Devices : d \notin b.todo
      BY <2>1, <2>5
    <3>2. Sight(rw, a, b, {})
      BY <1>3, <3>1, InSight
    <3>3. QED BY <2>4, <3>2 DEF Covers
  <2>6. QED BY <2>4, <2>5 DEF Covers
<1>8. QED BY <1>2, <1>4, <1>6, <1>7, OwnBook

\* The preferences let the push through, or cannot be read.
LEMMA PrefsBook ==
  ASSUME NEW m \in Messages, NEW a, NEW tr, NEW cp, NEW ob,
         NEW fl, NEW ref, NEW lv, NEW rw, NEW b, NEW fl2 \in {fl, fl + 1},
         Book(m, a, "active", tr, cp, ob, fl, ref, lv, rw),
         Sorts(b, "active", tr, cp, ob, fl2, ref, lv, rw),
         a.pc = "prefs", b.pc = "tokens", b.rows = a.rows, b.sent = a.sent,
         b.todo = a.todo, b.item = a.item, b.failed = a.failed
  PROVE  Book(m, b, "active", tr, cp, ob, fl2, ref, lv, rw)
<1>0. /\ Sorts(a, "active", tr, cp, ob, fl, ref, lv, rw) /\ Fits(m, a, "active", cp)
      /\ Fetched(a, lv, ref)
  BY DEF Book
<1>1. fl \in Nat /\ tr \in Nat /\ cp \in [Items -> Nat] /\ ob \in [Items -> Nat]
  BY <1>0, MessageBounds DEF Sorts
<1>2. Onward(fl, ref, lv, rw, fl2, ref, lv, rw)
  BY <1>0, <1>1, Standing DEF Sorts
<1>3. Fits(m, b, "active", cp)
  BY <1>0 DEF Fits
<1>4. Fetched(b, lv, ref)
  BY <1>0 DEF Fetched
<1>5. Grows(0, "active", tr, a, cp, ob, "active", tr, b, cp, ob)
  <2>1. Failures("active", tr, b) = Failures("active", tr, a) /\ Failures("active", tr, a) \in Nat
    BY <1>1 DEF Failures, Unit
  <2>2. ASSUME NEW i \in Items
        PROVE  Sends("active", b, cp, ob, i) <= Sends("active", a, cp, ob, i) + 0
    <3>1. Reserve("active", a, i) = 1 /\ Reserve("active", b, i) = 1
      BY DEF Reserve
    <3>2. cp[i] \in Nat /\ ob[i] \in Nat
      BY <1>1
    <3>3. QED BY <3>1, <3>2 DEF Sends
  <2>3. QED BY <2>1, <2>2 DEF Grows
<1>6. Sight(rw, a, b, {})
  BY InSight
<1>7. Covers(m, 0, a, b, fl, ref, lv, rw, fl2, ref, lv, rw)
  BY <1>6 DEF Covers
<1>8. QED BY <1>2, <1>3, <1>4, <1>5, <1>7, OwnBook

\* The attempt fetches the active rows of the devices.
LEMMA FetchBook ==
  ASSUME NEW m \in Pushes, NEW a, NEW tr, NEW cp, NEW ob,
         NEW fl, NEW ref, NEW lv, NEW rw, NEW b,
         Book(m, a, "active", tr, cp, ob, fl, ref, lv, rw),
         Sorts(b, "active", tr, cp, ob, fl, ref, lv, rw),
         a.pc = "tokens", b.pc = "send", b.rows = rw, b.failed = a.failed,
         b.sent = {d \in Devices : rw[d].present /\ rw[d].active}, b.todo = b.sent
  PROVE  Book(m, b, "active", tr, cp, ob, fl, ref, lv, rw)
<1>0. /\ Sorts(a, "active", tr, cp, ob, fl, ref, lv, rw) /\ Fits(m, a, "active", cp)
      /\ Fetched(a, lv, ref) /\ m \in Messages
  BY MessageBounds DEF Book
<1>1. fl \in Nat /\ tr \in Nat /\ cp \in [Items -> Nat] /\ ob \in [Items -> Nat]
  BY <1>0, MessageBounds DEF Sorts
<1>2. Onward(fl, ref, lv, rw, fl, ref, lv, rw)
  BY <1>0, <1>1, Standing DEF Sorts
<1>3. Fits(m, b, "active", cp)
  BY <1>0 DEF Fits
<1>4. Fetched(b, lv, ref)
  BY <1>0 DEF Fetched, Sorts
<1>5. Grows(0, "active", tr, a, cp, ob, "active", tr, b, cp, ob)
  <2>1. Failures("active", tr, b) = Failures("active", tr, a) /\ Failures("active", tr, a) \in Nat
    BY <1>1 DEF Failures, Unit
  <2>2. ASSUME NEW i \in Items
        PROVE  Sends("active", b, cp, ob, i) <= Sends("active", a, cp, ob, i) + 0
    <3>1. ~b.failed
      BY <1>0 DEF Fits
    <3>2. Reserve("active", a, i) = 1 /\ Reserve("active", b, i) \in {0, 1}
      BY <3>1 DEF Reserve, Unit
    <3>3. cp[i] \in Nat /\ ob[i] \in Nat
      BY <1>1
    <3>4. QED BY <3>2, <3>3 DEF Sends
  <2>3. QED BY <2>1, <2>2 DEF Grows
<1>6. Sight(rw, a, b, {})
  BY InSight
<1>7. Covers(m, 0, a, b, fl, ref, lv, rw, fl, ref, lv, rw)
  BY <1>6 DEF Covers
<1>8. QED BY <1>0, <1>2, <1>3, <1>4, <1>5, <1>7, OwnBook

\* An item is sent: delivered, refused (an e-mail nobody may send), or lost to
\* a fault, after which it may have been delivered all the same.
LEMMA SentBook ==
  ASSUME NEW m \in Messages, NEW a, NEW tr, NEW cp, NEW ob,
         NEW fl, NEW ref, NEW lv, NEW rw, NEW b, NEW cp2, NEW fl2 \in {fl, fl + 1},
         Book(m, a, "active", tr, cp, ob, fl, ref, lv, rw),
         Sorts(b, "active", tr, cp2, ob, fl2, ref, lv, rw),
         a.pc = "send", b.pc = "send", b.rows = a.rows, b.sent = a.sent,
         NEW i \in a.todo, b.todo = a.todo \ {i}, NEW fail \in BOOLEAN,
         b.failed <=> a.failed \/ fail,
         cp2 = cp \/ cp2 = [cp EXCEPT ![i] = @ + 1],
         ~fail => cp2 = [cp EXCEPT ![i] = @ + 1],
         fail /\ Sendable(m) => fl2 = fl + 1
  PROVE  Book(m, b, "active", tr, cp2, ob, fl2, ref, lv, rw)
<1>0. /\ Sorts(a, "active", tr, cp, ob, fl, ref, lv, rw) /\ Fits(m, a, "active", cp)
      /\ Fetched(a, lv, ref)
  BY DEF Book
<1>1. /\ fl \in Nat /\ tr \in Nat /\ cp \in [Items -> Nat] /\ ob \in [Items -> Nat]
      /\ cp2 \in [Items -> Nat] /\ a \in Attempts /\ lv \in [Devices -> Nat]
  BY <1>0, MessageBounds DEF Sorts
<1>2. Onward(fl, ref, lv, rw, fl2, ref, lv, rw)
  BY <1>1, Standing
<1>3. \A j \in Items : cp2[j] = cp[j] \/ (j = i /\ cp2[j] = cp[j] + 1)
  BY <1>1
<1>4. i \in Items /\ a.sent \subseteq Items
  BY <1>1 DEF Attempts
<1>5. ~fail => cp2[i] = cp[i] + 1
  BY <1>1, <1>4
<1>6. Fits(m, b, "active", cp2)
  <2>1. ASSUME ~b.failed, NEW j \in b.sent \ b.todo PROVE cp2[j] > 0
    <3>1. ~a.failed /\ ~fail /\ j \in Items
      BY <1>4, <2>1
    <3>2. CASE j = i
      BY <1>1, <1>4, <1>5, <3>1, <3>2
    <3>3. CASE j # i
      <4>1. cp[j] > 0
        BY <1>0, <2>1, <3>1, <3>3 DEF Fits
      <4>2. QED BY <1>1, <1>3, <3>1, <3>3, <4>1
    <3>4. QED BY <3>2, <3>3
  <2>2. QED BY <1>0, <2>1 DEF Fits
<1>7. Fetched(b, lv, ref)
  BY <1>0 DEF Fetched
<1>8. Sight(rw, a, b, {})
  BY InSight
<1>9. CASE fail
  <2>1. Grows(1, "active", tr, a, cp, ob, "active", tr, b, cp2, ob)
    <3>1. Failures("active", tr, b) = tr + 1 /\ Failures("active", tr, a) >= tr
      BY <1>1, <1>9 DEF Failures, Unit
    <3>2. ASSUME NEW j \in Items
          PROVE  Sends("active", b, cp2, ob, j) <= Sends("active", a, cp, ob, j) + 1
      <4>1. /\ Reserve("active", a, j) = Unit(j \in a.todo) + Unit(a.failed)
            /\ Reserve("active", b, j) = Unit(j \in b.todo) + Unit(b.failed)
        BY DEF Reserve
      <4>2. /\ Unit(a.failed) \in {0, 1} /\ Unit(b.failed) \in {0, 1}
            /\ Unit(j \in a.todo) \in {0, 1} /\ Unit(j \in b.todo) \in {0, 1}
            /\ Unit(j \in b.todo) <= Unit(j \in a.todo)
            /\ j = i => Unit(j \in b.todo) = 0 /\ Unit(j \in a.todo) = 1
        BY DEF Unit
      <4>3. cp[j] \in Nat /\ ob[j] \in Nat /\ cp2[j] \in Nat
        BY <1>1
      <4>4. QED BY <1>3, <4>1, <4>2, <4>3 DEF Sends
    <3>3. Failures("active", tr, a) \in Nat
      BY <1>1 DEF Failures, Unit
    <3>4. QED BY <1>1, <3>1, <3>2, <3>3 DEF Grows
  <2>2. Sendable(m) => Covers(m, 1, a, b, fl, ref, lv, rw, fl2, ref, lv, rw)
    BY <1>8, <1>9 DEF Covers
  <2>3. QED BY <1>2, <1>6, <1>7, <2>1, <2>2, OwnBook
<1>10. CASE ~fail
  <2>1. Grows(0, "active", tr, a, cp, ob, "active", tr, b, cp2, ob)
    <3>1. Failures("active", tr, b) = Failures("active", tr, a)
          /\ Failures("active", tr, a) \in Nat
      BY <1>1, <1>10 DEF Failures, Unit
    <3>2. ASSUME NEW j \in Items
          PROVE  Sends("active", b, cp2, ob, j) <= Sends("active", a, cp, ob, j) + 0
      <4>1. /\ Reserve("active", a, j) = Unit(j \in a.todo) + Unit(a.failed)
            /\ Reserve("active", b, j) = Unit(j \in b.todo) + Unit(b.failed)
        BY DEF Reserve
      <4>2. /\ Unit(a.failed) \in {0, 1} /\ Unit(b.failed) = Unit(a.failed)
            /\ Unit(j \in a.todo) \in {0, 1} /\ Unit(j \in b.todo) \in {0, 1}
            /\ Unit(j \in b.todo) <= Unit(j \in a.todo)
            /\ j = i => Unit(j \in b.todo) = 0 /\ Unit(j \in a.todo) = 1
        BY <1>10 DEF Unit
      <4>3. cp[j] \in Nat /\ ob[j] \in Nat /\ cp2[j] \in Nat
        BY <1>1
      <4>4. QED BY <1>3, <4>1, <4>2, <4>3 DEF Sends
    <3>3. QED BY <3>1, <3>2 DEF Grows
  <2>2. Covers(m, 0, a, b, fl, ref, lv, rw, fl2, ref, lv, rw)
    BY <1>8 DEF Covers
  <2>3. QED BY <1>2, <1>6, <1>7, <2>1, <2>2, OwnBook
<1>11. QED BY <1>9, <1>10

\* FCM refuses the token of device d for good: if the push is one FCM sends,
\* the token is dead, and the task has met it now.
LEMMA RefusedBook ==
  ASSUME NEW m \in Pushes, NEW a, NEW tr, NEW cp, NEW ob,
         NEW fl, NEW ref, NEW lv, NEW rw, NEW b, NEW d \in Devices, NEW x, NEW ref2,
         Book(m, a, "active", tr, cp, ob, fl, ref, lv, rw),
         Sorts(b, "active", tr, cp, ob, fl, ref2, lv, rw),
         d \in a.todo, x = <<d, a.rows[d].id, a.rows[d].token>>, ref2 = ref \cup {x},
         a.pc = "send", b.pc = "deactivate", b.rows = a.rows, b.sent = a.sent,
         b.todo = a.todo \ {d}, b.item = {d}, b.failed,
         m \notin Invalid => a.rows[d].token # lv[d]
  PROVE  Book(m, b, "active", tr, cp, ob, fl, ref2, lv, rw)
<1>0. /\ Sorts(a, "active", tr, cp, ob, fl, ref, lv, rw) /\ Fits(m, a, "active", cp)
      /\ Fetched(a, lv, ref) /\ m \in Messages
  BY MessageBounds DEF Book
<1>1. /\ fl \in Nat /\ tr \in Nat /\ cp \in [Items -> Nat] /\ ob \in [Items -> Nat]
      /\ lv \in [Devices -> Nat] /\ a \in Attempts
  BY <1>0, MessageBounds DEF Sorts
<1>2. Onward(fl, ref, lv, rw, fl, ref2, lv, rw)
  BY <1>1 DEF Onward
<1>3. Fits(m, b, "active", cp)
  BY <1>0 DEF Fits
<1>4. Fetched(b, lv, ref2)
  BY <1>0 DEF Fetched
<1>5. Sight(rw, a, b, {})
  BY InSight
<1>6. ASSUME Sendable(m)
      PROVE  /\ Grows(1, "active", tr, a, cp, ob, "active", tr, b, cp, ob)
             /\ Covers(m, 1, a, b, fl, ref, lv, rw, fl, ref2, lv, rw)
  <2>1. Failures("active", tr, b) = tr + 1 /\ Failures("active", tr, a) >= tr
        /\ Failures("active", tr, a) \in Nat
    BY <1>1 DEF Failures, Unit
  <2>2. ASSUME NEW j \in Items
        PROVE  Sends("active", b, cp, ob, j) <= Sends("active", a, cp, ob, j) + 1
    <3>1. Reserve("active", b, j) \in {1, 2} /\ Reserve("active", a, j) \in {0, 1, 2}
      BY DEF Reserve, Unit
    <3>2. Reserve("active", b, j) = 2 => Reserve("active", a, j) >= 1
      BY DEF Reserve, Unit
    <3>3. Reserve("active", b, j) <= Reserve("active", a, j) + 1
      BY <3>1, <3>2
    <3>4. cp[j] \in Nat /\ ob[j] \in Nat
      BY <1>1
    <3>5. QED BY <3>1, <3>3, <3>4 DEF Sends
  <2>3. Grows(1, "active", tr, a, cp, ob, "active", tr, b, cp, ob)
    BY <1>1, <2>1, <2>2 DEF Grows
  <2>4. /\ a.rows[d].token <= lv[d] /\ a.rows[d].token # lv[d]
        /\ a.rows[d].token \in Nat /\ lv[d] \in Nat
    BY <1>0, <1>1, <1>6 DEF Fetched, RowFits, Sendable, Attempts, RowType
  <2>5. x[1] = d /\ x[2] = a.rows[d].id /\ x[3] = a.rows[d].token
    OBVIOUS
  <2>6. May(rw, a, d, a.rows[d].id, a.rows[d].token)
    BY DEF May
  <2>7. ~May(rw, b, d, a.rows[d].id, a.rows[d].token)
    BY DEF May
  <2>8. x \in Met(ref2, lv, rw, b) /\ x \notin Met(ref, lv, rw, a)
    BY <2>4, <2>5, <2>6, <2>7 DEF Met
  <2>9. Covers(m, 1, a, b, fl, ref, lv, rw, fl, ref2, lv, rw)
    BY <1>5, <2>8 DEF Covers
  <2>10. QED BY <2>3, <2>9
<1>7. QED BY <1>0, <1>2, <1>3, <1>4, <1>6, OwnBook

\* The attempt goes on after the refusal: the refused row is no longer active
\* (or not that row any more), or the update failed.
LEMMA ResumeBook ==
  ASSUME NEW m \in Messages, NEW a, NEW tr, NEW cp, NEW ob,
         NEW fl, NEW ref, NEW lv, NEW rw, NEW b, NEW fl2 \in {fl, fl + 1},
         Book(m, a, "active", tr, cp, ob, fl, ref, lv, rw),
         Sorts(b, "active", tr, cp, ob, fl2, ref, lv, rw),
         a.pc = "deactivate", b.pc = "send", b.rows = a.rows, b.sent = a.sent,
         b.todo = a.todo, b.failed = a.failed,
         \/ fl2 = fl + 1
         \/ \A d \in a.item : d \in Devices =>
               ~(rw[d].present /\ rw[d].active /\ rw[d].id = a.rows[d].id)
  PROVE  Book(m, b, "active", tr, cp, ob, fl2, ref, lv, rw)
<1>0. /\ Sorts(a, "active", tr, cp, ob, fl, ref, lv, rw) /\ Fits(m, a, "active", cp)
      /\ Fetched(a, lv, ref)
  BY DEF Book
<1>1. fl \in Nat /\ tr \in Nat /\ cp \in [Items -> Nat] /\ ob \in [Items -> Nat]
  BY <1>0, MessageBounds DEF Sorts
<1>2. Onward(fl, ref, lv, rw, fl2, ref, lv, rw)
  BY <1>0, <1>1, Standing DEF Sorts
<1>3. Fits(m, b, "active", cp)
  BY <1>0 DEF Fits
<1>4. Fetched(b, lv, ref)
  BY <1>0 DEF Fetched
<1>5. Grows(0, "active", tr, a, cp, ob, "active", tr, b, cp, ob)
  <2>1. Failures("active", tr, b) = Failures("active", tr, a) /\ Failures("active", tr, a) \in Nat
    BY <1>1 DEF Failures, Unit
  <2>2. ASSUME NEW i \in Items
        PROVE  Sends("active", b, cp, ob, i) <= Sends("active", a, cp, ob, i) + 0
    <3>1. Reserve("active", b, i) = Reserve("active", a, i) /\ Reserve("active", a, i) \in Nat
      BY DEF Reserve, Unit
    <3>2. cp[i] \in Nat /\ ob[i] \in Nat
      BY <1>1
    <3>3. QED BY <3>1, <3>2 DEF Sends
  <2>3. QED BY <2>1, <2>2 DEF Grows
<1>6. Covers(m, 0, a, b, fl, ref, lv, rw, fl2, ref, lv, rw)
  <2>1. PICK d0 \in Devices : a.item = {d0}
    BY <1>0 DEF Fetched
  <2>2. CASE fl2 = fl + 1
    <3>1. PICK x : x = <<d0, a.rows[d0].id, a.rows[d0].token>>
      OBVIOUS
    <3>2. Sight(rw, a, b, {x})
      BY <2>1, <3>1 DEF Sight, May
    <3>3. QED BY <2>2, <3>2 DEF Covers
  <2>3. CASE ~(rw[d0].present /\ rw[d0].active /\ rw[d0].id = a.rows[d0].id)
    <3>1. Sight(rw, a, b, {})
      BY <2>1, <2>3 DEF Sight, May
    <3>2. QED BY <3>1 DEF Covers
  <2>4. QED BY <2>1, <2>2, <2>3
<1>7. QED BY <1>2, <1>3, <1>4, <1>5, <1>6, OwnBook

\* A goroutine of an earlier attempt sends e-mail i, or does not.
LEMMA OrphanBook ==
  ASSUME NEW m \in Messages, NEW a, NEW st, NEW tr, NEW cp, NEW ob,
         NEW fl, NEW ref, NEW lv, NEW rw, NEW cp2, NEW ob2,
         Book(m, a, st, tr, cp, ob, fl, ref, lv, rw),
         Sorts(a, st, tr, cp2, ob2, fl, ref, lv, rw),
         NEW i \in Items, ob[i] > 0, ob2 = [ob EXCEPT ![i] = @ - 1],
         cp2 = cp \/ cp2 = [cp EXCEPT ![i] = @ + 1]
  PROVE  Book(m, a, st, tr, cp2, ob2, fl, ref, lv, rw)
<1>0. /\ Sorts(a, st, tr, cp, ob, fl, ref, lv, rw) /\ Fits(m, a, st, cp)
      /\ Fetched(a, lv, ref)
  BY DEF Book
<1>1. /\ fl \in Nat /\ tr \in Nat /\ cp \in [Items -> Nat] /\ ob \in [Items -> Nat]
      /\ cp2 \in [Items -> Nat] /\ ob2 \in [Items -> Nat] /\ a \in Attempts
  BY <1>0, MessageBounds DEF Sorts
<1>2. Onward(fl, ref, lv, rw, fl, ref, lv, rw)
  BY <1>0, <1>1, Standing DEF Sorts
<1>3. \A j \in Items : cp2[j] >= cp[j] /\ cp2[j] + ob2[j] <= cp[j] + ob[j]
  <2> SUFFICES ASSUME NEW j \in Items
               PROVE  cp2[j] >= cp[j] /\ cp2[j] + ob2[j] <= cp[j] + ob[j]
    OBVIOUS
  <2>1. cp[j] \in Nat /\ ob[j] \in Nat /\ cp2[j] \in Nat /\ ob2[j] \in Nat
    BY <1>1
  <2>2. IF j = i THEN ob2[j] = ob[j] - 1 /\ cp2[j] \in {cp[j], cp[j] + 1}
        ELSE ob2[j] = ob[j] /\ cp2[j] = cp[j]
    BY <1>1
  <2>3. QED BY <2>1, <2>2
<1>4. Fits(m, a, st, cp2)
  <2>1. a.sent \subseteq Items
    BY <1>1 DEF Attempts
  <2>2. \A j \in Items : cp[j] > 0 => cp2[j] > 0
    BY <1>1, <1>3
  <2>3. QED BY <1>0, <2>1, <2>2 DEF Fits
<1>5. Grows(0, st, tr, a, cp, ob, st, tr, a, cp2, ob2)
  <2>1. Failures(st, tr, a) \in Nat
    BY <1>1 DEF Failures, Unit
  <2>2. ASSUME NEW j \in Items
        PROVE  Sends(st, a, cp2, ob2, j) <= Sends(st, a, cp, ob, j) + 0
    <3>1. Reserve(st, a, j) \in Nat
      BY DEF Reserve, Unit
    <3>2. cp[j] \in Nat /\ ob[j] \in Nat /\ cp2[j] \in Nat /\ ob2[j] \in Nat
      BY <1>1
    <3>3. QED BY <1>3, <3>1, <3>2 DEF Sends
  <2>3. Failures(st, tr, a) <= Failures(st, tr, a) + 0
    BY <2>1
  <2>4. QED BY <2>2, <2>3 DEF Grows
<1>6. Covers(m, 0, a, a, fl, ref, lv, rw, fl, ref, lv, rw)
  BY DEF Covers, Sight
<1>7. QED BY <1>0, <1>2, <1>4, <1>5, <1>6, OwnBook

\* The dispatcher stores the task, or does not.
LEMMA QueueBook ==
  ASSUME NEW m \in Messages, NEW a, NEW tr, NEW cp, NEW ob,
         NEW fl, NEW ref, NEW lv, NEW rw, NEW st2 \in {"none", "queued"},
         NEW fl2 \in {fl, fl + 1},
         Book(m, a, "none", tr, cp, ob, fl, ref, lv, rw),
         Sorts(a, st2, tr, cp, ob, fl2, ref, lv, rw)
  PROVE  Book(m, a, st2, tr, cp, ob, fl2, ref, lv, rw)
<1>0. /\ Sorts(a, "none", tr, cp, ob, fl, ref, lv, rw) /\ Fits(m, a, "none", cp)
      /\ Fetched(a, lv, ref)
  BY DEF Book
<1>1. fl \in Nat /\ tr \in Nat /\ cp \in [Items -> Nat] /\ ob \in [Items -> Nat]
  BY <1>0, MessageBounds DEF Sorts
<1>2. Onward(fl, ref, lv, rw, fl2, ref, lv, rw)
  BY <1>0, <1>1, Standing DEF Sorts
<1>3. Fits(m, a, st2, cp)
  BY <1>0 DEF Fits
<1>4. Grows(0, "none", tr, a, cp, ob, st2, tr, a, cp, ob)
  <2>1. Failures(st2, tr, a) = Failures("none", tr, a) /\ Failures("none", tr, a) \in Nat
    BY <1>1 DEF Failures, Unit
  <2>2. ASSUME NEW j \in Items
        PROVE  Sends(st2, a, cp, ob, j) <= Sends("none", a, cp, ob, j) + 0
    <3>1. Reserve(st2, a, j) = 1 /\ Reserve("none", a, j) = 1
      BY DEF Reserve
    <3>2. cp[j] \in Nat /\ ob[j] \in Nat
      BY <1>1
    <3>3. QED BY <3>1, <3>2 DEF Sends
  <2>3. QED BY <2>1, <2>2 DEF Grows
<1>5. Covers(m, 0, a, a, fl, ref, lv, rw, fl2, ref, lv, rw)
  BY DEF Covers, Sight
<1>6. QED BY <1>0, <1>2, <1>3, <1>4, <1>5, OwnBook

-----------------------------------------------------------------------------
(***************************************************************************)
(* Types and rows                                                          *)
(***************************************************************************)
\* Bounded sets of numbers have a maximum: what NextId rests on.
LEMMA LessFounded == \E R : /\ IsWellFoundedOn(R, Nat)
                            /\ \A i, j \in Nat : i < j => <<i, j>> \in R
<1> DEFINE R == OpToRel(<, Nat)
<1>1. IsWellFoundedOn(R, Nat)
  BY NatLessThanWellFounded
<1>2. \A i, j \in Nat : i < j => <<i, j>> \in R
  BY DEF OpToRel
<1>3. QED BY <1>1, <1>2

LEMMA MaxIs ==
  ASSUME NEW N \in Nat, NEW S \in SUBSET (0..N), S # {}
  PROVE  Max(S) \in S /\ \A x \in S : x <= Max(S)
<1>1. PICK T : T = {N - x : x \in S}
  OBVIOUS
<1>2. T \subseteq Nat
  BY <1>1
<1>3. T # {}
  <2>1. PICK u : u \in S
    OBVIOUS
  <2>2. N - u \in T
    BY <1>1, <2>1
  <2>3. QED BY <2>2
<1>4. PICK R : IsWellFoundedOn(R, Nat) /\ \A i, j \in Nat : i < j => <<i, j>> \in R
  BY LessFounded
<1>5. \E x \in T : \A y \in T : ~(<<y, x>> \in R)
  <2>1. IsWellFoundedOn(R, Nat)
    BY <1>4
  <2>2. QED BY <1>2, <1>3, <2>1, WFMin, Zenon
<1>6. PICK x \in T : \A y \in T : ~(<<y, x>> \in R)
  BY <1>5
<1>7. PICK z \in S : x = N - z
  BY <1>1, <1>6
<1>8. \A u \in S : z >= u
  <2> SUFFICES ASSUME NEW u \in S PROVE z >= u
    OBVIOUS
  <2>1. N - u \in T /\ N - u \in Nat /\ N - z \in Nat
    BY <1>1
  <2>2. ~(N - u < N - z)
    BY <1>4, <1>6, <1>7, <2>1
  <2>3. QED BY <2>2
<1>9. QED BY <1>8 DEF Max

\* The sequence of fcm_tokens gives an id that no row has.
LEMMA NextIdIs == TypeOK /\ Devices # {} => NextId \in Nat \ {0}
<1> SUFFICES ASSUME TypeOK, Devices # {} PROVE NextId \in Nat \ {0}
  OBVIOUS
<1>1. PICK S : S = {row[d].id : d \in Devices}
  OBVIOUS
<1>2. S \in SUBSET (0..MaxRows)
  BY <1>1 DEF TypeOK, RowType
<1>3. S # {}
  BY <1>1
<1>4. MaxRows \in Nat
  BY MessageBounds
<1>5. Max(S) \in S
  BY <1>2, <1>3, <1>4, MaxIs
<1>6. QED BY <1>1, <1>2, <1>5 DEF NextId

\* One more failure.
LEMMA FaultCounts ==
  ASSUME faults \in 0..MaxFaults
  PROVE  /\ Fault => faults' \in 0..MaxFaults /\ faults' = faults + 1
         /\ NoFault => faults' \in 0..MaxFaults /\ faults' = faults
         /\ faults \in Nat
BY MessageBounds DEF Fault, NoFault

LEMMA Blank == NoAttempt \in Attempts
BY MessageBounds DEF NoAttempt, NoRow, Attempts, RowType

\* What Asynq does to a task when an attempt ends.
LEMMA RetryTypes ==
  ASSUME TypeOK, NEW m \in Messages, Retry(m)
  PROVE  /\ taskSt' \in [Messages -> {"none", "queued", "active", "done", "archived"}]
         /\ tries' \in [Messages -> 0..RetryMax]
         /\ w' \in [Messages -> Attempts]
<1>1. NoAttempt \in Attempts
  BY Blank
<1>2. tries[m] < RetryMax => tries[m] + 1 \in 0..RetryMax
  BY MessageBounds DEF TypeOK
<1>3. tries' \in [Messages -> 0..RetryMax]
  BY <1>2 DEF TypeOK, Retry
<1>4. QED BY <1>1, <1>3 DEF TypeOK, Retry, Attempts

LEMMA FinishTypes ==
  ASSUME TypeOK, NEW m \in Messages, Finish(m)
  PROVE  /\ taskSt' \in [Messages -> {"none", "queued", "active", "done", "archived"}]
         /\ tries' \in [Messages -> 0..RetryMax]
         /\ w' \in [Messages -> Attempts]
<1>1. w \in [Messages -> Attempts]
  BY DEF TypeOK, Attempts
<1>2. [w[m] EXCEPT !.pc = "idle"] \in Attempts
  BY <1>1 DEF Attempts
<1>3. w' = [w EXCEPT ![m] = [w[m] EXCEPT !.pc = "idle"]]
  BY <1>1 DEF Finish
<1>4. w' \in [Messages -> Attempts]
  BY <1>1, <1>2, <1>3
<1>5. QED BY <1>4 DEF TypeOK, Finish

LEMMA DeliverTypes ==
  ASSUME copies \in [Messages -> [Items -> Nat]], NEW m \in Messages, NEW i \in Items,
         Deliver(m, i)
  PROVE  copies' \in [Messages -> [Items -> Nat]]
<1>1. [copies[m] EXCEPT ![i] = @ + 1] \in [Items -> Nat]
  OBVIOUS
<1>2. copies' = [copies EXCEPT ![m] = [copies[m] EXCEPT ![i] = @ + 1]]
  BY DEF Deliver
<1>3. QED BY <1>1, <1>2

\* A message's step, for all but the locals it sets in its own way.
Local(m) == \E b \in Attempts : w' = [w EXCEPT ![m] = b]

LEMMA LocalTypes ==
  ASSUME w \in [Messages -> Attempts], NEW m \in Messages, Local(m)
  PROVE  w' \in [Messages -> Attempts]
BY DEF Local

\* What sendToToken and processEmail leave of the locals.
LEMMA SendTypes ==
  ASSUME NEW a \in Attempts, NEW i \in Items, NEW fail \in BOOLEAN,
         NEW pc \in {"send", "deactivate"}
  PROVE  /\ [a EXCEPT !.todo = @ \ {i}, !.pc = pc, !.item = {i}, !.failed = @ \/ fail]
              \in Attempts
         /\ [a EXCEPT !.todo = @ \ {i}, !.failed = @ \/ fail] \in Attempts
<1>1. a.todo \ {i} \in SUBSET Items /\ {i} \in SUBSET Items
  BY DEF Attempts
<1>2. (a.failed \/ fail) \in BOOLEAN
  OBVIOUS
<1>3. [a EXCEPT !.todo = @ \ {i}, !.pc = pc, !.item = {i}, !.failed = @ \/ fail] \in Attempts
  BY <1>1, <1>2 DEF Attempts
<1>4. [a EXCEPT !.todo = @ \ {i}, !.failed = @ \/ fail] \in Attempts
  BY <1>1, <1>2 DEF Attempts
<1>5. QED BY <1>3, <1>4

\* The refusal is of a row that is there.
LEMMA RefusalFits ==
  ASSUME TypeOK, NEW m \in Pushes, NEW d \in w[m].todo, Books
  PROVE  /\ d \in Devices /\ w[m].rows[d] \in RowType /\ w[m].rows[d].present
         /\ w[m].rows[d].id \in 1..MaxRows
<1>1. PICK a : a = w[m]
  OBVIOUS
<1>2. m \in Messages
  BY MessageBounds
<1>3. Fits(m, a, taskSt[m], copies[m]) /\ Fetched(a, live, refused) /\ a \in Attempts
  BY <1>1, <1>2 DEF Books, Book, Sorts
<1>4. d \in Devices /\ a.rows[d].present
  BY <1>1, <1>3 DEF Fits
<1>5. a.rows[d] \in RowType /\ a.rows[d].id >= 1
  BY <1>3, <1>4 DEF Attempts, Fetched, RowFits
<1>6. a.rows[d].id \in 1..MaxRows
  BY <1>5, MessageBounds DEF RowType
<1>7. QED BY <1>1, <1>4, <1>5, <1>6

LEMMA TypeStep ==
  ASSUME TypeOK, Books, Next
  PROVE  TypeOK'
<1>0. /\ w \in [Messages -> Attempts] /\ row \in [Devices -> RowType]
      /\ live \in [Devices -> Nat] /\ faults \in 0..MaxFaults
      /\ copies \in [Messages -> [Items -> Nat]]
  BY DEF TypeOK, Attempts
<1>1. ASSUME NEW m \in Messages, Send(m) PROVE TypeOK'
  <2>1. faults' \in 0..MaxFaults
    BY <1>0, <1>1, FaultCounts DEF Send
  <2>2. sender' \in [Messages -> {"new", "ok", "err"}]
    BY <1>1, ZenonT(60) DEF Send, TypeOK
  <2>3. taskSt' \in [Messages -> {"none", "queued", "active", "done", "archived"}]
    BY <1>1 DEF Send, TypeOK
  <2>4. QED BY <1>1, <2>1, <2>2, <2>3 DEF TypeOK, Send, userVars
<1>2. ASSUME NEW m \in Messages, Start(m) PROVE TypeOK'
  <2>1. taskSt' \in [Messages -> {"none", "queued", "active", "done", "archived"}]
    BY <1>2 DEF Start, TypeOK
  <2>2. w' \in [Messages -> Attempts]
    <3>1. CASE m \in Corrupt
      BY <1>0, <1>2, <3>1 DEF Start
    <3>2. CASE m \notin Corrupt /\ m \in Pushes
      <4>1. [NoAttempt EXCEPT !.pc = "prefs"] \in Attempts
        BY Blank DEF Attempts
      <4>2. QED BY <1>0, <1>2, <3>2, <4>1 DEF Start
    <3>3. CASE m \notin Corrupt /\ m \notin Pushes
      <4>1. Parts[m] \subseteq Items
        BY <3>3, ItemsAre
      <4>2. [NoAttempt EXCEPT !.pc = "send", !.sent = Parts[m], !.todo = Parts[m]] \in Attempts
        BY <4>1, Blank DEF Attempts
      <4>3. QED BY <1>0, <1>2, <3>3, <4>2 DEF Start
    <3>4. QED BY <3>1, <3>2, <3>3
  <2>3. QED BY <1>2, <2>1, <2>2 DEF TypeOK, Attempts, Start, senderVars, userVars
<1>3. ASSUME NEW m \in Messages, CheckPreferences(m) PROVE TypeOK'
  <2>1. faults' \in 0..MaxFaults
    BY <1>0, <1>3, FaultCounts DEF CheckPreferences
  <2>2. CASE Finish(m)
    <3>1. /\ taskSt' \in [Messages -> {"none", "queued", "active", "done", "archived"}]
          /\ tries' \in [Messages -> 0..RetryMax] /\ w' \in [Messages -> Attempts]
      BY <2>2, FinishTypes
    <3>2. QED BY <1>3, <2>1, <3>1 DEF TypeOK, Attempts, CheckPreferences, senderVars, userVars
  <2>3. CASE w' = [w EXCEPT ![m].pc = "tokens"] /\ UNCHANGED <<taskSt, tries>>
    <3>1. [w[m] EXCEPT !.pc = "tokens"] \in Attempts
      BY <1>0, ZenonT(60) DEF Attempts
    <3>2. w' \in [Messages -> Attempts]
      BY <1>0, <2>3, <3>1
    <3>3. QED BY <1>3, <2>1, <2>3, <3>2
             DEF TypeOK, Attempts, CheckPreferences, senderVars, userVars
  <2>4. QED BY <1>3, <2>2, <2>3 DEF CheckPreferences
<1>4. ASSUME NEW m \in Messages, ReadTokens(m) PROVE TypeOK'
  <2>1. faults' \in 0..MaxFaults
    BY <1>0, <1>4, FaultCounts DEF ReadTokens
  <2>2. CASE Finish(m) \/ Retry(m)
    <3>1. /\ taskSt' \in [Messages -> {"none", "queued", "active", "done", "archived"}]
          /\ tries' \in [Messages -> 0..RetryMax] /\ w' \in [Messages -> Attempts]
      BY <2>2, FinishTypes, RetryTypes
    <3>2. QED BY <1>4, <2>1, <3>1 DEF TypeOK, Attempts, ReadTokens, senderVars, userVars
  <2>3. CASE /\ w' = [w EXCEPT ![m] = [@ EXCEPT !.pc = "send", !.rows = row,
                                       !.sent = ActiveDevices, !.todo = ActiveDevices]]
             /\ UNCHANGED <<taskSt, tries>>
    <3>1. ActiveDevices \subseteq Items
      BY ItemsAre DEF ActiveDevices
    <3>2. [w[m] EXCEPT !.pc = "send", !.rows = row,
                       !.sent = ActiveDevices, !.todo = ActiveDevices] \in Attempts
      BY <1>0, <3>1, ZenonT(60) DEF Attempts
    <3>3. w' \in [Messages -> Attempts]
      BY <1>0, <2>3, <3>2
    <3>4. QED BY <1>4, <2>1, <2>3, <3>3 DEF TypeOK, Attempts, ReadTokens, senderVars, userVars
  <2>4. QED BY <1>4, <2>2, <2>3 DEF ReadTokens
<1>5. ASSUME NEW m \in Messages, SendToToken(m) PROVE TypeOK'
  <2>1. faults' \in 0..MaxFaults
    BY <1>0, <1>5, FaultCounts DEF SendToToken
  <2>2. PICK d \in w[m].todo, pc \in {"send", "deactivate"}, fail \in BOOLEAN :
          w' = [w EXCEPT ![m] = [w[m] EXCEPT !.todo = @ \ {d}, !.pc = pc, !.item = {d},
                                         !.failed = @ \/ fail]]
    BY <1>5 DEF SendToToken
  <2>3. d \in Items /\ w[m].todo \subseteq Items
    BY <1>0 DEF Attempts
  <2>4. PICK b : b = [w[m] EXCEPT !.todo = @ \ {d}, !.pc = pc, !.item = {d},
                                  !.failed = @ \/ fail]
    OBVIOUS
  <2>5. w' \in [Messages -> Attempts]
    <3>1. b \in Attempts
      BY <1>0, <2>3, <2>4, SendTypes
    <3>2. w' = [w EXCEPT ![m] = b]
      BY <2>2, <2>4
    <3>3. QED BY <1>0, <3>1, <3>2
  <2>6. copies' \in [Messages -> [Items -> Nat]]
    <3>1. UNCHANGED copies \/ \E e \in w[m].todo : Deliver(m, e)
      BY <1>5 DEF SendToToken
    <3>2. w[m].todo \subseteq Items
      BY <2>3
    <3>3. QED BY <1>0, <3>1, <3>2, DeliverTypes
  <2>7. refused' \subseteq Devices \X (1..MaxRows) \X Nat
    <3>1. UNCHANGED refused \/ \E e \in w[m].todo :
            refused' = refused \cup {<<e, w[m].rows[e].id, w[m].rows[e].token>>}
      BY <1>5 DEF SendToToken
    <3>2. \A e \in w[m].todo : <<e, w[m].rows[e].id, w[m].rows[e].token>>
                                 \in Devices \X (1..MaxRows) \X Nat
      <4> SUFFICES ASSUME NEW e \in w[m].todo
                   PROVE  <<e, w[m].rows[e].id, w[m].rows[e].token>>
                            \in Devices \X (1..MaxRows) \X Nat
        OBVIOUS
      <4>1. /\ e \in Devices /\ w[m].rows[e] \in RowType
            /\ w[m].rows[e].id \in 1..MaxRows
        BY <1>5, RefusalFits DEF SendToToken
      <4>2. w[m].rows[e].token \in Nat
        BY <4>1 DEF RowType
      <4>3. QED BY <4>1, <4>2
    <3>3. refused \subseteq Devices \X (1..MaxRows) \X Nat
      BY DEF TypeOK
    <3>4. QED BY <3>1, <3>2, <3>3
  <2>8. QED BY <1>5, <2>1, <2>5, <2>6, <2>7
           DEF TypeOK, Attempts, SendToToken, senderVars, userVars
<1>6. ASSUME NEW m \in Messages, Deactivate(m) PROVE TypeOK'
  <2>1. faults' \in 0..MaxFaults
    BY <1>0, <1>6, FaultCounts DEF Deactivate
  <2>2. [w[m] EXCEPT !.pc = "send"] \in Attempts
    BY <1>0, ZenonT(60) DEF Attempts
  <2>3. w' \in [Messages -> Attempts]
    BY <1>0, <1>6, <2>2 DEF Deactivate, Resume
  <2>4. row' \in [Devices -> RowType]
    BY <1>0, <1>6, ZenonT(60) DEF Deactivate, RowType
  <2>5. QED BY <1>6, <2>1, <2>3, <2>4 DEF TypeOK, Attempts, Deactivate, senderVars
<1>7. ASSUME NEW m \in Messages, SendEmail(m) PROVE TypeOK'
  <2>1. faults' \in 0..MaxFaults
    BY <1>0, <1>7, FaultCounts DEF SendEmail
  <2>2. PICK i \in w[m].todo, fail \in BOOLEAN :
          w' = [w EXCEPT ![m] = [w[m] EXCEPT !.todo = @ \ {i}, !.failed = @ \/ fail]]
    <3>1. \A i : Acceptable(m, i) \in BOOLEAN
      BY DEF Acceptable
    <3>2. QED BY <1>7, <3>1 DEF SendEmail
  <2>3. w[m].todo \subseteq Items
    BY <1>0 DEF Attempts
  <2>4. PICK b : b = [w[m] EXCEPT !.todo = @ \ {i}, !.failed = @ \/ fail]
    OBVIOUS
  <2>5. w' \in [Messages -> Attempts]
    <3>1. b \in Attempts
      BY <1>0, <2>3, <2>4, SendTypes
    <3>2. w' = [w EXCEPT ![m] = b]
      BY <2>2, <2>4
    <3>3. QED BY <1>0, <3>1, <3>2
  <2>6. copies' \in [Messages -> [Items -> Nat]]
    <3>1. UNCHANGED copies \/ \E e \in w[m].todo : Deliver(m, e)
      BY <1>7 DEF SendEmail
    <3>2. QED BY <1>0, <2>3, <3>1, DeliverTypes
  <2>7. QED BY <1>7, <2>1, <2>5, <2>6 DEF TypeOK, Attempts, SendEmail, senderVars, userVars
<1>8. ASSUME NEW m \in Messages, EndLoop(m) PROVE TypeOK'
  <2>1. Finish(m) \/ Retry(m)
    BY <1>8 DEF EndLoop
  <2>2. /\ taskSt' \in [Messages -> {"none", "queued", "active", "done", "archived"}]
        /\ tries' \in [Messages -> 0..RetryMax] /\ w' \in [Messages -> Attempts]
    BY <2>1, FinishTypes, RetryTypes
  <2>3. QED BY <1>8, <2>2 DEF TypeOK, Attempts, EndLoop, senderVars, userVars
<1>9. ASSUME NEW m \in Messages, Interrupt(m) PROVE TypeOK'
  <2>1. faults' \in 0..MaxFaults
    BY <1>0, <1>9, FaultCounts DEF Interrupt
  <2>2. CASE Retry(m)
    <3>1. /\ taskSt' \in [Messages -> {"none", "queued", "active", "done", "archived"}]
          /\ tries' \in [Messages -> 0..RetryMax] /\ w' \in [Messages -> Attempts]
      BY <2>2, RetryTypes
    <3>2. QED BY <1>9, <2>1, <3>1 DEF TypeOK, Attempts, Interrupt, senderVars, userVars
  <2>3. CASE /\ taskSt' = [taskSt EXCEPT ![m] = "queued"]
             /\ w' = [w EXCEPT ![m] = NoAttempt] /\ UNCHANGED tries
    <3>1. NoAttempt \in Attempts
      BY Blank
    <3>2. w' \in [Messages -> Attempts]
      BY <1>0, <2>3, <3>1
    <3>3. taskSt' \in [Messages -> {"none", "queued", "active", "done", "archived"}]
      BY <2>3 DEF TypeOK
    <3>4. QED BY <1>9, <2>1, <2>3, <3>2, <3>3
             DEF TypeOK, Attempts, Interrupt, senderVars, userVars
  <2>4. QED BY <1>9, <2>2, <2>3 DEF Interrupt
<1>10. ASSUME NEW m \in Messages, Timeout(m) PROVE TypeOK'
  <2>1. faults' \in 0..MaxFaults
    BY <1>0, <1>10, FaultCounts DEF Timeout
  <2>2. /\ taskSt' \in [Messages -> {"none", "queued", "active", "done", "archived"}]
        /\ tries' \in [Messages -> 0..RetryMax] /\ w' \in [Messages -> Attempts]
    BY <1>10, RetryTypes DEF Timeout
  <2>3. orphan' \in [Messages -> [Items -> Nat]]
    <3>1. orphan[m] \in [Items -> Nat]
      BY DEF TypeOK
    <3>2. [i \in Items |-> IF i \in w[m].todo THEN orphan[m][i] + 1 ELSE orphan[m][i]]
            \in [Items -> Nat]
      BY <3>1
    <3>3. orphan' = [orphan EXCEPT ![m] =
            [i \in Items |-> IF i \in w[m].todo THEN orphan[m][i] + 1 ELSE orphan[m][i]]]
      BY <1>10 DEF Timeout, TypeOK
    <3>4. QED BY <3>2, <3>3 DEF TypeOK
  <2>4. QED BY <1>10, <2>1, <2>2, <2>3 DEF TypeOK, Attempts, Timeout, userVars
<1>11. ASSUME NEW m \in Messages, OrphanSends(m) PROVE TypeOK'
  <2>1. PICK i \in Items : /\ orphan[m][i] > 0
                           /\ orphan' = [orphan EXCEPT ![m][i] = @ - 1]
                           /\ Deliver(m, i) \/ UNCHANGED copies
    BY <1>11 DEF OrphanSends
  <2>2. [orphan[m] EXCEPT ![i] = @ - 1] \in [Items -> Nat]
    BY <2>1 DEF TypeOK
  <2>3. orphan' = [orphan EXCEPT ![m] = [orphan[m] EXCEPT ![i] = @ - 1]]
    BY <2>1
  <2>4. orphan' \in [Messages -> [Items -> Nat]]
    BY <2>2, <2>3 DEF TypeOK
  <2>5. copies' \in [Messages -> [Items -> Nat]]
    BY <1>0, <2>1, DeliverTypes
  <2>6. QED BY <1>11, <2>4, <2>5 DEF TypeOK, OrphanSends, userVars
<1>12. ASSUME NEW d \in Devices, Rotate(d) PROVE TypeOK'
  <2>1. rotations' \in 0..MaxRotations /\ live' \in [Devices -> Nat]
    BY <1>12, MessageBounds DEF TypeOK, Rotate
  <2>2. QED BY <1>12, <2>1 DEF TypeOK, Rotate, senderVars
<1>13. ASSUME NEW d \in Devices, RegisterToken(d) PROVE TypeOK'
  <2>1. NextId \in Nat \ {0}
    BY NextIdIs
  <2>2. PICK k : k = IF row[d].present THEN row[d].id ELSE NextId
    OBVIOUS
  <2>3. k \in 0..MaxRows
    BY <1>0, <1>13, <2>1, <2>2, MessageBounds DEF RegisterToken, RowType
  <2>4. [id |-> k, present |-> TRUE, token |-> live[d], active |-> TRUE] \in RowType
    BY <1>0, <2>3 DEF RowType
  <2>5. row' = [row EXCEPT ![d] = [id |-> k, present |-> TRUE, token |-> live[d], active |-> TRUE]]
    BY <1>0, <1>13, <2>2 DEF RegisterToken
  <2>6. row' \in [Devices -> RowType]
    BY <1>0, <2>4, <2>5
  <2>7. QED BY <1>13, <2>6 DEF TypeOK, RegisterToken, senderVars
<1>14. ASSUME NEW d \in Devices, DeleteToken(d) PROVE TypeOK'
  <2>1. row' \in [Devices -> RowType]
    BY <1>0, <1>14 DEF DeleteToken, RowType
  <2>2. QED BY <1>14, <2>1 DEF TypeOK, DeleteToken, senderVars
<1>15. ASSUME SetPreferences PROVE TypeOK'
  BY <1>15 DEF TypeOK, SetPreferences, senderVars
<1>16. QED BY <1>1, <1>2, <1>3, <1>4, <1>5, <1>6, <1>7, <1>8, <1>9, <1>10, <1>11,
              <1>12, <1>13, <1>14, <1>15 DEF Next, ProcessStep

\* How the rest of the system sees a step.
Elapses == Onward(faults, refused, live, row, faults', refused', live', row')

LEMMA RowsStep ==
  ASSUME TypeOK, TypeOK', Books, IsFiniteSet(refused), RowsFit, Next
  PROVE  IsFiniteSet(refused') /\ RowsFit' /\ Elapses
<1>0. /\ faults \in Nat /\ live \in [Devices -> Nat] /\ live' \in [Devices -> Nat]
      /\ row \in [Devices -> RowType] /\ row' \in [Devices -> RowType]
  BY MessageBounds DEF TypeOK
<1>1. ASSUME row' = row, live' = live, IsFiniteSet(refused'), refused \subseteq refused',
             Fault \/ NoFault \/ faults' = faults
      PROVE  IsFiniteSet(refused') /\ RowsFit' /\ Elapses
  <2>1. RowsFit'
    BY <1>1 DEF RowsFit
  <2>2. Elapses
    BY <1>0, <1>1 DEF Elapses, Onward, Fault, NoFault
  <2>3. QED BY <1>1, <2>1, <2>2
<1>2. ASSUME refused' = refused, UNCHANGED userVars,
             Fault \/ NoFault \/ faults' = faults
      PROVE  IsFiniteSet(refused') /\ RowsFit' /\ Elapses
  BY <1>1, <1>2 DEF userVars
<1>3. ASSUME NEW m \in Messages,
             \/ Send(m) \/ Start(m) \/ CheckPreferences(m) \/ ReadTokens(m) \/ SendEmail(m)
             \/ EndLoop(m) \/ Interrupt(m) \/ Timeout(m) \/ OrphanSends(m)
      PROVE  IsFiniteSet(refused') /\ RowsFit' /\ Elapses
  <2>1. refused' = refused /\ UNCHANGED userVars
    BY <1>3 DEF Send, Start, CheckPreferences, ReadTokens, SendEmail, EndLoop, Interrupt,
                Timeout, OrphanSends
  <2>2. Fault \/ NoFault \/ faults' = faults
    BY <1>3 DEF Send, Start, CheckPreferences, ReadTokens, SendEmail, EndLoop, Interrupt,
                Timeout, OrphanSends
  <2>3. QED BY <1>2, <2>1, <2>2
<1>4. ASSUME NEW m \in Messages, SendToToken(m)
      PROVE  IsFiniteSet(refused') /\ RowsFit' /\ Elapses
  <2>1. /\ row' = row /\ live' = live /\ (Fault \/ NoFault)
        /\ refused' = refused \/ \E x : refused' = refused \cup {x}
    BY <1>4 DEF SendToToken, userVars
  <2>2. IsFiniteSet(refused')
    <3>1. CASE refused' = refused
      BY <3>1
    <3>2. ASSUME NEW x, refused' = refused \cup {x} PROVE IsFiniteSet(refused')
      BY <3>2, FS_AddElement
    <3>3. QED BY <2>1, <3>1, <3>2
  <2>3. QED BY <1>1, <2>1, <2>2
<1>5. ASSUME NEW m \in Messages, Deactivate(m)
      PROVE  IsFiniteSet(refused') /\ RowsFit' /\ Elapses
  <2>1. /\ refused' = refused /\ live' = live /\ (Fault \/ NoFault)
        /\ \A d \in Devices : row'[d] = row[d] \/ row'[d] = [row[d] EXCEPT !.active = FALSE]
    BY <1>5 DEF Deactivate
  <2>2. \A d \in Devices : /\ row'[d].token = row[d].token /\ row'[d].id = row[d].id
                           /\ row'[d].present = row[d].present
                           /\ row'[d] = row[d] \/ ~row'[d].active
    BY <1>0, <2>1 DEF RowType
  <2>3. RowsFit'
    BY <2>1, <2>2 DEF RowsFit, RowFits
  <2>4. Elapses
    BY <1>0, <2>1, <2>2 DEF Elapses, Onward, Fault, NoFault
  <2>5. QED BY <2>1, <2>3, <2>4
<1>6. ASSUME NEW d \in Devices, Rotate(d)
      PROVE  IsFiniteSet(refused') /\ RowsFit' /\ Elapses
  <2>1. /\ refused' = refused /\ row' = row /\ faults' = faults
        /\ \A e \in Devices : live'[e] = live[e] \/ live'[e] = live[e] + 1
    BY <1>0, <1>6 DEF Rotate
  <2>2. \A e \in Devices : live[e] <= live'[e]
    BY <1>0, <2>1
  <2>3. RowsFit'
    <3> SUFFICES ASSUME NEW e \in Devices PROVE RowFits(row'[e], live'[e])
      BY DEF RowsFit
    <3>1. RowFits(row[e], live[e]) /\ row[e].token \in Nat
      BY <1>0 DEF RowsFit, RowType
    <3>2. row[e].token <= live'[e]
      BY <1>0, <2>2, <3>1 DEF RowFits
    <3>3. QED BY <2>1, <3>1, <3>2 DEF RowFits
  <2>4. Elapses
    BY <1>0, <2>1, <2>2 DEF Elapses, Onward
  <2>5. QED BY <2>1, <2>3, <2>4
<1>7. ASSUME NEW d \in Devices, RegisterToken(d)
      PROVE  IsFiniteSet(refused') /\ RowsFit' /\ Elapses
  <2>1. NextId \in Nat \ {0}
    BY NextIdIs
  <2>2. /\ refused' = refused /\ live' = live /\ faults' = faults
        /\ \A e \in Devices : e # d => row'[e] = row[e]
        /\ row'[d].token = live[d] /\ row'[d].active /\ row'[d].present
        /\ row'[d].id = IF row[d].present THEN row[d].id ELSE NextId
    BY <1>0, <1>7 DEF RegisterToken
  <2>3. row'[d].id >= 1
    BY <2>1, <2>2 DEF RowsFit, RowFits
  <2>4. RowsFit'
    <3> SUFFICES ASSUME NEW e \in Devices PROVE RowFits(row'[e], live'[e])
      BY DEF RowsFit
    <3>1. CASE e = d
      BY <1>0, <2>2, <2>3, <3>1 DEF RowFits
    <3>2. CASE e # d
      BY <2>2, <3>2 DEF RowsFit
    <3>3. QED BY <3>1, <3>2
  <2>5. Elapses
    BY <1>0, <2>2 DEF Elapses, Onward
  <2>6. QED BY <2>2, <2>4, <2>5
<1>8. ASSUME NEW d \in Devices, DeleteToken(d)
      PROVE  IsFiniteSet(refused') /\ RowsFit' /\ Elapses
  <2>1. /\ refused' = refused /\ live' = live /\ faults' = faults
        /\ \A e \in Devices : e # d => row'[e] = row[e]
        /\ row'[d].token = row[d].token /\ ~row'[d].active /\ ~row'[d].present
    BY <1>0, <1>8 DEF DeleteToken, RowType
  <2>2. RowsFit'
    <3> SUFFICES ASSUME NEW e \in Devices PROVE RowFits(row'[e], live'[e])
      BY DEF RowsFit
    <3>1. RowFits(row[e], live[e])
      BY DEF RowsFit
    <3>2. QED BY <2>1, <3>1 DEF RowFits
  <2>3. Elapses
    BY <1>0, <2>1 DEF Elapses, Onward
  <2>4. QED BY <2>1, <2>2, <2>3
<1>9. ASSUME SetPreferences
      PROVE  IsFiniteSet(refused') /\ RowsFit' /\ Elapses
  BY <1>1, <1>9 DEF SetPreferences
<1>10. QED BY <1>3, <1>4, <1>5, <1>6, <1>7, <1>8, <1>9 DEF Next, ProcessStep

-----------------------------------------------------------------------------
(***************************************************************************)
(* The account of every message, step by step                              *)
(***************************************************************************)
OldBook(m) ==
  Book(m, w[m], taskSt[m], tries[m], copies[m], orphan[m], faults, refused, live, row)

\* The book of m after the step, and the part of it that TypeOK' gives.
NewBook(m) ==
  Book(m, w'[m], taskSt'[m], tries'[m], copies'[m], orphan'[m],
       faults', refused', live', row')
NewSorts(m) ==
  Sorts(w'[m], taskSt'[m], tries'[m], copies'[m], orphan'[m],
        faults', refused', live', row')

LEMMA Sorted ==
  ASSUME TypeOK', IsFiniteSet(refused'), RowsFit', NEW m \in Messages
  PROVE  NewSorts(m)
<1>1. /\ w'[m] \in Attempts /\ tries'[m] \in 0..RetryMax
      /\ taskSt'[m] \in {"none", "queued", "active", "done", "archived"}
  BY DEF TypeOK, Attempts
<1>2. copies'[m] \in [Items -> Nat] /\ orphan'[m] \in [Items -> Nat]
  BY DEF TypeOK
<1>3. /\ faults' \in 0..MaxFaults /\ refused' \subseteq Devices \X (1..MaxRows) \X Nat
      /\ live' \in [Devices -> Nat] /\ row' \in [Devices -> RowType]
  BY DEF TypeOK
<1>4. \A d \in Devices : RowFits(row'[d], live'[d])
  BY DEF RowsFit
<1>5. QED BY <1>1, <1>2, <1>3, <1>4 DEF NewSorts, Sorts

\* A message the step is not about.
Untouched(n) ==
  /\ w'[n] = w[n] /\ taskSt'[n] = taskSt[n] /\ tries'[n] = tries[n]
  /\ copies'[n] = copies[n] /\ orphan'[n] = orphan[n]

LEMMA UntouchedBook ==
  ASSUME NEW n \in Messages, OldBook(n), NewSorts(n), Elapses, Untouched(n)
  PROVE  NewBook(n)
<1>1. PICK a, st, tr, cp, ob : /\ a = w[n] /\ st = taskSt[n] /\ tr = tries[n]
                               /\ cp = copies[n] /\ ob = orphan[n]
  OBVIOUS
<1>2. PICK fl2, ref2, lv2, rw2 : /\ fl2 = faults' /\ ref2 = refused'
                                 /\ lv2 = live' /\ rw2 = row'
  OBVIOUS
<1>3. Book(n, a, st, tr, cp, ob, faults, refused, live, row)
  BY <1>1 DEF OldBook
<1>4. Sorts(a, st, tr, cp, ob, fl2, ref2, lv2, rw2)
  BY <1>1, <1>2 DEF NewSorts, Untouched
<1>5. Onward(faults, refused, live, row, fl2, ref2, lv2, rw2)
  BY <1>2 DEF Elapses
<1>6. Book(n, a, st, tr, cp, ob, fl2, ref2, lv2, rw2)
  BY <1>3, <1>4, <1>5, RestBook
<1>7. QED BY <1>1, <1>2, <1>6 DEF NewBook, Untouched

LEMMA SendKeeps ==
  ASSUME NEW m \in Messages, TypeOK, OldBook(m), NewSorts(m), Unsent, Send(m)
  PROVE  NewBook(m)
<1>1. PICK a, tr, cp, ob : /\ a = w[m] /\ tr = tries[m] /\ cp = copies[m] /\ ob = orphan[m]
  OBVIOUS
<1>2. PICK st2, fl2 : st2 = taskSt'[m] /\ fl2 = faults'
  OBVIOUS
<1>3. /\ w' = w /\ tries' = tries /\ copies' = copies /\ orphan' = orphan
      /\ refused' = refused /\ live' = live /\ row' = row
  BY DEF Send, userVars
<1>4. taskSt[m] = "none" /\ st2 \in {"none", "queued"}
  <2>1. taskSt[m] = "none"
    BY DEF Send, Unsent
  <2>2. QED BY <1>2, <2>1 DEF Send, TypeOK
<1>5. fl2 \in {faults, faults + 1}
  BY <1>2 DEF Send, Fault, NoFault
<1>6. Book(m, a, "none", tr, cp, ob, faults, refused, live, row)
  BY <1>1, <1>4 DEF OldBook
<1>7. Sorts(a, st2, tr, cp, ob, fl2, refused, live, row)
  BY <1>1, <1>2, <1>3 DEF NewSorts
<1>8. Book(m, a, st2, tr, cp, ob, fl2, refused, live, row)
  BY <1>4, <1>5, <1>6, <1>7, QueueBook
<1>9. QED BY <1>1, <1>2, <1>3, <1>8 DEF NewBook

LEMMA StartKeeps ==
  ASSUME NEW m \in Messages, TypeOK, OldBook(m), NewSorts(m), Start(m)
  PROVE  NewBook(m)
<1>1. PICK a, tr, cp, ob : /\ a = w[m] /\ tr = tries[m] /\ cp = copies[m] /\ ob = orphan[m]
  OBVIOUS
<1>2. PICK b, st2 : b = w'[m] /\ st2 = taskSt'[m]
  OBVIOUS
<1>3. /\ tries' = tries /\ copies' = copies /\ orphan' = orphan /\ faults' = faults
      /\ refused' = refused /\ live' = live /\ row' = row
  BY DEF Start, senderVars, userVars
<1>4. Book(m, a, "queued", tr, cp, ob, faults, refused, live, row)
  BY <1>1 DEF OldBook, Start
<1>5. a = NoAttempt
  BY <1>4 DEF Book, Fits
<1>6. Sorts(b, st2, tr, cp, ob, faults, refused, live, row)
  BY <1>1, <1>2, <1>3 DEF NewSorts
<1>7. /\ b.rows = a.rows /\ ~b.failed /\ b.todo = b.sent
      /\ \/ st2 = "archived" /\ b = a /\ m \in Corrupt
         \/ st2 = "active" /\ m \in Pushes /\ b.pc = "prefs" /\ b.sent = {}
         \/ st2 = "active" /\ m \notin Pushes /\ b.pc = "send" /\ b.sent = Parts[m]
  <2>1. CASE m \in Corrupt
    <3>1. b = a /\ st2 = "archived"
      BY <1>1, <1>2, <2>1 DEF Start, TypeOK
    <3>2. QED BY <1>5, <2>1, <3>1 DEF NoAttempt
  <2>2. CASE m \notin Corrupt /\ m \in Pushes
    <3>1. b = [NoAttempt EXCEPT !.pc = "prefs"] /\ st2 = "active"
      BY <1>1, <1>2, <2>2 DEF Start, TypeOK
    <3>2. QED BY <1>5, <2>2, <3>1 DEF NoAttempt
  <2>3. CASE m \notin Corrupt /\ m \notin Pushes
    <3>1. /\ b = [NoAttempt EXCEPT !.pc = "send", !.sent = Parts[m], !.todo = Parts[m]]
          /\ st2 = "active"
      BY <1>1, <1>2, <2>3 DEF Start, TypeOK
    <3>2. QED BY <1>5, <2>3, <3>1 DEF NoAttempt
  <2>4. QED BY <2>1, <2>2, <2>3
<1>8. Book(m, b, st2, tr, cp, ob, faults, refused, live, row)
  BY <1>4, <1>6, <1>7, StartBook
<1>9. QED BY <1>1, <1>2, <1>3, <1>8 DEF NewBook

\* The three ways an attempt ends, for the actions that share them.
LEMMA FinishKeeps ==
  ASSUME NEW m \in Messages, TypeOK, OldBook(m), NewSorts(m), Finish(m),
         w[m].pc \in {"prefs", "tokens", "send"}, w[m].todo = {}, ~w[m].failed,
         UNCHANGED <<copies, orphan, faults, refused, live, row>>
  PROVE  NewBook(m)
<1>1. PICK a, tr, cp, ob : /\ a = w[m] /\ tr = tries[m] /\ cp = copies[m] /\ ob = orphan[m]
  OBVIOUS
<1>2. PICK b : b = w'[m]
  OBVIOUS
<1>3. taskSt[m] = "active" /\ a \in Attempts
  BY <1>1 DEF OldBook, Book, Fits, TypeOK, Attempts
<1>4. /\ taskSt'[m] = "done" /\ tries' = tries
      /\ b = [a EXCEPT !.pc = "idle"]
  BY <1>1, <1>2 DEF Finish, TypeOK
<1>5. /\ b.pc = "idle" /\ b.todo = {} /\ b.sent = a.sent /\ b.rows = a.rows /\ ~b.failed
  BY <1>1, <1>3, <1>4 DEF Attempts
<1>6. Book(m, a, "active", tr, cp, ob, faults, refused, live, row)
  BY <1>1, <1>3 DEF OldBook
<1>7. Sorts(b, "done", tr, cp, ob, faults, refused, live, row)
  BY <1>1, <1>2, <1>4 DEF NewSorts
<1>8. a.pc \in {"prefs", "tokens", "send"} /\ a.todo = {} /\ ~a.failed
  BY <1>1
<1>9. Book(m, b, "done", tr, cp, ob, faults, refused, live, row)
  BY <1>5, <1>6, <1>7, <1>8, FinishBook
<1>10. QED BY <1>1, <1>2, <1>4, <1>9 DEF NewBook

\* The attempt fails and its task goes back, or is archived.
Returns(m) ==
  /\ w'[m] = NoAttempt
  /\ \/ taskSt'[m] = "queued" /\ tries'[m] \in {tries[m], tries[m] + 1}
     \/ taskSt'[m] = "archived" /\ tries'[m] = tries[m]

LEMMA RetryReturns ==
  ASSUME NEW m \in Messages, TypeOK, Retry(m)
  PROVE  Returns(m)
BY DEF Retry, TypeOK, Returns

LEMMA ResetKeeps ==
  ASSUME NEW m \in Messages, TypeOK, OldBook(m), NewSorts(m), Returns(m), taskSt[m] = "active",
         UNCHANGED <<copies, refused, live, row>>,
         \/ orphan'[m] = orphan[m]
         \/ orphan'[m] = [i \in Items |-> IF i \in w[m].todo THEN orphan[m][i] + 1
                                                             ELSE orphan[m][i]],
         \/ faults' = faults + 1
         \/ faults' = faults /\ w[m].failed /\ w[m].pc = "send"
  PROVE  NewBook(m)
<1>1. PICK a, tr, cp, ob : /\ a = w[m] /\ tr = tries[m] /\ cp = copies[m] /\ ob = orphan[m]
  OBVIOUS
<1>2. PICK st2, tr2, ob2, fl2 : /\ st2 = taskSt'[m] /\ tr2 = tries'[m] /\ ob2 = orphan'[m]
                                /\ fl2 = faults'
  OBVIOUS
<1>3. \/ st2 = "queued" /\ tr2 \in {tr, tr + 1}
      \/ st2 = "archived" /\ tr2 = tr
  BY <1>1, <1>2 DEF Returns
<1>4. \/ ob2 = ob
      \/ ob2 = [i \in Items |-> IF i \in a.todo THEN ob[i] + 1 ELSE ob[i]]
  BY <1>1, <1>2
<1>5. \/ fl2 = faults + 1
      \/ fl2 = faults /\ a.failed /\ a.pc = "send"
  BY <1>1, <1>2
<1>6. Book(m, a, "active", tr, cp, ob, faults, refused, live, row)
  BY <1>1 DEF OldBook
<1>7. Sorts(NoAttempt, st2, tr2, cp, ob2, fl2, refused, live, row)
  BY <1>1, <1>2 DEF NewSorts, Returns
<1>8. Book(m, NoAttempt, st2, tr2, cp, ob2, fl2, refused, live, row)
  BY <1>3, <1>4, <1>5, <1>6, <1>7, ResetBook
<1>9. QED BY <1>1, <1>2, <1>8 DEF NewBook, Returns

LEMMA PrefsKeep ==
  ASSUME NEW m \in Messages, TypeOK, OldBook(m), NewSorts(m), CheckPreferences(m)
  PROVE  NewBook(m)
<1>0. /\ w[m].pc = "prefs" /\ taskSt[m] = "active" /\ w[m].todo = {} /\ ~w[m].failed
      /\ w[m] \in Attempts
  BY DEF CheckPreferences, OldBook, Book, Fits, TypeOK, Attempts
<1>1. CASE Finish(m) /\ NoFault
  BY <1>0, <1>1, FinishKeeps DEF CheckPreferences, senderVars, userVars, NoFault
<1>2. CASE w' = [w EXCEPT ![m].pc = "tokens"] /\ UNCHANGED <<taskSt, tries>>
  <2>1. PICK a, tr, cp, ob : /\ a = w[m] /\ tr = tries[m] /\ cp = copies[m]
                             /\ ob = orphan[m]
    OBVIOUS
  <2>2. PICK b, fl2 : b = w'[m] /\ fl2 = faults'
    OBVIOUS
  <2>3. b = [a EXCEPT !.pc = "tokens"]
    BY <1>2, <2>1, <2>2 DEF TypeOK
  <2>4. /\ a.pc = "prefs" /\ b.pc = "tokens" /\ b.rows = a.rows /\ b.sent = a.sent
        /\ b.todo = a.todo /\ b.item = a.item /\ b.failed = a.failed
    BY <1>0, <2>1, <2>3 DEF Attempts
  <2>5. fl2 \in {faults, faults + 1}
    BY <2>2 DEF CheckPreferences, Fault, NoFault
  <2>6. /\ taskSt' = taskSt /\ tries' = tries /\ copies' = copies /\ orphan' = orphan
        /\ refused' = refused /\ live' = live /\ row' = row
    BY <1>2 DEF CheckPreferences, senderVars, userVars
  <2>7. Book(m, a, "active", tr, cp, ob, faults, refused, live, row)
    BY <1>0, <2>1 DEF OldBook
  <2>8. Sorts(b, "active", tr, cp, ob, fl2, refused, live, row)
    BY <1>0, <2>1, <2>2, <2>6 DEF NewSorts
  <2>9. Book(m, b, "active", tr, cp, ob, fl2, refused, live, row)
    BY <2>4, <2>5, <2>7, <2>8, PrefsBook
  <2>10. QED BY <1>0, <2>1, <2>2, <2>6, <2>9 DEF NewBook
<1>3. QED BY <1>1, <1>2 DEF CheckPreferences

LEMMA ReadKeeps ==
  ASSUME NEW m \in Messages, TypeOK, OldBook(m), NewSorts(m), ReadTokens(m)
  PROVE  NewBook(m)
<1>0. /\ w[m].pc = "tokens" /\ taskSt[m] = "active" /\ w[m].todo = {} /\ ~w[m].failed
      /\ w[m] \in Attempts /\ m \in Pushes
  BY DEF ReadTokens, OldBook, Book, Fits, TypeOK, Attempts
<1>1. CASE Finish(m) /\ NoFault
  BY <1>0, <1>1, FinishKeeps DEF ReadTokens, senderVars, userVars, NoFault
<1>2. CASE Retry(m) /\ Fault
  <2>1. Returns(m)
    BY <1>2, RetryReturns
  <2>2. UNCHANGED <<copies, refused, live, row>> /\ orphan' = orphan /\ faults' = faults + 1
    BY <1>2 DEF ReadTokens, senderVars, userVars, Fault
  <2>3. QED BY <1>0, <2>1, <2>2, ResetKeeps
<1>3. CASE /\ w' = [w EXCEPT ![m] = [@ EXCEPT !.pc = "send", !.rows = row,
                                     !.sent = ActiveDevices, !.todo = ActiveDevices]]
           /\ UNCHANGED <<taskSt, tries>> /\ NoFault
  <2>1. PICK a, tr, cp, ob : /\ a = w[m] /\ tr = tries[m] /\ cp = copies[m]
                             /\ ob = orphan[m]
    OBVIOUS
  <2>2. PICK b : b = w'[m]
    OBVIOUS
  <2>3. PICK S : S = ActiveDevices
    OBVIOUS
  <2>4. b = [a EXCEPT !.pc = "send", !.rows = row, !.sent = S, !.todo = S]
    BY <1>3, <2>1, <2>2, <2>3 DEF TypeOK
  <2>5. /\ a.pc = "tokens" /\ b.pc = "send" /\ b.rows = row /\ b.failed = a.failed
        /\ b.sent = S /\ b.todo = S
    BY <1>0, <2>1, <2>4 DEF Attempts
  <2>6. b.sent = {d \in Devices : row[d].present /\ row[d].active} /\ b.todo = b.sent
    BY <2>3, <2>5 DEF ActiveDevices
  <2>7. /\ taskSt' = taskSt /\ tries' = tries /\ copies' = copies /\ orphan' = orphan
        /\ refused' = refused /\ live' = live /\ row' = row /\ faults' = faults
    BY <1>3 DEF ReadTokens, senderVars, userVars, NoFault
  <2>8. Book(m, a, "active", tr, cp, ob, faults, refused, live, row)
    BY <1>0, <2>1 DEF OldBook
  <2>9. Sorts(b, "active", tr, cp, ob, faults, refused, live, row)
    BY <1>0, <2>1, <2>2, <2>7 DEF NewSorts
  <2>10. Book(m, b, "active", tr, cp, ob, faults, refused, live, row)
    BY <1>0, <2>5, <2>6, <2>8, <2>9, FetchBook
  <2>11. QED BY <1>0, <2>1, <2>2, <2>7, <2>10 DEF NewBook
<1>4. QED BY <1>1, <1>2, <1>3 DEF ReadTokens

LEMMA TokenKeeps ==
  ASSUME NEW m \in Messages, TypeOK, Books, OldBook(m), NewSorts(m), SendToToken(m)
  PROVE  NewBook(m)
<1>0. /\ w[m].pc = "send" /\ taskSt[m] = "active" /\ w[m] \in Attempts /\ m \in Pushes
      /\ w[m].todo \subseteq Items /\ copies[m] \in [Items -> Nat]
  BY DEF SendToToken, OldBook, Book, Fits, TypeOK, Attempts
<1>1. PICK a, tr, cp, ob : /\ a = w[m] /\ tr = tries[m] /\ cp = copies[m]
                           /\ ob = orphan[m]
  OBVIOUS
<1>2. PICK b, fl2, cp2, ref2 : b = w'[m] /\ fl2 = faults' /\ cp2 = copies'[m] /\ ref2 = refused'
  OBVIOUS
<1>3. /\ taskSt' = taskSt /\ tries' = tries /\ orphan' = orphan /\ live' = live /\ row' = row
  BY DEF SendToToken, senderVars, userVars
<1>4. Book(m, a, "active", tr, cp, ob, faults, refused, live, row)
  BY <1>0, <1>1 DEF OldBook
<1>5. Sorts(b, "active", tr, cp2, ob, fl2, ref2, live, row)
  BY <1>0, <1>1, <1>2, <1>3 DEF NewSorts
<1>6. ASSUME NEW d \in w[m].todo, NEW pc \in {"send", "deactivate"}, NEW fail \in BOOLEAN,
             w' = [w EXCEPT ![m] = [w[m] EXCEPT !.todo = @ \ {d}, !.pc = pc, !.item = {d},
                                                !.failed = @ \/ fail]]
      PROVE  /\ b.pc = pc /\ b.rows = a.rows /\ b.sent = a.sent /\ b.item = {d}
             /\ b.todo = a.todo \ {d} /\ (b.failed <=> a.failed \/ fail)
  <2>1. b = [a EXCEPT !.todo = @ \ {d}, !.pc = pc, !.item = {d}, !.failed = @ \/ fail]
    BY <1>1, <1>2, <1>6 DEF TypeOK
  <2>2. a \in Attempts
    BY <1>0, <1>1
  <2>3. QED BY <2>1, <2>2 DEF Attempts
<1>7. ASSUME NEW d \in w[m].todo, Deliver(m, d)
      PROVE  cp2 = [cp EXCEPT ![d] = @ + 1]
  BY <1>1, <1>2, <1>7 DEF Deliver, TypeOK
<1>8. ASSUME NEW d \in w[m].todo, NEW fail \in BOOLEAN, fl2 \in {faults, faults + 1},
             w' = [w EXCEPT ![m] = [w[m] EXCEPT !.todo = @ \ {d}, !.pc = "send", !.item = {d},
                                                !.failed = @ \/ fail]],
             UNCHANGED refused, UNCHANGED copies \/ Deliver(m, d),
             ~fail => Deliver(m, d), fail => fl2 = faults + 1
      PROVE  NewBook(m)
  <2>1. /\ b.pc = "send" /\ b.rows = a.rows /\ b.sent = a.sent
        /\ b.todo = a.todo \ {d} /\ (b.failed <=> a.failed \/ fail)
    BY <1>6, <1>8
  <2>2. cp2 = cp \/ cp2 = [cp EXCEPT ![d] = @ + 1]
    BY <1>1, <1>2, <1>7, <1>8
  <2>3. ~fail => cp2 = [cp EXCEPT ![d] = @ + 1]
    BY <1>7, <1>8
  <2>4. a.pc = "send" /\ d \in a.todo
    BY <1>0, <1>1
  <2>5. Sorts(b, "active", tr, cp2, ob, fl2, refused, live, row)
    BY <1>2, <1>5, <1>8
  <2>6. /\ fl2 \in {faults, faults + 1} /\ fail \in BOOLEAN
        /\ fail /\ Sendable(m) => fl2 = faults + 1
    BY <1>8
  <2>7. Book(m, b, "active", tr, cp2, ob, fl2, refused, live, row)
    BY <1>4, <2>1, <2>2, <2>3, <2>4, <2>5, <2>6, SentBook
  <2>8. QED BY <1>0, <1>1, <1>2, <1>3, <1>8, <2>7 DEF NewBook
<1>9. ASSUME NEW d \in w[m].todo, ~Acceptable(m, d), NoFault, UNCHANGED copies,
             w' = [w EXCEPT ![m] = [w[m] EXCEPT !.todo = @ \ {d}, !.pc = "deactivate",
                                                !.item = {d}, !.failed = @ \/ TRUE]],
             refused' = refused \cup {<<d, w[m].rows[d].id, w[m].rows[d].token>>}
      PROVE  NewBook(m)
  <2>1. /\ b.pc = "deactivate" /\ b.rows = a.rows /\ b.sent = a.sent /\ b.item = {d}
        /\ b.todo = a.todo \ {d} /\ b.failed
    BY <1>6, <1>9
  <2>2. PICK x : x = <<d, a.rows[d].id, a.rows[d].token>>
    OBVIOUS
  <2>3. ref2 = refused \cup {x}
    BY <1>1, <1>2, <1>9, <2>2
  <2>4. m \notin Invalid => a.rows[d].token # live[d]
    BY <1>0, <1>1, <1>9 DEF Acceptable
  <2>5. d \in Devices /\ a.pc = "send" /\ d \in a.todo
    BY <1>0, <1>1, RefusalFits
  <2>6. Sorts(b, "active", tr, cp, ob, faults, ref2, live, row)
    BY <1>1, <1>2, <1>5, <1>9 DEF NoFault
  <2>7. Book(m, b, "active", tr, cp, ob, faults, ref2, live, row)
    BY <1>0, <1>4, <2>1, <2>2, <2>3, <2>4, <2>5, <2>6, RefusedBook
  <2>8. QED BY <1>0, <1>1, <1>2, <1>3, <1>9, <2>7 DEF NewBook, NoFault
<1>10. PICK d \in w[m].todo :
         \/ /\ Deliver(m, d) /\ NoFault /\ UNCHANGED refused
            /\ w' = [w EXCEPT ![m] = [w[m] EXCEPT !.todo = @ \ {d}, !.pc = "send",
                                                  !.item = {d}, !.failed = @ \/ FALSE]]
         \/ /\ ~Acceptable(m, d) /\ NoFault /\ UNCHANGED copies
            /\ w' = [w EXCEPT ![m] = [w[m] EXCEPT !.todo = @ \ {d}, !.pc = "deactivate",
                                                  !.item = {d}, !.failed = @ \/ TRUE]]
            /\ refused' = refused \cup {<<d, w[m].rows[d].id, w[m].rows[d].token>>}
         \/ /\ Fault /\ UNCHANGED refused /\ (UNCHANGED copies \/ Deliver(m, d))
            /\ w' = [w EXCEPT ![m] = [w[m] EXCEPT !.todo = @ \ {d}, !.pc = "send",
                                                  !.item = {d}, !.failed = @ \/ TRUE]]
  BY DEF SendToToken
<1>11. Fault => fl2 = faults + 1
  BY <1>2 DEF Fault
<1>12. NoFault => fl2 = faults
  BY <1>2 DEF NoFault
<1>13. QED BY <1>8, <1>9, <1>10, <1>11, <1>12

\* First the row moves on, then the attempt.
LEMMA DeactivateKeeps ==
  ASSUME NEW m \in Messages, TypeOK, OldBook(m), NewSorts(m), Elapses, Deactivate(m)
  PROVE  NewBook(m)
<1>0. w[m].pc = "deactivate" /\ taskSt[m] = "active" /\ w[m] \in Attempts
  BY DEF Deactivate, OldBook, Book, Fits, TypeOK, Attempts
<1>1. PICK a, tr, cp, ob : /\ a = w[m] /\ tr = tries[m] /\ cp = copies[m]
                           /\ ob = orphan[m]
  OBVIOUS
<1>2. PICK b, fl2, rw2 : b = w'[m] /\ fl2 = faults' /\ rw2 = row'
  OBVIOUS
<1>3. /\ taskSt' = taskSt /\ tries' = tries /\ copies' = copies /\ orphan' = orphan
      /\ refused' = refused /\ live' = live
  BY DEF Deactivate, senderVars
<1>4. b = [a EXCEPT !.pc = "send"]
  BY <1>1, <1>2 DEF Deactivate, Resume, TypeOK
<1>5. /\ a.pc = "deactivate" /\ b.pc = "send" /\ b.rows = a.rows /\ b.sent = a.sent
      /\ b.todo = a.todo /\ b.failed = a.failed
  BY <1>0, <1>1, <1>4 DEF Attempts
<1>6. Book(m, a, "active", tr, cp, ob, faults, refused, live, row)
  BY <1>0, <1>1 DEF OldBook
<1>7. Sorts(b, "active", tr, cp, ob, fl2, refused, live, rw2)
  BY <1>0, <1>1, <1>2, <1>3 DEF NewSorts
<1>8. faults \in 0..MaxFaults /\ live \in [Devices -> Nat]
  BY DEF TypeOK
<1>9. Sorts(a, "active", tr, cp, ob, faults, refused, live, rw2)
  BY <1>0, <1>1, <1>7, <1>8 DEF Sorts
<1>10. Onward(faults, refused, live, row, faults, refused, live, rw2)
  BY <1>2, <1>3, <1>8, MessageBounds DEF Elapses, Onward
<1>11. Book(m, a, "active", tr, cp, ob, faults, refused, live, rw2)
  BY <1>6, <1>9, <1>10, RestBook
<1>12. \/ fl2 = faults + 1
       \/ fl2 = faults /\ \A d \in a.item : d \in Devices =>
             ~(rw2[d].present /\ rw2[d].active /\ rw2[d].id = a.rows[d].id)
  <2>1. CASE Fault
    BY <1>2, <2>1 DEF Fault
  <2>2. CASE /\ row' = [d \in Devices |->
                         IF d \in w[m].item /\ row[d].present /\ row[d].id = w[m].rows[d].id
                         THEN [row[d] EXCEPT !.active = FALSE] ELSE row[d]]
             /\ NoFault
    <3>1. ASSUME NEW d \in Devices, d \in a.item
          PROVE  ~(rw2[d].present /\ rw2[d].active /\ rw2[d].id = a.rows[d].id)
      <4>1. rw2[d] = IF row[d].present /\ row[d].id = a.rows[d].id
                     THEN [row[d] EXCEPT !.active = FALSE] ELSE row[d]
        BY <1>1, <1>2, <2>2, <3>1
      <4>2. row[d] \in RowType
        BY DEF TypeOK
      <4>3. QED BY <4>1, <4>2 DEF RowType
    <3>2. QED BY <1>2, <2>2, <3>1 DEF NoFault
  <2>3. QED BY <2>1, <2>2 DEF Deactivate
<1>13. fl2 \in {faults, faults + 1}
  BY <1>12
<1>14. Book(m, b, "active", tr, cp, ob, fl2, refused, live, rw2)
  BY <1>5, <1>7, <1>11, <1>12, <1>13, ResumeBook
<1>15. QED BY <1>0, <1>1, <1>2, <1>3, <1>14 DEF NewBook

LEMMA EmailKeeps ==
  ASSUME NEW m \in Messages, TypeOK, OldBook(m), NewSorts(m), SendEmail(m)
  PROVE  NewBook(m)
<1>0. /\ w[m].pc = "send" /\ taskSt[m] = "active" /\ w[m] \in Attempts /\ m \in Emails
      /\ m \notin Pushes /\ w[m].todo \subseteq Parts[m]
  BY DEF SendEmail, OldBook, Book, Fits, TypeOK, Attempts, Emails
<1>1. PICK a, tr, cp, ob : /\ a = w[m] /\ tr = tries[m] /\ cp = copies[m]
                           /\ ob = orphan[m]
  OBVIOUS
<1>2. PICK b, fl2, cp2 : b = w'[m] /\ fl2 = faults' /\ cp2 = copies'[m]
  OBVIOUS
<1>3. /\ taskSt' = taskSt /\ tries' = tries /\ orphan' = orphan /\ live' = live /\ row' = row
      /\ refused' = refused
  BY DEF SendEmail, senderVars, userVars
<1>4. Book(m, a, "active", tr, cp, ob, faults, refused, live, row)
  BY <1>0, <1>1 DEF OldBook
<1>5. Sorts(b, "active", tr, cp2, ob, fl2, refused, live, row)
  BY <1>0, <1>1, <1>2, <1>3 DEF NewSorts
<1>6. ASSUME NEW i \in w[m].todo, NEW fail \in BOOLEAN, fl2 \in {faults, faults + 1},
             w' = [w EXCEPT ![m] = [w[m] EXCEPT !.todo = @ \ {i}, !.failed = @ \/ fail]],
             UNCHANGED copies \/ Deliver(m, i),
             ~fail => Deliver(m, i), fail /\ Sendable(m) => fl2 = faults + 1
      PROVE  NewBook(m)
  <2>1. b = [a EXCEPT !.todo = @ \ {i}, !.failed = @ \/ fail]
    BY <1>1, <1>2, <1>6 DEF TypeOK
  <2>2. a \in Attempts /\ a.pc = "send" /\ i \in a.todo
    BY <1>0, <1>1, <1>6
  <2>3. /\ b.pc = "send" /\ b.rows = a.rows /\ b.sent = a.sent
        /\ b.todo = a.todo \ {i} /\ (b.failed <=> a.failed \/ fail)
    BY <2>1, <2>2 DEF Attempts
  <2>4. Deliver(m, i) => cp2 = [cp EXCEPT ![i] = @ + 1]
    BY <1>1, <1>2 DEF Deliver, TypeOK
  <2>5. cp2 = cp \/ cp2 = [cp EXCEPT ![i] = @ + 1]
    BY <1>1, <1>2, <1>6, <2>4
  <2>6. ~fail => cp2 = [cp EXCEPT ![i] = @ + 1]
    BY <1>6, <2>4
  <2>7. /\ fl2 \in {faults, faults + 1} /\ fail \in BOOLEAN
        /\ fail /\ Sendable(m) => fl2 = faults + 1
    BY <1>6
  <2>8. Book(m, b, "active", tr, cp2, ob, fl2, refused, live, row)
    BY <1>4, <1>5, <2>2, <2>3, <2>5, <2>6, <2>7, SentBook, SMTT(30)
  <2>9. QED BY <1>0, <1>1, <1>2, <1>3, <2>8 DEF NewBook
<1>7. PICK i \in w[m].todo :
        \/ /\ NoFault /\ IF Acceptable(m, i) THEN Deliver(m, i) ELSE UNCHANGED copies
           /\ w' = [w EXCEPT ![m] = [w[m] EXCEPT !.todo = @ \ {i},
                                                 !.failed = @ \/ ~Acceptable(m, i)]]
        \/ /\ Fault /\ (UNCHANGED copies \/ Deliver(m, i))
           /\ w' = [w EXCEPT ![m] = [w[m] EXCEPT !.todo = @ \ {i}, !.failed = @ \/ TRUE]]
  BY DEF SendEmail
<1>8. Sendable(m) => Acceptable(m, i)
  <2>1. i \in Parts[m]
    BY <1>0, <1>7
  <2>2. QED BY <1>0, <2>1 DEF Sendable, Acceptable
<1>9. (Fault => fl2 = faults + 1) /\ (NoFault => fl2 = faults)
  BY <1>2 DEF Fault, NoFault
<1>10. CASE Fault /\ (UNCHANGED copies \/ Deliver(m, i))
            /\ w' = [w EXCEPT ![m] = [w[m] EXCEPT !.todo = @ \ {i}, !.failed = @ \/ TRUE]]
  BY <1>6, <1>9, <1>10
<1>11. CASE /\ NoFault /\ IF Acceptable(m, i) THEN Deliver(m, i) ELSE UNCHANGED copies
            /\ w' = [w EXCEPT ![m] = [w[m] EXCEPT !.todo = @ \ {i},
                                                  !.failed = @ \/ ~Acceptable(m, i)]]
  <2>1. PICK fail \in BOOLEAN : fail = ~Acceptable(m, i)
    BY DEF Acceptable
  <2>2. w' = [w EXCEPT ![m] = [w[m] EXCEPT !.todo = @ \ {i}, !.failed = @ \/ fail]]
    BY <1>11, <2>1
  <2>3. /\ UNCHANGED copies \/ Deliver(m, i)
        /\ ~fail => Deliver(m, i)
        /\ fail /\ Sendable(m) => fl2 = faults + 1
        /\ fl2 \in {faults, faults + 1}
    BY <1>8, <1>9, <1>11, <2>1
  <2>4. QED BY <1>6, <2>2, <2>3
<1>12. QED BY <1>7, <1>10, <1>11

LEMMA EndKeeps ==
  ASSUME NEW m \in Messages, TypeOK, OldBook(m), NewSorts(m), EndLoop(m)
  PROVE  NewBook(m)
<1>0. /\ w[m].pc = "send" /\ taskSt[m] = "active" /\ w[m].todo = {}
  BY DEF EndLoop, OldBook, Book, Fits
<1>1. UNCHANGED <<copies, orphan, faults, refused, live, row>>
  BY DEF EndLoop, senderVars, userVars
<1>2. CASE w[m].failed
  <2>1. Returns(m)
    BY <1>2, RetryReturns DEF EndLoop
  <2>2. QED BY <1>0, <1>1, <1>2, <2>1, ResetKeeps
<1>3. CASE ~w[m].failed
  BY <1>0, <1>1, <1>3, FinishKeeps DEF EndLoop
<1>4. QED BY <1>2, <1>3

LEMMA InterruptKeeps ==
  ASSUME NEW m \in Messages, TypeOK, OldBook(m), NewSorts(m), Interrupt(m)
  PROVE  NewBook(m)
<1>1. /\ UNCHANGED <<copies, refused, live, row>> /\ orphan' = orphan /\ faults' = faults + 1
      /\ taskSt[m] = "active"
  BY DEF Interrupt, senderVars, userVars, Fault
<1>2. Returns(m)
  <2>1. CASE Retry(m)
    BY <2>1, RetryReturns
  <2>2. CASE /\ taskSt' = [taskSt EXCEPT ![m] = "queued"]
             /\ w' = [w EXCEPT ![m] = NoAttempt] /\ UNCHANGED tries
    BY <2>2 DEF Returns, TypeOK
  <2>3. QED BY <2>1, <2>2 DEF Interrupt
<1>3. QED BY <1>1, <1>2, ResetKeeps

LEMMA TimeoutKeeps ==
  ASSUME NEW m \in Messages, TypeOK, OldBook(m), NewSorts(m), Timeout(m)
  PROVE  NewBook(m)
<1>1. /\ UNCHANGED <<copies, refused, live, row>> /\ faults' = faults + 1
      /\ taskSt[m] = "active"
  BY DEF Timeout, userVars, Fault
<1>2. Returns(m)
  BY RetryReturns DEF Timeout
<1>3. orphan'[m] = [i \in Items |-> IF i \in w[m].todo THEN orphan[m][i] + 1
                                                      ELSE orphan[m][i]]
  BY DEF Timeout, TypeOK
<1>4. QED BY <1>1, <1>2, <1>3, ResetKeeps

LEMMA OrphanKeeps ==
  ASSUME NEW m \in Messages, TypeOK, OldBook(m), NewSorts(m), OrphanSends(m)
  PROVE  NewBook(m)
<1>1. PICK a, st, tr, cp, ob : /\ a = w[m] /\ st = taskSt[m] /\ tr = tries[m]
                               /\ cp = copies[m] /\ ob = orphan[m]
  OBVIOUS
<1>2. PICK cp2, ob2 : cp2 = copies'[m] /\ ob2 = orphan'[m]
  OBVIOUS
<1>3. /\ taskSt' = taskSt /\ tries' = tries /\ w' = w /\ live' = live /\ row' = row
      /\ refused' = refused /\ faults' = faults
  BY DEF OrphanSends, userVars
<1>4. PICK i \in Items : /\ orphan[m][i] > 0
                         /\ orphan' = [orphan EXCEPT ![m][i] = @ - 1]
                         /\ Deliver(m, i) \/ UNCHANGED copies
  BY DEF OrphanSends
<1>5. ob[i] > 0 /\ ob2 = [ob EXCEPT ![i] = @ - 1]
  BY <1>1, <1>2, <1>4 DEF TypeOK
<1>6. cp2 = cp \/ cp2 = [cp EXCEPT ![i] = @ + 1]
  BY <1>1, <1>2, <1>4 DEF TypeOK, Deliver
<1>7. Book(m, a, st, tr, cp, ob, faults, refused, live, row)
  BY <1>1 DEF OldBook
<1>8. Sorts(a, st, tr, cp2, ob2, faults, refused, live, row)
  BY <1>1, <1>2, <1>3 DEF NewSorts
<1>9. Book(m, a, st, tr, cp2, ob2, faults, refused, live, row)
  BY <1>5, <1>6, <1>7, <1>8, OrphanBook
<1>10. QED BY <1>1, <1>2, <1>3, <1>9 DEF NewBook

\* A step of message m, of which there is one kind for each action.
Acts(m) == Send(m) \/ ProcessStep(m) \/ Interrupt(m) \/ Timeout(m) \/ OrphanSends(m)

LEMMA OthersUntouched ==
  ASSUME TypeOK, NEW m \in Messages, NEW n \in Messages \ {m}, Acts(m)
  PROVE  Untouched(n)
<1>1. ASSUME Retry(m) \/ Finish(m)
      PROVE  taskSt'[n] = taskSt[n] /\ tries'[n] = tries[n] /\ w'[n] = w[n]
  BY <1>1 DEF Retry, Finish, TypeOK
<1>2. CASE Send(m)
  BY <1>2 DEF Send, TypeOK, Untouched
<1>3. CASE Start(m)
  BY <1>3 DEF Start, TypeOK, Untouched, senderVars
<1>4. CASE CheckPreferences(m)
  BY <1>1, <1>4 DEF CheckPreferences, TypeOK, Untouched, senderVars
<1>5. CASE ReadTokens(m)
  BY <1>1, <1>5 DEF ReadTokens, TypeOK, Untouched, senderVars
<1>6. CASE SendToToken(m)
  BY <1>6 DEF SendToToken, Deliver, TypeOK, Untouched, senderVars
<1>7. CASE Deactivate(m)
  BY <1>7 DEF Deactivate, Resume, TypeOK, Untouched, senderVars
<1>8. CASE SendEmail(m)
  BY <1>8 DEF SendEmail, Deliver, TypeOK, Untouched, senderVars
<1>9. CASE EndLoop(m)
  BY <1>1, <1>9 DEF EndLoop, TypeOK, Untouched, senderVars
<1>10. CASE Interrupt(m)
  BY <1>1, <1>10 DEF Interrupt, TypeOK, Untouched, senderVars
<1>11. CASE Timeout(m)
  BY <1>1, <1>11 DEF Timeout, TypeOK, Untouched
<1>12. CASE OrphanSends(m)
  BY <1>12 DEF OrphanSends, Deliver, TypeOK, Untouched
<1>13. QED BY <1>2, <1>3, <1>4, <1>5, <1>6, <1>7, <1>8, <1>9, <1>10, <1>11, <1>12
           DEF Acts, ProcessStep

LEMMA BookStep ==
  ASSUME IInv, TypeOK', IsFiniteSet(refused'), RowsFit', Elapses, Next
  PROVE  Books'
<1>1. \A n \in Messages : OldBook(n) /\ NewSorts(n)
  BY Sorted DEF IInv, Books, OldBook
<1>2. \A n \in Messages : Untouched(n) => NewBook(n)
  BY <1>1, UntouchedBook
<1>3. ASSUME NEW m \in Messages, Acts(m)
      PROVE  NewBook(m)
  <2>1. TypeOK /\ Unsent /\ Books /\ OldBook(m) /\ NewSorts(m)
    BY <1>1 DEF IInv
  <2>2. QED BY <1>3, <2>1, SendKeeps, StartKeeps, PrefsKeep, ReadKeeps, TokenKeeps,
               DeactivateKeeps, EmailKeeps, EndKeeps, InterruptKeeps, TimeoutKeeps,
               OrphanKeeps DEF Acts, ProcessStep
<1>4. ASSUME NEW m \in Messages, Acts(m)
      PROVE  \A n \in Messages : NewBook(n)
  BY <1>2, <1>3, <1>4, OthersUntouched DEF IInv
<1>5. ASSUME \E m \in Messages : Acts(m)
      PROVE  \A n \in Messages : NewBook(n)
  BY <1>4, <1>5
<1>6. ASSUME (\E d \in Devices : Rotate(d) \/ RegisterToken(d) \/ DeleteToken(d)) \/ SetPreferences
      PROVE  \A n \in Messages : NewBook(n)
  <2>1. \A n \in Messages : Untouched(n)
    BY <1>6 DEF Rotate, RegisterToken, DeleteToken, SetPreferences, Untouched, senderVars
  <2>2. QED BY <1>2, <2>1
<1>7. \A n \in Messages : NewBook(n)
  BY <1>5, <1>6 DEF Next, Acts
<1>8. QED BY <1>7 DEF Books, NewBook

LEMMA UnsentStep ==
  ASSUME IInv, Next
  PROVE  Unsent'
<1>1. ASSUME NEW m \in Messages, Send(m) PROVE Unsent'
  <2>1. /\ \A n \in Messages \ {m} : sender'[n] = sender[n] /\ taskSt'[n] = taskSt[n]
        /\ sender'[m] # "new"
    BY <1>1 DEF Send, IInv, TypeOK
  <2>2. QED BY <2>1 DEF IInv, Unsent
<1>2. ASSUME NEW m \in Messages, Acts(m), ~Send(m) PROVE Unsent'
  <2>1. sender' = sender
    BY <1>2 DEF Acts, ProcessStep, Start, CheckPreferences, ReadTokens, SendToToken, Deactivate,
                SendEmail, EndLoop, Interrupt, Timeout, OrphanSends, senderVars
  <2>2. \A n \in Messages \ {m} : taskSt'[n] = taskSt[n]
    BY <1>2, OthersUntouched DEF IInv, Untouched
  <2>3. taskSt'[m] = taskSt[m] \/ taskSt[m] # "none"
    <3>1. w[m].pc # "idle" => taskSt[m] # "none"
      BY DEF IInv, Books, Book, Fits
    <3>2. CASE OrphanSends(m)
      BY <3>2 DEF OrphanSends
    <3>3. CASE Start(m) \/ Interrupt(m) \/ Timeout(m)
      BY <3>3 DEF Start, Interrupt, Timeout
    <3>4. CASE \/ CheckPreferences(m) \/ ReadTokens(m) \/ SendToToken(m) \/ Deactivate(m)
               \/ SendEmail(m) \/ EndLoop(m)
      BY <3>1, <3>4 DEF CheckPreferences, ReadTokens, SendToToken, Deactivate, SendEmail, EndLoop
    <3>5. QED BY <1>2, <3>2, <3>3, <3>4 DEF Acts, ProcessStep
  <2>4. QED BY <2>1, <2>2, <2>3 DEF IInv, Unsent
<1>3. ASSUME (\E d \in Devices : Rotate(d) \/ RegisterToken(d) \/ DeleteToken(d)) \/ SetPreferences
      PROVE  Unsent'
  BY <1>3 DEF Rotate, RegisterToken, DeleteToken, SetPreferences, senderVars, IInv, Unsent
<1>4. QED BY <1>1, <1>2, <1>3 DEF Next, Acts

\* A row that has become inactive is the one that was refused.
LEMMA InactiveStep ==
  ASSUME IInv, TypeOK', Elapses, Next
  PROVE  OnlyRefusedRowsInactive'
<1>0. /\ row \in [Devices -> RowType] /\ refused \subseteq refused'
      /\ \A d \in Devices : row[d].present /\ ~row[d].active =>
           \E r \in refused : r[1] = d /\ r[2] = row[d].id
  BY DEF IInv, TypeOK, Elapses, Onward, OnlyRefusedRowsInactive
<1>1. ASSUME \A d \in Devices : row'[d] = row[d] \/ ~row'[d].present \/ row'[d].active
      PROVE  OnlyRefusedRowsInactive'
  BY <1>0, <1>1 DEF OnlyRefusedRowsInactive
<1>2. ASSUME row' = row PROVE OnlyRefusedRowsInactive'
  BY <1>1, <1>2
<1>3. ASSUME NEW m \in Messages, Acts(m), ~Deactivate(m) PROVE OnlyRefusedRowsInactive'
  <2>1. row' = row
    BY <1>3 DEF Acts, ProcessStep, Send, Start, CheckPreferences, ReadTokens, SendToToken,
                SendEmail, EndLoop, Interrupt, Timeout, OrphanSends, userVars
  <2>2. QED BY <1>2, <2>1
<1>4. ASSUME NEW m \in Messages, Deactivate(m) PROVE OnlyRefusedRowsInactive'
  <2>1. PICK d0 \in Devices : /\ w[m].item = {d0}
                              /\ <<d0, w[m].rows[d0].id, w[m].rows[d0].token>> \in refused
    BY <1>4 DEF Deactivate, IInv, Books, Book, Fetched
  <2>2. \A d \in Devices :
          \/ row'[d] = row[d]
          \/ /\ d = d0 /\ row[d].id = w[m].rows[d].id
             /\ row'[d] = [row[d] EXCEPT !.active = FALSE]
    BY <1>4, <2>1 DEF Deactivate
  <2>3. ASSUME NEW d \in Devices, row'[d].present, ~row'[d].active
        PROVE  \E r \in refused : r[1] = d /\ r[2] = row'[d].id
    <3>1. CASE row'[d] = row[d]
      BY <1>0, <2>3, <3>1
    <3>2. CASE /\ d = d0 /\ row[d].id = w[m].rows[d].id
               /\ row'[d] = [row[d] EXCEPT !.active = FALSE]
      <4>1. row'[d].id = w[m].rows[d0].id
        BY <1>0, <3>2 DEF RowType
      <4>2. PICK r \in refused : r = <<d0, w[m].rows[d0].id, w[m].rows[d0].token>>
        BY <2>1
      <4>3. r[1] = d /\ r[2] = row'[d].id
        BY <3>2, <4>1, <4>2
      <4>4. QED BY <4>3
    <3>3. QED BY <2>2, <3>1, <3>2
  <2>4. QED BY <1>0, <2>3 DEF OnlyRefusedRowsInactive
<1>5. ASSUME NEW d \in Devices, RegisterToken(d) PROVE OnlyRefusedRowsInactive'
  BY <1>0, <1>1, <1>5 DEF RegisterToken
<1>6. ASSUME NEW d \in Devices, DeleteToken(d) PROVE OnlyRefusedRowsInactive'
  <2>1. row'[d].present = FALSE /\ \A e \in Devices : e # d => row'[e] = row[e]
    BY <1>0, <1>6 DEF DeleteToken, RowType
  <2>2. QED BY <1>1, <2>1
<1>7. ASSUME NEW d \in Devices, Rotate(d) PROVE OnlyRefusedRowsInactive'
  BY <1>2, <1>7 DEF Rotate
<1>8. ASSUME SetPreferences PROVE OnlyRefusedRowsInactive'
  BY <1>2, <1>8 DEF SetPreferences
<1>9. QED BY <1>3, <1>4, <1>5, <1>6, <1>7, <1>8 DEF Next, Acts

-----------------------------------------------------------------------------
(***************************************************************************)
(* The theorems                                                            *)
(***************************************************************************)
LEMMA InitInv == Init => IInv
<1> SUFFICES ASSUME Init PROVE IInv
  OBVIOUS
<1>1. NoAttempt \in Attempts /\ NoRow \in RowType
  BY Blank, MessageBounds DEF NoRow, RowType
<1>2. TypeOK
  <2>1. w \in [Messages -> Attempts] /\ row \in [Devices -> RowType]
    BY <1>1 DEF Init
  <2>2. QED BY <2>1, MessageBounds DEF Init, TypeOK, Attempts
<1>3. IsFiniteSet(refused)
  BY FS_EmptySet DEF Init
<1>4. RowsFit
  BY DEF Init, RowsFit, RowFits, NoRow
<1>5. ASSUME NEW m \in Messages PROVE OldBook(m)
  <2>1. PICK a, cp, ob : a = w[m] /\ cp = copies[m] /\ ob = orphan[m]
    OBVIOUS
  <2>2. /\ a = NoAttempt /\ taskSt[m] = "none" /\ tries[m] = 0 /\ a \in Attempts
        /\ faults = 0 /\ refused = {}
        /\ cp \in [Items -> Nat] /\ ob \in [Items -> Nat]
        /\ \A i \in Items : cp[i] = 0 /\ ob[i] = 0
    BY <1>1, <2>1 DEF Init
  <2>3. Sorts(a, "none", 0, cp, ob, 0, refused, live, row)
    BY <1>2, <1>3, <1>4, <2>2, MessageBounds DEF Sorts, TypeOK, RowsFit
  <2>4. /\ a.pc = "idle" /\ a.todo = {} /\ a.sent = {} /\ ~a.failed
        /\ \A d \in Devices : a.rows[d] = NoRow
    BY <2>2 DEF NoAttempt
  <2>5. Fits(m, a, "none", cp)
    BY <2>2, <2>4 DEF Fits
  <2>6. Fetched(a, live, refused)
    BY <1>2, <2>4 DEF Fetched, RowFits, NoRow, TypeOK
  <2>7. PICK p : p = Paid(m, 0, refused, live, row, a)
    OBVIOUS
  <2>8. p \in Nat
    BY <1>3, <2>7, MetFinite DEF Paid
  <2>9. Affords("none", 0, a, cp, ob, p)
    <3>1. Failures("none", 0, a) = 0
      BY <2>4 DEF Failures, Unit
    <3>2. \A i \in Items : Sends("none", a, cp, ob, i) = 1
      BY <2>2 DEF Sends, Reserve
    <3>3. QED BY <2>8, <3>1, <3>2 DEF Affords
  <2>10. Book(m, a, "none", 0, cp, ob, 0, refused, live, row)
    BY <2>3, <2>5, <2>6, <2>7, <2>9 DEF Book
  <2>11. QED BY <2>1, <2>2, <2>10 DEF OldBook
<1>6. Books
  BY <1>5 DEF Books, OldBook
<1>7. Unsent
  BY DEF Init, Unsent
<1>8. OnlyRefusedRowsInactive
  BY DEF Init, OnlyRefusedRowsInactive, NoRow
<1>9. QED BY <1>2, <1>3, <1>4, <1>6, <1>7, <1>8 DEF IInv

LEMMA StepInv == IInv /\ [Next]_vars => IInv'
<1> SUFFICES ASSUME IInv, [Next]_vars PROVE IInv'
  OBVIOUS
<1>1. CASE Next
  <2>1. TypeOK'
    BY <1>1, TypeStep DEF IInv
  <2>2. IsFiniteSet(refused') /\ RowsFit' /\ Elapses
    BY <1>1, <2>1, RowsStep DEF IInv
  <2>3. Books'
    BY <1>1, <2>1, <2>2, BookStep
  <2>4. Unsent'
    BY <1>1, UnsentStep
  <2>5. OnlyRefusedRowsInactive'
    BY <1>1, <2>1, <2>2, InactiveStep
  <2>6. QED BY <2>1, <2>2, <2>3, <2>4, <2>5 DEF IInv
<1>2. CASE UNCHANGED vars
  <2>1. TypeOK'
    BY <1>2 DEF IInv, TypeOK, vars, senderVars, userVars
  <2>2. IsFiniteSet(refused') /\ RowsFit' /\ Unsent' /\ OnlyRefusedRowsInactive'
    BY <1>2 DEF IInv, RowsFit, Unsent, OnlyRefusedRowsInactive, vars, senderVars, userVars
  <2>3. Books'
    BY <1>2 DEF IInv, Books, vars, senderVars, userVars
  <2>4. QED BY <2>1, <2>2, <2>3 DEF IInv
<1>3. QED BY <1>1, <1>2

LEMMA Invariant == Spec => []IInv
BY InitInv, StepInv, PTL DEF Spec

\* What a task has cost is at most the failures and the dead tokens there were.
LEMMA CostsBounded ==
  ASSUME IInv, NEW m \in Messages, Sendable(m)
  PROVE  /\ tries[m] + (IF taskSt[m] = "archived" THEN 1 ELSE 0) <= Hitches
         /\ \A i \in Items : copies[m][i] <= 1 + Hitches
<1>1. PICK a, st, tr, cp, ob : /\ a = w[m] /\ st = taskSt[m] /\ tr = tries[m]
                               /\ cp = copies[m] /\ ob = orphan[m]
  OBVIOUS
<1>2. Book(m, a, st, tr, cp, ob, faults, refused, live, row)
  BY <1>1 DEF IInv, Books
<1>3. PICK p : p = Paid(m, faults, refused, live, row, a)
  OBVIOUS
<1>4. Affords(st, tr, a, cp, ob, p)
  BY <1>2, <1>3 DEF Book
<1>5. /\ tr \in Nat /\ cp \in [Items -> Nat] /\ ob \in [Items -> Nat] /\ faults \in Nat
  BY <1>2, MessageBounds DEF Book, Sorts
<1>6. p \in Nat /\ p <= Hitches /\ Hitches \in Nat
  <2>1. PICK k : k = Cardinality(Met(refused, live, row, a))
    OBVIOUS
  <2>2. k \in Nat /\ k <= Cardinality(refused) /\ Cardinality(refused) \in Nat
    BY <2>1, MetFinite DEF IInv
  <2>3. p = faults + IF m \in Pushes THEN k ELSE 0
    BY <1>3, <2>1 DEF Paid
  <2>4. QED BY <1>5, <2>2, <2>3 DEF Hitches
<1>7. tr + (IF st = "archived" THEN 1 ELSE 0) <= Hitches
  <2>1. Unit(st = "archived") = (IF st = "archived" THEN 1 ELSE 0) /\ Unit(a.failed) \in {0, 1}
    BY DEF Unit
  <2>2. Failures(st, tr, a) <= p
    BY <1>4 DEF Affords
  <2>3. QED BY <1>5, <1>6, <2>1, <2>2 DEF Failures
<1>8. ASSUME NEW i \in Items PROVE cp[i] <= 1 + Hitches
  <2>1. Reserve(st, a, i) \in Nat
    BY DEF Reserve, Unit
  <2>2. Sends(st, a, cp, ob, i) <= 1 + p
    BY <1>4 DEF Affords
  <2>3. cp[i] \in Nat /\ ob[i] \in Nat
    BY <1>5
  <2>4. QED BY <1>6, <2>1, <2>2, <2>3 DEF Sends
<1>9. QED BY <1>1, <1>7, <1>8

\* Every variable keeps its type.
THEOREM TypeCorrect == Spec => []TypeOK
<1>1. IInv => TypeOK
  BY DEF IInv
<1>2. QED BY <1>1, Invariant, PTL

\* The processors return the last error of their loop: a task that Asynq
\* counts as done was accepted for every device and e-mail of its last attempt.
THEOREM CompletedMeansDelivered == Spec => []DoneMeansDelivered
<1>1. IInv => DoneMeansDelivered
  BY DEF IInv, Books, Book, Fits, DoneMeansDelivered
<1>2. QED BY <1>1, Invariant, PTL

\* However often a task is retried, an item is delivered once, and once more
\* at most for each failure and each dead token.
THEOREM CopiesArePaid == Spec => []NoNeedlessCopies
<1>1. IInv => NoNeedlessCopies
  BY CostsBounded DEF NoNeedlessCopies
<1>2. QED BY <1>1, Invariant, PTL

\* sendToToken deactivates what FCM refuses: no dead token costs a task a
\* second attempt.
THEOREM DeadTokensCostOnce == Spec => []DeadTokenCostsOneAttempt
<1>1. IInv => DeadTokenCostsOneAttempt
  BY CostsBounded DEF DeadTokenCostsOneAttempt
<1>2. QED BY <1>1, Invariant, PTL

\* DeactivateByID finds the row by the id it was fetched with.
THEOREM DevicesStayReachable == Spec => []OnlyRefusedRowsInactive
<1>1. IInv => OnlyRefusedRowsInactive
  BY DEF IInv
<1>2. QED BY <1>1, Invariant, PTL

=============================================================================
