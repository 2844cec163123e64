-------------------------- MODULE AuthSessionsProofs --------------------------
(***************************************************************************)
(* Proofs about AuthSessions for every set of users and devices, every     *)
(* finite number of concurrent requests, every device limit and all bounds.*)
(***************************************************************************)
EXTENDS AuthSessions, FiniteSetTheorems, TLAPS

\* A login that evicts, and a login or registration about to insert.
Evicting(q) == q.op = "login" /\ q.pc \in {"revoke", "tokens"}
Opening(q)  == q.pc \in {"sweep", "lock", "insert"}

In(s, q) == \E i \in 1..Len(q) : q[i] = s

-----------------------------------------------------------------------------
(***************************************************************************)
(* The rows: sessions and tokens are numbered as they are inserted, and a  *)
(* session belongs to a registered user.                                   *)
(***************************************************************************)
Tokens == {t \in TokenIds : rtSt[t] # "none"}

Rows ==
  /\ Opened = 1..Cardinality(Opened)
  /\ Tokens = 1..Cardinality(Tokens)
  /\ \A t \in Tokens : rtSess[t] \in Opened
  /\ \A s \in Opened : sUser[s] \in Users /\ pwd[sUser[s]] > 0
  /\ \A u \in Users : resets[u] > 0 => pwd[u] > 0

(***************************************************************************)
(* The requests: which operations reach a pc, and what their locals name.  *)
(***************************************************************************)
Named(q) ==
  /\ q.pc = "idle" => q.op = "none"
  /\ q.pc = "list" => q.op \in {"login", "change", "delete"}
  /\ q.pc \in {"revoke", "tokens"} =>
       q.op \in {"login", "change", "delete", "logout", "remove"}
  /\ q.pc \in {"sweep", "lock", "insert"} => q.op \in {"login", "register"}
  /\ q.pc = "session" => q.op \in {"refresh", "reuse"}
  /\ q.pc = "rotate" => q.op = "refresh"
  /\ q.pc \in {"family", "kill"} => q.op = "reuse"
  /\ q.pc = "check" => q.op = "auth"
  /\ q.pc = "write" => q.op \in {"change", "reset"}
  /\ q.pc \in {"resetSnap", "resetRevoke"} => q.op = "reset"
  /\ q.pc = "granted" => q.op \in {"login", "register", "refresh", "auth"}
  /\ q.op \in {"refresh", "reuse"} =>
       q.tok \in Tokens /\ q.sess = rtSess[q.tok] /\ q.sess \in Opened
  /\ q.op \in {"auth", "logout", "remove", "change", "delete"} =>
       q.sess \in Opened /\ q.user = sUser[q.sess]
  /\ q.op \in {"auth", "logout", "remove", "change", "delete", "login", "reset"} =>
       q.user \in Users /\ pwd[q.user] > 0
  /\ q.op = "register" => q.user \in Users
  /\ q.before \subseteq Opened
  /\ q.pc \in {"revoke", "tokens"} =>
       q.todo # <<>> /\ \A i \in 1..Len(q.todo) : q.todo[i] \in Opened
  /\ q.pc = "tokens" /\ q.op # "logout" => sSt[Head(q.todo)] = "revoked"
  /\ q.pc = "insert" => q.held \subseteq Opened
  /\ Evicting(q) => \E m \in 0..Cardinality(Opened) : q.before = 1..m

\* A request that began too late can still find that out.
Refused(q) ==
  q.stale => /\ q.pc \in {"session", "family", "kill", "check", "done"}
             /\ q.pc \in {"session", "check"} => Revoked(q.sess)

\* What a revoker that met no failure has left to revoke.
Remaining(q, s) ==
  \/ q.pc \notin {"revoke", "tokens", "resetRevoke", "done"}
  \/ q.pc = "revoke" /\ In(s, q.todo)
  \/ q.pc = "tokens" /\ In(s, Tail(q.todo))
  \/ q.pc = "resetRevoke" /\ s \in q.snap

Revoking(q) ==
  q.clean /\ q.op \in {"change", "delete", "reset"} =>
    \A s \in q.before :
      /\ sUser[s] = q.user
      /\ sSt[s] = "revoked" \/ (q.op = "change" /\ s = q.sess) \/ Remaining(q, s)

(***************************************************************************)
(* The device limit.  A login evicts down to the limit the sessions there  *)
(* were when it listed them; k is the newest of those of the most recent   *)
(* complete eviction.  A session newer than x, for any x past k, came from *)
(* a login that listed no later, and there is at most one for each client, *)
(* or from a login whose eviction failed or was cut short.                 *)
(***************************************************************************)
Evicted(q) ==
  MaxDevices > 0 /\ Evicting(q) =>
    Cardinality({s \in Active(q.user) \cap q.before : ~In(s, q.todo)}) + 1 <= MaxDevices

Newer(A, x) == {s \in A : s > x}
Older(A, k) == {s \in A : s <= k}
NoneNewer(A, x) == Newer(A, x) = {}

Counts(q, u, x) ==
  q.user = u /\ (Opening(q) \/ (Evicting(q) /\ q.before \subseteq 1..x))
Late(reqs, u, x) == {c \in Clients : Counts(reqs[c], u, x)}

Room(A, reqs, slack, u, k) ==
  /\ Cardinality(Older(A, k)) + 1 <= MaxDevices
  /\ \A x \in k..MaxSessions :
       Cardinality(Newer(A, x)) + Cardinality(Late(reqs, u, x))
         <= Cardinality(Clients) + slack

Limit ==
  \A u \in Users : \E k \in 0..Cardinality(Opened) :
    Room(Active(u), req, faults + cut, u, k)

Sound(q) == Named(q) /\ Refused(q) /\ Revoking(q) /\ Evicted(q)

IInv ==
  /\ TypeOK /\ Rows
  /\ \A c \in Clients : Sound(req[c])
  /\ OneActivePerDevice /\ NotStranded
  /\ MaxDevices > 0 => Limit

-----------------------------------------------------------------------------
(***************************************************************************)
(* Finite sets of session ids                                              *)
(***************************************************************************)
LEMMA IdsFinite ==
  ASSUME NEW S, S \subseteq SessionIds
  PROVE  S \subseteq Nat /\ IsFiniteSet(S) /\ Cardinality(S) \in Nat
<1>1. IsFiniteSet(SessionIds) /\ SessionIds \subseteq Nat
  BY AuthBounds, FS_Interval DEF SessionIds
<1>2. S \in SUBSET SessionIds /\ S \subseteq Nat
  BY <1>1
<1>3. IsFiniteSet(S)
  BY <1>1, <1>2, FS_Subset
<1>4. QED BY <1>2, <1>3, FS_CardinalityType

\* A proper subset is smaller.
LEMMA Smaller ==
  ASSUME NEW S, IsFiniteSet(S), NEW T \in SUBSET S, NEW x \in S \ T
  PROVE  Cardinality(T) \in 0..(Cardinality(S) - 1)
<1>1. IsFiniteSet(T) /\ Cardinality(T) <= Cardinality(S) /\ Cardinality(T) # Cardinality(S)
  BY FS_Subset
<1>2. Cardinality(T) \in Nat /\ Cardinality(S) \in Nat
  BY <1>1, FS_CardinalityType
<1>3. QED BY <1>1, <1>2

Below(S, s) == {r \in S : r < s}
Above(S, s) == {r \in S : r > s}

\* The rank of an id among the older ones grows with the id, and its rank among
\* the newer ones falls.
LEMMA Ranks ==
  ASSUME NEW S, S \subseteq SessionIds, NEW s \in S
  PROVE  /\ Cardinality(S) \in Nat
         /\ Cardinality(Below(S, s)) \in 0..(Cardinality(S) - 1)
         /\ Cardinality(Above(S, s)) \in 0..(Cardinality(S) - 1)
<1>1. S \subseteq Nat /\ IsFiniteSet(S) /\ Cardinality(S) \in Nat
  BY IdsFinite
<1>2. Below(S, s) \in SUBSET S /\ s \in S \ Below(S, s)
  BY <1>1 DEF Below
<1>3. Above(S, s) \in SUBSET S /\ s \in S \ Above(S, s)
  BY <1>1 DEF Above
<1>4. Cardinality(Below(S, s)) \in 0..(Cardinality(S) - 1)
  BY <1>1, <1>2, Smaller
<1>5. Cardinality(Above(S, s)) \in 0..(Cardinality(S) - 1)
  BY <1>1, <1>3, Smaller
<1>6. QED BY <1>1, <1>4, <1>5

LEMMA RanksOrdered ==
  ASSUME NEW S, S \subseteq SessionIds, NEW s \in S, NEW t \in S, s < t
  PROVE  /\ Cardinality(Below(S, s)) < Cardinality(Below(S, t))
         /\ Cardinality(Above(S, t)) < Cardinality(Above(S, s))
<1>1. s \in Nat /\ t \in Nat /\ S \subseteq Nat
  BY IdsFinite
<1>2. IsFiniteSet(Below(S, t)) /\ IsFiniteSet(Above(S, s))
  BY IdsFinite DEF Below, Above
<1>3. Below(S, s) \in SUBSET Below(S, t) /\ s \in Below(S, t) \ Below(S, s)
  <2>1. \A r \in Below(S, s) : r \in Below(S, t)
    BY <1>1 DEF Below
  <2>2. s \in Below(S, t) /\ s \notin Below(S, s)
    BY <1>1 DEF Below
  <2>3. QED BY <2>1, <2>2
<1>4. Above(S, t) \in SUBSET Above(S, s) /\ t \in Above(S, s) \ Above(S, t)
  <2>1. \A r \in Above(S, t) : r \in Above(S, s)
    BY <1>1 DEF Above
  <2>2. t \in Above(S, s) /\ t \notin Above(S, t)
    BY <1>1 DEF Above
  <2>3. QED BY <2>1, <2>2
<1>5. /\ Cardinality(Below(S, s)) \in 0..(Cardinality(Below(S, t)) - 1)
      /\ Cardinality(Below(S, t)) \in Nat
  BY <1>2, <1>3, Smaller, FS_CardinalityType
<1>6. /\ Cardinality(Above(S, t)) \in 0..(Cardinality(Above(S, s)) - 1)
      /\ Cardinality(Above(S, s)) \in Nat
  BY <1>2, <1>4, Smaller, FS_CardinalityType
<1>7. QED BY <1>5, <1>6

\* At most m ids have fewer than m newer ones.
LEMMA FewNewest ==
  ASSUME NEW S, S \subseteq SessionIds, NEW m \in Nat
  PROVE  Cardinality({s \in S : Cardinality(Above(S, s)) < m}) <= m
<1> DEFINE T == {s \in S : Cardinality(Above(S, s)) < m}
           f == [s \in T |-> Cardinality(Above(S, s))]
<1>1. S \subseteq Nat /\ T \subseteq S
  BY IdsFinite
<1>2. ASSUME NEW s \in T PROVE Cardinality(Above(S, s)) \in 0..(m - 1)
  BY Ranks
<1>3. ASSUME NEW s \in T, NEW t \in T, s # t
      PROVE  Cardinality(Above(S, s)) # Cardinality(Above(S, t))
  <2>1. Cardinality(Above(S, s)) \in Nat /\ Cardinality(Above(S, t)) \in Nat
    BY Ranks
  <2>2. CASE s < t
    BY <2>1, <2>2, RanksOrdered
  <2>3. CASE t < s
    BY <2>1, <2>3, RanksOrdered
  <2>4. s \in Nat /\ t \in Nat
    BY <1>1
  <2>5. QED BY <1>3, <2>2, <2>3, <2>4
<1>4. f \in Injection(T, 0..(m - 1))
  <2>1. f \in [T -> 0..(m - 1)]
    BY <1>2
  <2>2. \A s, t \in T : f[s] = f[t] => s = t
    BY <1>3
  <2>3. QED BY <2>1, <2>2 DEF Injection, IsInjective
<1>5. IsFiniteSet(0..(m - 1)) /\ Cardinality(0..(m - 1)) = m
  BY FS_Interval
<1> HIDE DEF T, f
<1>6. Cardinality(T) <= m
  BY <1>4, <1>5, FS_Injection
<1>7. QED BY <1>6 DEF T

\* Oldest enumerates a set of ids: its CHOOSE has something to choose.
LEMMA OldestExists ==
  ASSUME NEW S, S \subseteq SessionIds
  PROVE  \E q \in [1..Cardinality(S) -> S] :
           \A i, j \in 1..Cardinality(S) : i < j => q[i] < q[j]
<1> DEFINE n == Cardinality(S)
           g == [s \in S |-> Cardinality(Below(S, s))]
           q == [i \in 1..n |-> CHOOSE s \in S : g[s] = i - 1]
<1>1. S \subseteq Nat /\ IsFiniteSet(S) /\ n \in Nat
  BY IdsFinite
<1>2. g \in [S -> 0..(n - 1)]
  BY Ranks
<1>3. ASSUME NEW s \in S, NEW t \in S, s < t PROVE g[s] < g[t]
  BY <1>3, RanksOrdered
<1>4. \A s \in S : s \in Nat /\ g[s] \in Nat
  BY <1>1, <1>2
<1> HIDE DEF g
<1>5. \A s, t \in S : g[s] = g[t] => s = t
  BY <1>3, <1>4
<1>6. g \in Injection(S, 0..(n - 1))
  BY <1>2, <1>5 DEF Injection, IsInjective
<1> HIDE DEF n
<1>7. IsFiniteSet(0..(n - 1)) /\ Cardinality(0..(n - 1)) = n
  BY <1>1, FS_Interval
<1>8. g \in Surjection(S, 0..(n - 1))
  <2>1. Cardinality(S) = Cardinality(0..(n - 1))
    BY <1>7 DEF n
  <2>2. QED BY <1>6, <1>7, <2>1, FS_Injection
<1>9. ASSUME NEW i \in 1..n PROVE q[i] \in S /\ g[q[i]] = i - 1
  <2>1. i - 1 \in 0..(n - 1)
    BY <1>1
  <2>2. \E s \in S : g[s] = i - 1
    BY <1>8, <2>1 DEF Surjection
  <2>3. QED BY <2>2
<1>10. q \in [1..n -> S]
  BY <1>9
<1> HIDE DEF q
<1>11. ASSUME NEW i \in 1..n, NEW j \in 1..n, i < j PROVE q[i] < q[j]
  <2>1. g[q[i]] < g[q[j]] /\ q[i] \in S /\ q[j] \in S
    BY <1>1, <1>9, <1>11
  <2>2. q[i] \in Nat /\ q[j] \in Nat /\ g[q[i]] \in Nat /\ g[q[j]] \in Nat
    BY <1>4, <2>1
  <2>3. ~(q[j] < q[i]) /\ q[i] # q[j]
    <3>1. q[j] < q[i] => g[q[j]] < g[q[i]]
      BY <1>3, <2>1
    <3>2. QED BY <2>1, <2>2, <3>1
  <2>4. QED BY <2>2, <2>3
<1>12. QED BY <1>10, <1>11 DEF n

\* It lists every member, and nothing else.
LEMMA OldestLists ==
  ASSUME NEW S, S \subseteq SessionIds
  PROVE  /\ Oldest(S) \in Seq(S) /\ Oldest(S) \in Seq(SessionIds)
         /\ Oldest(S) = <<>> <=> S = {}
         /\ \A s : In(s, Oldest(S)) <=> s \in S
         /\ \A i \in 1..Len(Oldest(S)) : Oldest(S)[i] \in S
<1> DEFINE n == Cardinality(S)
           q == Oldest(S)
<1>1. q \in [1..n -> S] /\ \A i, j \in 1..n : i < j => q[i] < q[j]
  BY OldestExists DEF Oldest
<1>2. S \subseteq Nat /\ IsFiniteSet(S) /\ n \in Nat
  BY IdsFinite
<1>3. IsFiniteSet(1..n) /\ Cardinality(1..n) = n
  BY <1>2, FS_Interval
<1>4. n = 0 <=> S = {}
  BY <1>2, FS_EmptySet
<1> HIDE DEF n, q
<1>5. q \in Injection(1..n, S)
  <2>1. ASSUME NEW i \in 1..n, NEW j \in 1..n, q[i] = q[j] PROVE i = j
    <3>1. i \in Int /\ j \in Int /\ q[i] \in Int /\ q[j] \in Int
      <4>1. q[i] \in S /\ q[j] \in S
        BY <1>1
      <4>2. \A s \in S : s \in Int
        BY <1>2
      <4>3. i \in Int /\ j \in Int
        BY <1>2
      <4>4. QED BY <4>1, <4>2, <4>3
    <3>2. ~(i < j) /\ ~(j < i)
      BY <1>1, <2>1, <3>1
    <3>3. QED BY <3>1, <3>2
  <2>2. QED BY <1>1, <2>1 DEF Injection, IsInjective
<1>6. q \in Surjection(1..n, S)
  BY <1>2, <1>3, <1>5, FS_Injection DEF n
<1>7. q \in Seq(S) /\ Len(q) = n
  BY <1>1, <1>2
<1>8. q \in Seq(SessionIds)
  BY <1>7
<1>9. \A s : In(s, q) <=> s \in S
  BY <1>1, <1>6, <1>7 DEF In, Surjection
<1>10. q = <<>> <=> S = {}
  BY <1>4, <1>7
<1>11. QED BY <1>1, <1>7, <1>8, <1>9, <1>10 DEF q

-----------------------------------------------------------------------------
(***************************************************************************)
(* What a step leaves of the rows                                          *)
(***************************************************************************)
\* Rows stay, and what was revoked, deleted or registered remains so.
Grows ==
  /\ Opened \subseteq Opened' /\ Tokens \subseteq Tokens'
  /\ Cardinality(Opened) <= Cardinality(Opened)'
  /\ \A s \in Opened : sUser'[s] = sUser[s]
  /\ \A s \in Opened : sSt[s] = "revoked" => sSt'[s] = "revoked"
  /\ \A t \in Tokens : rtSess'[t] = rtSess[t]
  /\ gone \subseteq gone'
  /\ \A u \in Users : pwd[u] > 0 => pwd'[u] > 0

\* A step that inserts no row: it only revokes, and the tokens it revokes are
\* those of struck sessions.
Weakens ==
  /\ UNCHANGED <<sUser, sDev, rtSess>>
  /\ \A s \in SessionIds :
       sSt'[s] = sSt[s] \/ (sSt[s] = "active" /\ sSt'[s] = "revoked")
  /\ \A t \in TokenIds :
       \/ rtSt'[t] = rtSt[t]
       \/ rtSt[t] = "active" /\ rtSt'[t] = "revoked" /\ rtSess[t] \in struck'
  /\ struck \subseteq struck' /\ gone \subseteq gone'
  /\ \A u \in Users : (pwd[u] > 0 \/ resets'[u] > 0) => pwd'[u] > 0

LEMMA WeakensRows ==
  ASSUME IInv, Weakens
  PROVE  /\ Opened' = Opened /\ Tokens' = Tokens
         /\ Rows' /\ Grows /\ OneActivePerDevice' /\ NotStranded'
         /\ \A u : Active(u)' \subseteq Active(u)
<1>1. /\ sSt \in [SessionIds -> {"none", "active", "revoked"}]
      /\ rtSt \in [TokenIds -> {"none", "active", "revoked"}]
      /\ Rows /\ OneActivePerDevice /\ NotStranded
  BY DEF IInv, TypeOK
<1>2. Opened' = Opened
  BY <1>1 DEF Weakens, Opened
<1>3. Tokens' = Tokens
  BY <1>1 DEF Weakens, Tokens
<1>4. Rows'
  BY <1>1, <1>2, <1>3 DEF Rows, Weakens
<1>5. Cardinality(Opened) <= Cardinality(Opened)'
  <2>1. Cardinality(Opened) \in Nat
    BY IdsFinite DEF Opened
  <2>2. QED BY <1>2, <2>1
<1>6. \A s \in Opened : sSt[s] = "revoked" => sSt'[s] = "revoked"
  BY <1>1 DEF Weakens, Opened
<1>7. Grows
  BY <1>2, <1>3, <1>5, <1>6 DEF Weakens, Grows
<1>8. OneActivePerDevice'
  BY <1>1 DEF Weakens, OneActivePerDevice
<1>9. NotStranded'
  <2> SUFFICES ASSUME NEW s \in SessionIds \ struck', sSt'[s] = "active"
               PROVE  \E t \in TokenIds :
                        rtSess'[t] = s /\ rtSt'[t] # "none" /\ rtSt'[t] = "active"
    BY DEF NotStranded, TokensOf
  <2>1. s \notin struck /\ sSt[s] = "active"
    BY <1>1 DEF Weakens
  <2>2. PICK t \in TokenIds : rtSess[t] = s /\ rtSt[t] = "active"
    BY <1>1, <2>1 DEF NotStranded, TokensOf
  <2>3. rtSt'[t] = "active" /\ rtSess'[t] = s
    BY <2>2 DEF Weakens
  <2>4. QED BY <2>3
<1>10. \A u : Active(u)' \subseteq Active(u)
  BY <1>1 DEF Weakens, Active
<1>11. QED BY <1>2, <1>3, <1>4, <1>7, <1>8, <1>9, <1>10

\* The user's sessions that a login has still to evict do not grow in number.
LEMMA OthersSound ==
  ASSUME IInv, Grows, sSt' \in [SessionIds -> {"none", "active", "revoked"}],
         NEW o \in Clients, req'[o] = req[o]
  PROVE  Sound(req[o])'
<1>1. /\ TypeOK /\ Rows /\ Sound(req[o])
      /\ sSt \in [SessionIds -> {"none", "active", "revoked"}]
      /\ Opened \subseteq SessionIds
      /\ Cardinality(Opened) \in Nat /\ Cardinality(Opened)' \in Nat
  BY IdsFinite DEF IInv, TypeOK, Opened
<1>2. Named(req[o])'
  <2>1. req[o].op \in {"refresh", "reuse"} =>
          req[o].tok \in Tokens' /\ req[o].sess = rtSess'[req[o].tok] /\ req[o].sess \in Opened'
    BY <1>1 DEF Sound, Named, Grows
  <2>2. req[o].op \in {"auth", "logout", "remove", "change", "delete"} =>
          req[o].sess \in Opened' /\ req[o].user = sUser'[req[o].sess]
    BY <1>1 DEF Sound, Named, Grows
  <2>3. req[o].op \in {"auth", "logout", "remove", "change", "delete", "login", "reset"} =>
          req[o].user \in Users /\ pwd'[req[o].user] > 0
    BY <1>1 DEF Sound, Named, Grows
  <2>4. req[o].before \subseteq Opened'
    BY <1>1 DEF Sound, Named, Grows
  <2>5. req[o].pc \in {"revoke", "tokens"} =>
          req[o].todo # <<>> /\ \A i \in 1..Len(req[o].todo) : req[o].todo[i] \in Opened'
    BY <1>1 DEF Sound, Named, Grows
  <2>6. req[o].pc = "tokens" /\ req[o].op # "logout" => sSt'[Head(req[o].todo)] = "revoked"
    BY <1>1 DEF Sound, Named, Grows, Opened
  <2>7. Evicting(req[o]) => \E m \in 0..Cardinality(Opened)' : req[o].before = 1..m
    BY <1>1 DEF Sound, Named, Grows
  <2>8. req[o].pc = "insert" => req[o].held \subseteq Opened'
    BY <1>1 DEF Sound, Named, Grows
  <2>9. QED
    BY <1>1, <2>1, <2>2, <2>3, <2>4, <2>5, <2>6, <2>7, <2>8 DEF Sound, Named, Evicting
<1>3. Refused(req[o])'
  BY <1>1 DEF Sound, Refused, Named, Revoked, Grows
<1>4. Revoking(req[o])'
  BY <1>1 DEF Sound, Revoking, Named, Remaining, Grows
<1>5. Evicted(req[o])'
  <2> DEFINE S == {s \in Active(req[o].user) \cap req[o].before : ~In(s, req[o].todo)}
             T == {s \in Active(req[o].user)' \cap req[o].before : ~In(s, req[o].todo)}
  <2> SUFFICES ASSUME MaxDevices > 0, Evicting(req[o])
               PROVE  Cardinality(T) + 1 <= MaxDevices
    BY DEF Evicted, Evicting
  <2>1. Cardinality(S) + 1 <= MaxDevices
    BY <1>1 DEF Sound, Evicted
  <2>2. T \subseteq S
    BY <1>1 DEF Sound, Named, Grows, Active, Opened
  <2>3. IsFiniteSet(S) /\ Cardinality(S) \in Nat
    BY IdsFinite DEF Active
  <2> HIDE DEF S, T
  <2>4. Cardinality(T) <= Cardinality(S) /\ Cardinality(T) \in Nat
    BY <2>2, <2>3, FS_Subset, FS_CardinalityType
  <2>5. QED BY <2>1, <2>3, <2>4, AuthBounds
<1>6. QED BY <1>2, <1>3, <1>4, <1>5 DEF Sound

-----------------------------------------------------------------------------
(***************************************************************************)
(* Room for one more session                                               *)
(***************************************************************************)
LEMMA Fewer ==
  ASSUME NEW S, IsFiniteSet(S), NEW T \in SUBSET S
  PROVE  /\ Cardinality(T) \in Nat /\ Cardinality(S) \in Nat
         /\ Cardinality(T) <= Cardinality(S)
<1>1. IsFiniteSet(T) /\ Cardinality(T) <= Cardinality(S)
  BY FS_Subset
<1>2. QED BY <1>1, FS_CardinalityType

\* If the request of c begins to count, a failure or a cut makes room for it, or
\* no session is that new.
Covered(p, q, c, B, n, m, u, k) ==
  \A x \in k..MaxSessions :
    Counts(p[c], u, x) => Counts(q[c], u, x) \/ n + 1 <= m \/ NoneNewer(B, x)

\* One request moves and a user's sessions do not grow.
LEMMA RoomKept ==
  ASSUME NEW A, A \subseteq SessionIds, NEW B \in SUBSET A,
         NEW q, NEW p, NEW c \in Clients, \A o \in Clients \ {c} : p[o] = q[o],
         NEW n \in Nat, NEW m \in Nat, n <= m,
         NEW u, NEW k \in Nat, Room(A, q, n, u, k), Covered(p, q, c, B, n, m, u, k)
  PROVE  Room(B, p, m, u, k)
<1>1. Cardinality(Older(B, k)) + 1 <= MaxDevices
  <2>1. Older(B, k) \in SUBSET Older(A, k) /\ IsFiniteSet(Older(A, k))
    BY IdsFinite DEF Older
  <2>2. Cardinality(Older(A, k)) + 1 <= MaxDevices
    BY DEF Room
  <2>3. QED BY <2>1, <2>2, Fewer, AuthBounds
<1>2. ASSUME NEW x \in k..MaxSessions
      PROVE  Cardinality(Newer(B, x)) + Cardinality(Late(p, u, x))
               <= Cardinality(Clients) + m
  <2> DEFINE L == Late(q, u, x)
             M == Late(p, u, x)
  <2>1. Newer(B, x) \in SUBSET Newer(A, x) /\ IsFiniteSet(Newer(A, x))
    BY IdsFinite DEF Newer
  <2>2. /\ Cardinality(Newer(B, x)) \in Nat /\ Cardinality(Newer(A, x)) \in Nat
        /\ Cardinality(Newer(B, x)) <= Cardinality(Newer(A, x))
    BY <2>1, Fewer
  <2>3. L \in SUBSET Clients /\ M \in SUBSET (L \cup {c})
    BY DEF Late
  <2>4. n = m => M \in SUBSET L \/ NoneNewer(B, x)
    BY DEF Late, Covered
  <2>5. IsFiniteSet(L) /\ Cardinality(Clients) \in Nat
    BY <2>3, AuthIdentities, FS_Subset, FS_CardinalityType
  <2>6. Cardinality(Newer(A, x)) + Cardinality(L) <= Cardinality(Clients) + n
    BY DEF Room
  <2> HIDE DEF L, M
  <2>7. /\ IsFiniteSet(L \cup {c})
        /\ Cardinality(L \cup {c}) = IF c \in L THEN Cardinality(L) ELSE Cardinality(L) + 1
    BY <2>5, FS_AddElement
  <2>8. /\ Cardinality(M) \in Nat /\ Cardinality(L) \in Nat
        /\ Cardinality(M) <= Cardinality(L) + 1
    BY <2>3, <2>5, <2>7, Fewer, FS_CardinalityType
  <2>9. n = m => Cardinality(M) <= Cardinality(L) \/ NoneNewer(B, x)
    BY <2>4, <2>5, Fewer
  <2>10. Cardinality(M) <= Cardinality(Clients)
    BY AuthIdentities, Fewer DEF M, Late
  <2>11. NoneNewer(B, x) => Cardinality(Newer(B, x)) = 0
    BY FS_EmptySet DEF NoneNewer
  <2>12. Cardinality(Newer(B, x)) + Cardinality(M) <= Cardinality(Clients) + m
    BY <2>2, <2>5, <2>6, <2>8, <2>9, <2>10, <2>11
  <2>13. QED BY <2>12 DEF M
<1>3. QED BY <1>1, <1>2 DEF Room

\* The request of c does not begin to count.
NoMore(p, q, c, u, j) ==
  \A x \in j..MaxSessions : Counts(p[c], u, x) => Counts(q[c], u, x)

\* An eviction is complete: of the sessions up to k fewer than the limit are
\* left, and the request counted before.
LEMMA RoomCompleted ==
  ASSUME NEW A, A \subseteq SessionIds, NEW B \in SUBSET A,
         NEW q, NEW p, NEW c \in Clients, \A o \in Clients \ {c} : p[o] = q[o],
         NEW n \in Nat, NEW m \in Nat, n <= m,
         NEW u, NEW top \in Nat, \E k \in 0..top : Room(A, q, n, u, k),
         NEW j \in 0..top, Cardinality(Older(B, j)) + 1 <= MaxDevices,
         NoMore(p, q, c, u, j)
  PROVE  \E k \in 0..top : Room(B, p, m, u, k)
<1>1. PICK k \in 0..top : Room(A, q, n, u, k)
  OBVIOUS
<1>2. CASE j <= k
  <2>1. \A x \in k..MaxSessions : x \in j..MaxSessions
    BY <1>2
  <2>2. Covered(p, q, c, B, n, m, u, k) /\ k \in Nat
    BY <2>1 DEF Covered, NoMore
  <2>3. Room(B, p, m, u, k)
    BY <1>1, <2>2, RoomKept
  <2>4. QED BY <2>3
<1>3. CASE k < j
  <2>1. Room(A, q, n, u, k)
    BY <1>1
  <2>2. ASSUME NEW x \in j..MaxSessions
        PROVE  Cardinality(Newer(B, x)) + Cardinality(Late(p, u, x))
                 <= Cardinality(Clients) + m
    <3>1. x \in k..MaxSessions
      BY <1>3
    <3>2. Cardinality(Newer(A, x)) + Cardinality(Late(q, u, x)) <= Cardinality(Clients) + n
      BY <2>1, <3>1 DEF Room
    <3>3. Newer(B, x) \in SUBSET Newer(A, x) /\ IsFiniteSet(Newer(A, x))
      BY IdsFinite DEF Newer
    <3>4. Late(p, u, x) \in SUBSET Late(q, u, x) /\ Late(q, u, x) \in SUBSET Clients
      BY DEF Late, NoMore
    <3>5. IsFiniteSet(Late(q, u, x)) /\ Cardinality(Clients) \in Nat
      BY <3>4, AuthIdentities, FS_Subset, FS_CardinalityType
    <3>6. /\ Cardinality(Newer(B, x)) \in Nat /\ Cardinality(Newer(A, x)) \in Nat
          /\ Cardinality(Newer(B, x)) <= Cardinality(Newer(A, x))
      BY <3>3, Fewer
    <3>7. /\ Cardinality(Late(p, u, x)) \in Nat /\ Cardinality(Late(q, u, x)) \in Nat
          /\ Cardinality(Late(p, u, x)) <= Cardinality(Late(q, u, x))
      BY <3>4, <3>5, Fewer
    <3>8. QED BY <3>2, <3>5, <3>6, <3>7
  <2>3. Room(B, p, m, u, j)
    BY <2>2 DEF Room
  <2>4. QED BY <2>3
<1>4. QED BY <1>2, <1>3

\* A user whose sessions are all no newer than k, and fewer than the limit.
LEMMA RoomListed ==
  ASSUME NEW A, NEW k \in Nat, A \subseteq 1..k, A \subseteq SessionIds,
         Cardinality(A) + 1 <= MaxDevices, NEW p, NEW n \in Nat, NEW u
  PROVE  Room(A, p, n, u, k)
<1>0. \A s \in A : s \in Nat /\ s <= k
  <2> SUFFICES ASSUME NEW s \in A PROVE s \in Nat /\ s <= k
    OBVIOUS
  <2>1. s \in 1..k
    OBVIOUS
  <2>2. QED BY <2>1
<1>1. Older(A, k) = A
  BY <1>0 DEF Older
<1>2. ASSUME NEW x \in k..MaxSessions
      PROVE  Cardinality(Newer(A, x)) + Cardinality(Late(p, u, x))
               <= Cardinality(Clients) + n
  <2>1. Newer(A, x) = {}
    <3>1. x \in Nat /\ k <= x
      OBVIOUS
    <3>2. \A s \in A : ~(s > x)
      BY <1>0, <3>1
    <3>3. QED BY <3>2 DEF Newer
  <2>2. Late(p, u, x) \in SUBSET Clients
    BY DEF Late
  <2>3. QED BY <2>1, <2>2, AuthIdentities, Fewer, FS_EmptySet
<1>3. QED BY <1>1, <1>2 DEF Room

-----------------------------------------------------------------------------
(***************************************************************************)
(* A request moves                                                         *)
(***************************************************************************)
Request ==
  [op : Ops, pc : PCs, user : Users \cup {NoUser}, dev : Devices \cup {NoDevice},
   sess : SessionIds \cup {0}, tok : TokenIds \cup {0}, todo : Seq(SessionIds),
   snap : SUBSET SessionIds, held : SUBSET SessionIds, before : SUBSET SessionIds,
   stale : BOOLEAN, clean : BOOLEAN]

\* The request of c becomes r; the others stay.
Moves(c, r) ==
  /\ req' \in [Clients -> Request] /\ req'[c] = r
  /\ \A o \in Clients \ {c} : req'[o] = req[o]

\* The types of everything but the requests.
RowTypes ==
  /\ pwd \in [Users -> Nat] /\ resets \in [Users -> Nat] /\ issued \in 0..MaxResets
  /\ gone \subseteq Users
  /\ sSt \in [SessionIds -> {"none", "active", "revoked"}]
  /\ sUser \in [SessionIds -> Users \cup {NoUser}]
  /\ sDev \in [SessionIds -> Devices \cup {NoDevice}]
  /\ struck \subseteq SessionIds /\ cut \in Nat
  /\ rtSt \in [TokenIds -> {"none", "active", "revoked"}]
  /\ rtSess \in [TokenIds -> SessionIds \cup {0}]
  /\ faults \in 0..MaxFaults

LEMMA Types == TypeOK <=> RowTypes /\ req \in [Clients -> Request]
  BY DEF TypeOK, RowTypes, Request

LEMMA IdleType == Idle \in Request
<1>1. <<>> \in Seq(SessionIds)
  OBVIOUS
<1>2. QED BY <1>1 DEF Idle, Request, Ops, PCs

LEMMA Going ==
  ASSUME TypeOK, NEW c \in Clients, NEW pc \in PCs, Go(c, pc)
  PROVE  Moves(c, [req[c] EXCEPT !.pc = pc, !.clean = @ /\ faults' = faults])
<1>1. req \in [Clients -> Request] /\ req[c] \in Request
  BY DEF TypeOK, Request
<1>2. [req[c] EXCEPT !.pc = pc, !.clean = @ /\ faults' = faults] \in Request
  BY <1>1 DEF Request
<1> DEFINE r == [req[c] EXCEPT !.pc = pc, !.clean = @ /\ faults' = faults]
<1>3. req' = [req EXCEPT ![c] = r]
  BY <1>1 DEF Go
<1> HIDE DEF r
<1>4. QED BY <1>1, <1>2, <1>3 DEF Moves, r

LEMMA Setting ==
  ASSUME TypeOK, NEW c \in Clients, NEW r \in Request, req' = [req EXCEPT ![c] = r]
  PROVE  Moves(c, r)
  BY DEF TypeOK, Request, Moves

\* The slack, faults + cut, before and after a step.
LEMMA Slacks ==
  ASSUME NEW f \in Nat, NEW g \in Nat, NEW n \in Nat, NEW m \in Nat
  PROVE  /\ f + g \in Nat /\ n + m \in Nat
         /\ f <= n /\ g <= m => f + g <= n + m
         /\ f + 1 = n /\ g = m => f + g + 1 <= n + m
         /\ f = n /\ g + 1 = m => f + g + 1 <= n + m
  OBVIOUS

\* One user's room, when no session is added to his.
LEMMA UserRoom ==
  ASSUME IInv, NEW c \in Clients, NEW r, Moves(c, r), RowTypes', MaxDevices > 0, NEW u \in Users,
         Active(u)' \subseteq Active(u), Opened \subseteq Opened', faults + cut <= faults' + cut',
         \A x \in 0..MaxSessions :
           Counts(r, u, x) => \/ Counts(req[c], u, x)
                              \/ faults + cut + 1 <= faults' + cut'
                              \/ NoneNewer(Active(u)', x)
  PROVE  \E k \in 0..Cardinality(Opened)' : Room(Active(u)', req', faults' + cut', u, k)
<1>1. PICK k \in 0..Cardinality(Opened) : Room(Active(u), req, faults + cut, u, k)
  BY DEF IInv, Limit
<1>2. /\ Cardinality(Opened) \in Nat /\ Cardinality(Opened)' \in Nat
      /\ Cardinality(Opened) <= Cardinality(Opened)'
  <2>1. Opened \in SUBSET Opened' /\ Opened' \subseteq SessionIds
    BY DEF Opened
  <2>2. IsFiniteSet(Opened')
    BY <2>1, IdsFinite
  <2>3. QED BY <2>1, <2>2, Fewer
<1>3. Active(u)' \in SUBSET Active(u) /\ Active(u) \subseteq SessionIds
  BY DEF Active
<1>4. faults + cut \in Nat /\ faults' + cut' \in Nat
  <2>1. faults \in Nat /\ cut \in Nat
    BY AuthBounds DEF IInv, TypeOK
  <2>2. faults' \in Nat /\ cut' \in Nat
    BY AuthBounds DEF RowTypes
  <2>3. QED BY <2>1, <2>2, Slacks
<1>5. req'[c] = r /\ \A o \in Clients \ {c} : req'[o] = req[o]
  BY DEF Moves
<1>6. \A x \in k..MaxSessions :
        Counts(req'[c], u, x) =>
          \/ Counts(req[c], u, x)
          \/ (faults + cut) + 1 <= faults' + cut'
          \/ NoneNewer(Active(u)', x)
  <2>1. \A x \in k..MaxSessions : x \in 0..MaxSessions
    BY <1>1, <1>2
  <2>2. QED BY <1>5, <2>1
<1>7. k \in Nat
  BY <1>1, <1>2
<1> DEFINE n == faults + cut
           m == faults' + cut'
           A == Active(u)
           B == Active(u)'
<1>8. /\ n \in Nat /\ m \in Nat /\ n <= m /\ Room(A, req, n, u, k)
      /\ B \in SUBSET A /\ A \subseteq SessionIds
  BY <1>1, <1>3, <1>4
<1>9. Covered(req', req, c, B, n, m, u, k)
  BY <1>6 DEF Covered
<1> HIDE DEF n, m, A, B
<1>10. Room(B, req', m, u, k)
  BY <1>5, <1>7, <1>8, <1>9, RoomKept
<1>11. QED BY <1>1, <1>2, <1>10 DEF m, B

\* A step that makes no request count needs no more room.
LEMMA QuietRoom ==
  ASSUME IInv, NEW c \in Clients, NEW r, Moves(c, r), RowTypes', Weakens,
         faults + cut <= faults' + cut',
         \A u \in Users : \A x \in 0..MaxSessions : Counts(r, u, x) => Counts(req[c], u, x)
  PROVE  MaxDevices > 0 => Limit'
<1> SUFFICES ASSUME MaxDevices > 0, NEW u \in Users
             PROVE  \E k \in 0..Cardinality(Opened)' :
                      Room(Active(u)', req', faults' + cut', u, k)
  BY DEF Limit
<1>1. QED BY UserRoom, WeakensRows

\* IInv after the step of one request.
LEMMA Assembled ==
  ASSUME IInv, NEW c \in Clients, NEW r, Moves(c, r), RowTypes',
         Rows', Grows, OneActivePerDevice', NotStranded',
         Sound(req[c])', MaxDevices > 0 => Limit'
  PROVE  IInv'
<1>1. TypeOK'
  BY Types DEF Moves, TypeOK, RowTypes, Request
<1>2. ASSUME NEW o \in Clients PROVE Sound(req[o])'
  <2>1. CASE o = c
    BY <2>1
  <2>2. CASE o # c
    BY <2>2, OthersSound DEF Moves, RowTypes
  <2>3. QED BY <2>1, <2>2
<1>3. QED BY <1>1, <1>2 DEF IInv

LEMMA Preserved ==
  ASSUME IInv, NEW c \in Clients, NEW r, Moves(c, r), RowTypes', Weakens,
         Sound(req[c])', MaxDevices > 0 => Limit'
  PROVE  IInv'
  BY WeakensRows, Assembled

\* A step that moves a request and nothing else.
LEMMA OnlyRequest ==
  ASSUME IInv, NEW c \in Clients, NEW r, Moves(c, r), Fault \/ NoFault,
         UNCHANGED <<userVars, sessVars, tokenVars>>
  PROVE  /\ RowTypes' /\ Weakens /\ faults + cut <= faults' + cut'
         /\ Opened' = Opened /\ Tokens' = Tokens
<1>1. /\ faults' \in 0..MaxFaults /\ faults \in Nat /\ faults' \in Nat
      /\ faults <= faults' /\ cut \in Nat /\ cut' = cut
  BY AuthBounds DEF IInv, TypeOK, Fault, NoFault, sessVars
<1>2. RowTypes'
  BY <1>1 DEF IInv, TypeOK, RowTypes, userVars, sessVars, tokenVars
<1>3. Weakens
  BY DEF IInv, Rows, Weakens, userVars, sessVars, tokenVars
<1>4. faults + cut <= faults' + cut'
  <2>1. cut' \in Nat /\ cut <= cut'
    BY <1>1
  <2>2. QED BY <1>1, <2>1, Slacks
<1>5. QED BY <1>2, <1>3, <1>4, WeakensRows

\* Such a step, when the request does not begin to count.
LEMMA QuietStep ==
  ASSUME IInv, NEW c \in Clients, NEW r, Moves(c, r), Fault \/ NoFault,
         UNCHANGED <<userVars, sessVars, tokenVars>>, Sound(req[c])',
         \A u \in Users : \A x \in 0..MaxSessions : Counts(r, u, x) => Counts(req[c], u, x)
  PROVE  IInv'
<1>1. RowTypes' /\ Weakens /\ faults + cut <= faults' + cut'
  BY OnlyRequest
<1>2. MaxDevices > 0 => Limit'
  BY <1>1, QuietRoom
<1>3. QED BY <1>1, <1>2, Preserved

\* A new request of c.
LEMMA Beginning ==
  ASSUME IInv, NEW c \in Clients, NEW r \in Request, Begin(c, r)
  PROVE  Moves(c, r) /\ NoFault
  BY Setting DEF Begin, IInv

LEMMA RegisterStep ==
  ASSUME IInv, NEW c \in Clients, NEW u \in Users, NEW d \in Devices \cup {NoDevice},
         Register(c, u, d)
  PROVE  IInv'
<1> DEFINE r == [Idle EXCEPT !.op = "register", !.pc = "sweep", !.user = u, !.dev = d]
<1>1. /\ r \in Request /\ r.op = "register" /\ r.pc = "sweep" /\ r.user = u
      /\ r.before = {} /\ r.stale = FALSE
  BY IdleType DEF Idle, Request, Ops, PCs
<1>2. Begin(c, r) /\ pwd[u] = 0 /\ UNCHANGED <<userVars, sessVars, tokenVars>>
  BY DEF Register
<1> HIDE DEF r
<1>3. Moves(c, r) /\ NoFault /\ req'[c] = r
  BY <1>1, <1>2, Beginning DEF Moves
<1>4. /\ RowTypes' /\ Weakens /\ faults + cut <= faults' + cut'
      /\ Opened' = Opened
  BY <1>2, <1>3, OnlyRequest
<1>5. Sound(req[c])'
  BY <1>1, <1>3 DEF Sound, Named, Refused, Revoking, Evicted, Evicting
<1>6. MaxDevices > 0 => Limit'
  <2> SUFFICES ASSUME MaxDevices > 0, NEW v \in Users
               PROVE  \E k \in 0..Cardinality(Opened)' :
                        Room(Active(v)', req', faults' + cut', v, k)
    BY DEF Limit
  <2>1. CASE v # u
    BY <1>1, <1>3, <1>4, <2>1, UserRoom, WeakensRows DEF Counts
  <2>2. CASE v = u
    <3>1. Active(u)' = {}
      BY <1>2 DEF IInv, Rows, Active, Opened, userVars, sessVars
    <3>2. Cardinality({}) + 1 <= MaxDevices
      BY AuthBounds, FS_EmptySet
    <3>3. Cardinality(Opened)' \in Nat /\ faults' + cut' \in Nat
      <4>1. Cardinality(Opened) \in Nat
        BY IdsFinite DEF Opened
      <4>2. faults' \in Nat /\ cut' \in Nat
        BY <1>4, AuthBounds DEF RowTypes
      <4>3. QED BY <1>4, <4>1, <4>2, Slacks
    <3>4. Room({}, req', faults' + cut', u, Cardinality(Opened)')
      BY <3>2, <3>3, RoomListed
    <3>5. QED BY <2>2, <3>1, <3>3, <3>4
  <2>3. QED BY <2>1, <2>2
<1>7. QED BY <1>3, <1>4, <1>5, <1>6, Preserved

LEMMA LoginStep ==
  ASSUME IInv, NEW c \in Clients, NEW u \in Users, NEW d \in Devices \cup {NoDevice},
         Login(c, u, d)
  PROVE  IInv'
<1> DEFINE r == [Idle EXCEPT !.op = "login", !.pc = "list", !.user = u, !.dev = d]
<1>1. /\ r \in Request /\ r.op = "login" /\ r.pc = "list" /\ r.user = u
      /\ r.before = {} /\ r.stale = FALSE
  BY IdleType DEF Idle, Request, Ops, PCs
<1>2. Begin(c, r) /\ pwd[u] > 0 /\ UNCHANGED <<userVars, sessVars, tokenVars>>
  BY DEF Login
<1> HIDE DEF r
<1>3. Moves(c, r) /\ NoFault /\ req'[c] = r
  BY <1>1, <1>2, Beginning DEF Moves
<1>4. Sound(req[c])'
  BY <1>1, <1>2, <1>3 DEF Sound, Named, Refused, Revoking, Evicted, Evicting, userVars
<1>5. QED
  BY <1>1, <1>2, <1>3, <1>4, QuietStep DEF Counts, Opening, Evicting

\* r is q at another pc.
Moved(q, r, pc) ==
  /\ r.pc = pc /\ r.op = q.op /\ r.user = q.user /\ r.dev = q.dev /\ r.sess = q.sess
  /\ r.tok = q.tok /\ r.todo = q.todo /\ r.snap = q.snap /\ r.held = q.held
  /\ r.before = q.before /\ r.stale = q.stale

\* A request that only goes on.
LEMMA Goes ==
  ASSUME IInv, NEW c \in Clients, NEW pc \in PCs, Go(c, pc)
  PROVE  \E r \in Request :
           /\ Moves(c, r) /\ req'[c] = r /\ Moved(req[c], r, pc)
           /\ r.clean => req[c].clean /\ faults' = faults
<1> DEFINE r == [req[c] EXCEPT !.pc = pc, !.clean = @ /\ faults' = faults]
<1>1. TypeOK /\ req[c] \in Request
  BY DEF IInv, TypeOK, Request
<1>2. Moves(c, r)
  BY <1>1, Going
<1>3. r \in Request /\ (r.clean => req[c].clean /\ faults' = faults)
  BY <1>1 DEF Request
<1>4. Moved(req[c], r, pc)
  BY <1>1 DEF Request, Moved
<1> HIDE DEF r
<1>5. req'[c] = r
  BY <1>2 DEF Moves
<1>6. QED BY <1>2, <1>3, <1>4, <1>5

LEMMA SweepStep ==
  ASSUME IInv, NEW c \in Clients, Sweep(c)
  PROVE  IInv'
<1> DEFINE r == [req[c] EXCEPT !.pc = "lock",
                   !.snap = IF req[c].dev = NoDevice THEN {} ELSE OnDevice(req[c].dev)]
<1>1. req[c] \in Request /\ Sound(req[c]) /\ req[c].pc = "sweep"
  BY DEF IInv, TypeOK, Request, Sweep, At
<1>2. OnDevice(req[c].dev) \subseteq SessionIds
  BY DEF OnDevice
<1>3. /\ r \in Request /\ r.pc = "lock" /\ r.op = req[c].op /\ r.user = req[c].user
      /\ r.sess = req[c].sess /\ r.before = req[c].before /\ r.stale = req[c].stale
  BY <1>1, <1>2 DEF Request, PCs
<1>4. NoFault /\ req' = [req EXCEPT ![c] = r] /\ UNCHANGED <<userVars, sessVars, tokenVars>>
  BY DEF Sweep, IInv, TypeOK
<1> HIDE DEF r
<1>5. Moves(c, r) /\ req'[c] = r
  BY <1>3, <1>4, Setting DEF IInv, Moves
<1>6. Opened' = Opened /\ Tokens' = Tokens
  BY <1>4, <1>5, OnlyRequest
<1>7. Sound(req[c])'
  BY <1>1, <1>3, <1>4, <1>5, <1>6
     DEF Sound, Named, Refused, Revoking, Evicted, Evicting, userVars, sessVars, tokenVars
<1>8. QED BY <1>1, <1>3, <1>4, <1>5, <1>7, QuietStep DEF Counts, Opening, Evicting

LEMMA LockStep ==
  ASSUME IInv, NEW c \in Clients, Lock(c)
  PROVE  IInv'
<1> DEFINE r == [req[c] EXCEPT !.pc = "insert", !.snap = {},
                   !.held = {s \in req[c].snap : sSt[s] = "active"}]
<1>1. req[c] \in Request /\ Sound(req[c]) /\ req[c].pc = "lock"
  BY DEF IInv, TypeOK, Request, Lock, At
<1>2. /\ r \in Request /\ r.pc = "insert" /\ r.op = req[c].op /\ r.user = req[c].user
      /\ r.sess = req[c].sess /\ r.before = req[c].before /\ r.stale = req[c].stale
      /\ r.held \subseteq Opened
  BY <1>1 DEF Request, PCs, Opened
<1>3. NoFault /\ req' = [req EXCEPT ![c] = r] /\ UNCHANGED <<userVars, sessVars, tokenVars>>
  BY DEF Lock, IInv, TypeOK
<1> HIDE DEF r
<1>4. Moves(c, r) /\ req'[c] = r
  BY <1>2, <1>3, Setting DEF IInv, Moves
<1>5. Opened' = Opened /\ Tokens' = Tokens
  BY <1>3, <1>4, OnlyRequest
<1>6. Sound(req[c])'
  BY <1>1, <1>2, <1>3, <1>4, <1>5
     DEF Sound, Named, Refused, Revoking, Evicted, Evicting, userVars, sessVars, tokenVars
<1>7. QED BY <1>1, <1>2, <1>3, <1>4, <1>6, QuietStep DEF Counts, Opening, Evicting

LEMMA ReadSessionStep ==
  ASSUME IInv, NEW c \in Clients, ReadSession(c)
  PROVE  IInv'
<1>1. req[c] \in Request /\ Sound(req[c]) /\ req[c].pc = "session"
  BY DEF IInv, TypeOK, Request, ReadSession, At
<1>2. req[c].op \in {"refresh", "reuse"} /\ (req[c].stale => Revoked(req[c].sess))
  BY <1>1 DEF Sound, Named, Refused
<1>3. PICK pc \in {"family", "rotate", "done"} :
        /\ Go(c, pc)
        /\ pc = "family" => req[c].op = "reuse" /\ Readable(req[c].sess)
        /\ pc = "rotate" => req[c].op = "refresh" /\ Usable(req[c].sess)
  BY <1>2 DEF ReadSession
<1>4. NoFault /\ UNCHANGED <<userVars, sessVars, tokenVars>>
  BY DEF ReadSession
<1>5. pc \in PCs
  BY DEF PCs
<1>6. PICK r \in Request :
        Moves(c, r) /\ req'[c] = r /\ Moved(req[c], r, pc)
  BY <1>3, <1>5, Goes
<1>7. Opened' = Opened /\ Tokens' = Tokens
  BY <1>4, <1>6, OnlyRequest
<1>8. Sound(req[c])'
  BY <1>1, <1>2, <1>3, <1>4, <1>6, <1>7
     DEF Sound, Named, Refused, Revoking, Evicted, Evicting, Revoked, Usable, Readable,
         Moved, userVars, sessVars, tokenVars
<1>9. QED BY <1>3, <1>4, <1>6, <1>8, QuietStep DEF Counts, Opening, Evicting, Moved

LEMMA RefreshStep ==
  ASSUME IInv, NEW c \in Clients, NEW t \in TokenIds, Refresh(c, t)
  PROVE  IInv'
<1> DEFINE r == [Idle EXCEPT !.op = IF rtSt[t] = "revoked" THEN "reuse" ELSE "refresh",
                             !.pc = "session", !.tok = t, !.sess = rtSess[t],
                             !.stale = Revoked(rtSess[t])]
<1>1. /\ rtSess \in [TokenIds -> SessionIds \cup {0}] /\ rtSt[t] # "none"
      /\ t \in Tokens /\ rtSess[t] \in Opened /\ Revoked(rtSess[t]) \in BOOLEAN
  BY DEF IInv, TypeOK, Rows, Refresh, Tokens, Revoked
<1>2. /\ r \in Request /\ r.op \in {"refresh", "reuse"} /\ r.pc = "session" /\ r.tok = t
      /\ r.sess = rtSess[t] /\ r.before = {} /\ r.stale = Revoked(rtSess[t])
  BY <1>1, IdleType, ZenonT(60) DEF Idle, Request, Ops, PCs
<1>3. Begin(c, r) /\ UNCHANGED <<userVars, sessVars, tokenVars>>
  BY DEF Refresh
<1> HIDE DEF r
<1>4. Moves(c, r) /\ NoFault /\ req'[c] = r
  BY <1>2, <1>3, Beginning DEF Moves
<1>5. Opened' = Opened /\ Tokens' = Tokens
  BY <1>3, <1>4, OnlyRequest
<1>6. Sound(req[c])'
  BY <1>1, <1>2, <1>3, <1>4, <1>5
     DEF Sound, Named, Refused, Revoking, Evicted, Evicting, Revoked,
         userVars, sessVars, tokenVars
<1>7. QED BY <1>2, <1>3, <1>4, <1>6, QuietStep DEF Counts, Opening, Evicting

LEMMA PresentStep ==
  ASSUME IInv, NEW c \in Clients, NEW s \in SessionIds, Present(c, s)
  PROVE  IInv'
<1> DEFINE r == [Idle EXCEPT !.op = "auth", !.pc = "check", !.sess = s, !.user = sUser[s],
                             !.stale = Revoked(s)]
<1>1. /\ sUser \in [SessionIds -> Users \cup {NoUser}] /\ s \in Opened
      /\ sUser[s] \in Users /\ pwd[sUser[s]] > 0 /\ Revoked(s) \in BOOLEAN
  BY DEF IInv, TypeOK, Rows, Present, Opened, Revoked
<1>2. /\ r \in Request /\ r.op = "auth" /\ r.pc = "check" /\ r.user = sUser[s]
      /\ r.sess = s /\ r.before = {} /\ r.stale = Revoked(s)
  BY <1>1, IdleType DEF Idle, Request, Ops, PCs
<1>3. Begin(c, r) /\ UNCHANGED <<userVars, sessVars, tokenVars>>
  BY DEF Present
<1> HIDE DEF r
<1>4. Moves(c, r) /\ NoFault /\ req'[c] = r
  BY <1>2, <1>3, Beginning DEF Moves
<1>5. Opened' = Opened /\ Tokens' = Tokens
  BY <1>3, <1>4, OnlyRequest
<1>6. Sound(req[c])'
  BY <1>1, <1>2, <1>3, <1>4, <1>5
     DEF Sound, Named, Refused, Revoking, Evicted, Evicting, Revoked,
         userVars, sessVars, tokenVars
<1>7. QED BY <1>2, <1>3, <1>4, <1>6, QuietStep DEF Counts, Opening, Evicting

LEMMA AuthenticateStep ==
  ASSUME IInv, NEW c \in Clients, Authenticate(c)
  PROVE  IInv'
<1>1. /\ req[c] \in Request /\ Sound(req[c]) /\ req[c].pc = "check" /\ req[c].op = "auth"
      /\ req[c].stale => Revoked(req[c].sess)
  BY DEF IInv, TypeOK, Request, Authenticate, At, Sound, Named, Refused
<1>2. PICK pc \in {"granted", "done"} :
        Go(c, pc) /\ (pc = "granted" => Usable(req[c].sess))
  BY DEF Authenticate
<1>3. NoFault /\ UNCHANGED <<userVars, sessVars, tokenVars>> /\ pc \in PCs
  BY DEF Authenticate, PCs
<1>4. PICK r \in Request :
        Moves(c, r) /\ req'[c] = r /\ Moved(req[c], r, pc)
  BY <1>2, <1>3, Goes
<1>5. Opened' = Opened /\ Tokens' = Tokens
  BY <1>3, <1>4, OnlyRequest
<1>6. Sound(req[c])'
  BY <1>1, <1>2, <1>3, <1>4, <1>5
     DEF Sound, Named, Refused, Revoking, Evicted, Evicting, Revoked, Usable, Readable,
         Moved, userVars, sessVars, tokenVars
<1>7. QED BY <1>2, <1>3, <1>4, <1>6, QuietStep DEF Counts, Opening, Evicting, Moved

\* An admitted request names its user and a session of his.
LEMMA AdmittedNames ==
  ASSUME IInv, NEW c \in Clients, Admitted(c)
  PROVE  /\ req[c] \in Request /\ req[c].pc = "granted" /\ req[c].op = "auth"
         /\ ~req[c].stale /\ req[c].before \subseteq Opened /\ NoFault
         /\ req[c].sess \in Opened /\ req[c].user = sUser[req[c].sess]
         /\ req[c].user \in Users /\ pwd[req[c].user] > 0
<1>1. req[c] \in Request /\ Sound(req[c]) /\ req[c].pc = "granted" /\ req[c].op = "auth"
  BY DEF IInv, TypeOK, Request, Admitted, At
<1>2. QED BY <1>1 DEF Admitted, Sound, Named, Refused

LEMMA LogoutStep ==
  ASSUME IInv, NEW c \in Clients, Logout(c)
  PROVE  IInv'
<1> DEFINE s == req[c].sess
           r == [req[c] EXCEPT !.op = "logout", !.pc = "revoke", !.todo = <<s>>]
<1>1. /\ req[c] \in Request /\ ~req[c].stale /\ req[c].before \subseteq Opened /\ NoFault
      /\ s \in Opened /\ s \in SessionIds /\ req[c].user = sUser[s]
      /\ req[c].user \in Users /\ pwd[req[c].user] > 0
  BY AdmittedNames DEF Logout, Opened
<1>2. /\ r \in Request /\ r.op = "logout" /\ r.pc = "revoke"
      /\ r.user = req[c].user /\ r.sess = s /\ r.before = req[c].before
      /\ r.stale = req[c].stale
  <2>1. <<s>> \in Seq(SessionIds)
    BY <1>1
  <2>2. QED BY <1>1, <2>1 DEF Request, Ops, PCs
<1>3. req' = [req EXCEPT ![c] = r] /\ UNCHANGED <<userVars, sessVars, tokenVars>>
  BY DEF Logout, IInv, TypeOK
<1>0. r.todo # <<>> /\ \A i \in 1..Len(r.todo) : r.todo[i] \in Opened
  <2>1. r.todo = <<s>>
    BY <1>1 DEF Request
  <2>2. QED BY <1>1, <2>1
<1> HIDE DEF r
<1>4. Moves(c, r) /\ req'[c] = r
  BY <1>2, <1>3, Setting DEF IInv, Moves
<1>5. Opened' = Opened /\ Tokens' = Tokens
  BY <1>1, <1>3, <1>4, OnlyRequest
<1>6. Sound(req[c])'
  BY <1>0, <1>1, <1>2, <1>3, <1>4, <1>5
     DEF Sound, Named, Refused, Revoking, Evicted, Evicting, userVars, sessVars, tokenVars
<1>7. QED BY <1>1, <1>2, <1>3, <1>4, <1>6, QuietStep DEF Counts, Opening, Evicting

LEMMA RemoveDeviceStep ==
  ASSUME IInv, NEW c \in Clients, NEW d \in Devices \cup {NoDevice}, RemoveDevice(c, d)
  PROVE  IInv'
<1>1. PICK s \in Active(req[c].user) \cap OnDevice(d) :
        req' = [req EXCEPT ![c].op = "remove", ![c].pc = "revoke", ![c].todo = <<s>>]
  BY DEF RemoveDevice
<1> DEFINE r == [req[c] EXCEPT !.op = "remove", !.pc = "revoke", !.todo = <<s>>]
<1>2. /\ req[c] \in Request /\ ~req[c].stale /\ req[c].before \subseteq Opened /\ NoFault
      /\ req[c].sess \in Opened /\ req[c].user = sUser[req[c].sess]
      /\ req[c].user \in Users /\ pwd[req[c].user] > 0
      /\ s \in Opened /\ s \in SessionIds
  BY AdmittedNames DEF RemoveDevice, Opened, Active
<1>3. /\ r \in Request /\ r.op = "remove" /\ r.pc = "revoke"
      /\ r.user = req[c].user /\ r.sess = req[c].sess /\ r.before = req[c].before
      /\ r.stale = req[c].stale
  <2>1. <<s>> \in Seq(SessionIds)
    BY <1>2
  <2>2. QED BY <1>2, <2>1 DEF Request, Ops, PCs
<1>4. req' = [req EXCEPT ![c] = r] /\ UNCHANGED <<userVars, sessVars, tokenVars>>
  BY <1>1 DEF RemoveDevice, IInv, TypeOK
<1>0. r.todo # <<>> /\ \A i \in 1..Len(r.todo) : r.todo[i] \in Opened
  <2>1. r.todo = <<s>>
    BY <1>2 DEF Request
  <2>2. QED BY <1>2, <2>1
<1> HIDE DEF r
<1>5. Moves(c, r) /\ req'[c] = r
  BY <1>3, <1>4, Setting DEF IInv, Moves
<1>6. Opened' = Opened /\ Tokens' = Tokens
  BY <1>2, <1>4, <1>5, OnlyRequest
<1>7. Sound(req[c])'
  BY <1>0, <1>2, <1>3, <1>4, <1>5, <1>6
     DEF Sound, Named, Refused, Revoking, Evicted, Evicting, userVars, sessVars, tokenVars
<1>8. QED BY <1>2, <1>3, <1>4, <1>5, <1>7, QuietStep DEF Counts, Opening, Evicting

LEMMA ChangePasswordStep ==
  ASSUME IInv, NEW c \in Clients, ChangePassword(c)
  PROVE  IInv'
<1> DEFINE r == [req[c] EXCEPT !.op = "change", !.pc = "write",
                               !.before = Active(req[c].user)]
<1>1. /\ req[c] \in Request /\ ~req[c].stale /\ NoFault
      /\ req[c].sess \in Opened /\ req[c].user = sUser[req[c].sess]
      /\ req[c].user \in Users /\ pwd[req[c].user] > 0
      /\ Active(req[c].user) \subseteq Opened /\ Opened \subseteq SessionIds
      /\ \A s \in Active(req[c].user) : sUser[s] = req[c].user
  BY AdmittedNames DEF ChangePassword, Opened, Active
<1>2. /\ r \in Request /\ r.op = "change" /\ r.pc = "write" /\ r.user = req[c].user
      /\ r.sess = req[c].sess /\ r.before = Active(req[c].user) /\ r.stale = req[c].stale
  BY <1>1 DEF Request, Ops, PCs
<1>3. req' = [req EXCEPT ![c] = r] /\ UNCHANGED <<userVars, sessVars, tokenVars>>
  BY DEF ChangePassword, IInv, TypeOK
<1> HIDE DEF r
<1>4. Moves(c, r) /\ req'[c] = r
  BY <1>2, <1>3, Setting DEF IInv, Moves
<1>5. Opened' = Opened /\ Tokens' = Tokens
  BY <1>1, <1>3, <1>4, OnlyRequest
<1>6. Sound(req[c])'
  BY <1>1, <1>2, <1>3, <1>4, <1>5
     DEF Sound, Named, Refused, Revoking, Remaining, Evicted, Evicting,
         userVars, sessVars, tokenVars
<1>7. QED BY <1>1, <1>2, <1>3, <1>4, <1>6, QuietStep DEF Counts, Opening, Evicting

\* A step that revokes or deletes, when no eviction is cut short and the
\* request does not begin to count.
LEMMA WeakStep ==
  ASSUME IInv, NEW c \in Clients, NEW r, Moves(c, r), Fault \/ NoFault, UNCHANGED cut,
         RowTypes', Weakens, Sound(req[c])',
         \A u \in Users : \A x \in 0..MaxSessions : Counts(r, u, x) => Counts(req[c], u, x)
  PROVE  IInv'
<1>1. /\ faults \in Nat /\ faults' \in Nat /\ faults <= faults'
      /\ cut \in Nat /\ cut' \in Nat /\ cut <= cut'
  BY AuthBounds DEF IInv, TypeOK, RowTypes, Fault, NoFault
<1>2. faults + cut <= faults' + cut'
  BY <1>1, Slacks
<1>3. MaxDevices > 0 => Limit'
  BY <1>2, QuietRoom
<1>4. QED BY <1>3, Preserved

LEMMA DeleteAccountStep ==
  ASSUME IInv, NEW c \in Clients, DeleteAccount(c)
  PROVE  IInv'
<1> DEFINE r == [req[c] EXCEPT !.op = "delete", !.pc = "list",
                               !.before = Active(req[c].user)]
<1>1. /\ req[c] \in Request /\ ~req[c].stale /\ NoFault
      /\ req[c].sess \in Opened /\ req[c].user = sUser[req[c].sess]
      /\ req[c].user \in Users /\ pwd[req[c].user] > 0
      /\ Active(req[c].user) \subseteq Opened /\ Opened \subseteq SessionIds
      /\ \A s \in Active(req[c].user) : sUser[s] = req[c].user
  BY AdmittedNames DEF DeleteAccount, Opened, Active
<1>2. /\ r \in Request /\ r.op = "delete" /\ r.pc = "list" /\ r.user = req[c].user
      /\ r.sess = req[c].sess /\ r.before = Active(req[c].user) /\ r.stale = req[c].stale
  BY <1>1 DEF Request, Ops, PCs
<1>3. /\ req' = [req EXCEPT ![c] = r] /\ gone' = gone \cup {req[c].user}
      /\ UNCHANGED <<pwd, resets, issued, sSt, sUser, sDev, struck, cut, rtSt, rtSess>>
  BY DEF DeleteAccount, IInv, TypeOK, sessVars, tokenVars
<1> HIDE DEF r
<1>4. Moves(c, r) /\ req'[c] = r
  BY <1>2, <1>3, Setting DEF IInv, Moves
<1>5. RowTypes' /\ Weakens
  BY <1>1, <1>3 DEF IInv, TypeOK, Rows, RowTypes, Weakens, NoFault
<1>6. Opened' = Opened /\ Tokens' = Tokens
  BY <1>5, WeakensRows
<1>7. Sound(req[c])'
  BY <1>1, <1>2, <1>3, <1>4, <1>6
     DEF Sound, Named, Refused, Revoking, Remaining, Evicted, Evicting
<1>8. QED BY <1>1, <1>2, <1>3, <1>4, <1>5, <1>7, WeakStep DEF Counts, Opening, Evicting

LEMMA ResetPasswordStep ==
  ASSUME IInv, NEW c \in Clients, NEW u \in Users, ResetPassword(c, u)
  PROVE  IInv'
<1> DEFINE r == [Idle EXCEPT !.op = "reset", !.pc = "write", !.user = u, !.before = Active(u)]
<1>1. /\ Active(u) \subseteq Opened /\ Opened \subseteq SessionIds
      /\ \A s \in Active(u) : sUser[s] = u
  BY DEF Opened, Active
<1>2. /\ r \in Request /\ r.op = "reset" /\ r.pc = "write" /\ r.user = u
      /\ r.before = Active(u) /\ r.stale = FALSE
  BY <1>1, IdleType DEF Idle, Request, Ops, PCs
<1>3. /\ Begin(c, r) /\ resets[u] > 0 /\ resets' = [resets EXCEPT ![u] = @ - 1]
      /\ UNCHANGED <<pwd, issued, gone, sSt, sUser, sDev, struck, cut, rtSt, rtSess>>
  BY DEF ResetPassword, sessVars, tokenVars
<1> HIDE DEF r
<1>4. Moves(c, r) /\ NoFault /\ req'[c] = r
  BY <1>2, <1>3, Beginning DEF Moves
<1>5. resets \in [Users -> Nat] /\ pwd \in [Users -> Nat] /\ Rows
  BY DEF IInv, TypeOK
<1>6. pwd[u] > 0 /\ resets[u] - 1 \in Nat
  BY <1>3, <1>5 DEF Rows
<1>7. resets' \in [Users -> Nat] /\ \A v \in Users : resets'[v] > 0 => pwd[v] > 0
  BY <1>3, <1>5, <1>6 DEF Rows
<1>8. RowTypes' /\ Weakens
  BY <1>3, <1>4, <1>7 DEF IInv, TypeOK, RowTypes, Weakens, NoFault
<1>9. Opened' = Opened /\ Tokens' = Tokens
  BY <1>8, WeakensRows
<1>10. Sound(req[c])'
  BY <1>1, <1>2, <1>3, <1>4, <1>6, <1>9
     DEF Sound, Named, Refused, Revoking, Remaining, Evicted, Evicting
<1>11. QED BY <1>2, <1>3, <1>4, <1>8, <1>10, WeakStep DEF Counts, Opening, Evicting

LEMMA WritePasswordStep ==
  ASSUME IInv, NEW c \in Clients, WritePassword(c)
  PROVE  IInv'
<1> DEFINE u == req[c].user
<1>1. /\ req[c] \in Request /\ Sound(req[c]) /\ req[c].pc = "write"
      /\ req[c].op \in {"change", "reset"} /\ u \in Users
      /\ pwd \in [Users -> Nat]
  BY DEF IInv, TypeOK, Request, WritePassword, At, Sound, Named
<1>2. PICK pc \in {"resetSnap", "list", "done"} :
        /\ Go(c, pc)
        /\ \/ /\ NoFault /\ pwd' = [pwd EXCEPT ![u] = @ + 1]
              /\ pc = IF req[c].op = "reset" THEN "resetSnap" ELSE "list"
           \/ Fault /\ pc = "done" /\ pwd' = pwd
  BY DEF WritePassword
<1>3. UNCHANGED <<resets, issued, gone, sSt, sUser, sDev, struck, cut, rtSt, rtSess>>
  BY DEF WritePassword, sessVars, tokenVars
<1>4. pc \in PCs
  BY DEF PCs
<1>5. PICK r \in Request :
        /\ Moves(c, r) /\ req'[c] = r /\ Moved(req[c], r, pc)
        /\ r.clean => req[c].clean /\ faults' = faults
  BY <1>2, <1>4, Goes
<1>6. pwd' \in [Users -> Nat] /\ \A v \in Users : pwd[v] > 0 => pwd'[v] > 0
  BY <1>1, <1>2
<1>7. RowTypes' /\ Weakens
  BY <1>2, <1>3, <1>6, AuthBounds DEF IInv, TypeOK, Rows, RowTypes, Weakens, NoFault, Fault
<1>8. Opened' = Opened /\ Tokens' = Tokens
  BY <1>7, WeakensRows
<1>9. r.clean => NoFault /\ req[c].clean
  BY <1>5 DEF NoFault
<1>10. ~(Fault /\ NoFault)
  BY DEF Fault, NoFault, IInv, TypeOK
<1>11. Sound(req[c])'
  BY <1>1, <1>2, <1>3, <1>5, <1>6, <1>8, <1>9, <1>10
     DEF Sound, Named, Refused, Revoking, Remaining, Evicted, Evicting, Moved
<1>12. QED BY <1>2, <1>3, <1>5, <1>7, <1>11, WeakStep DEF Counts, Opening, Evicting, Moved

LEMMA SnapshotAllStep ==
  ASSUME IInv, NEW c \in Clients, SnapshotAll(c)
  PROVE  IInv'
<1> DEFINE r == [req[c] EXCEPT !.pc = "resetRevoke", !.snap = Active(req[c].user)]
<1>1. /\ req[c] \in Request /\ Sound(req[c]) /\ req[c].pc = "resetSnap"
      /\ Active(req[c].user) \subseteq SessionIds
      /\ sSt \in [SessionIds -> {"none", "active", "revoked"}]
  BY DEF IInv, TypeOK, Request, SnapshotAll, At, Active
<1>2. /\ r \in Request /\ r.pc = "resetRevoke" /\ r.op = req[c].op /\ r.user = req[c].user
      /\ r.sess = req[c].sess /\ r.before = req[c].before /\ r.stale = req[c].stale
      /\ r.snap = Active(req[c].user) /\ r.clean = req[c].clean
  BY <1>1 DEF Request, PCs
<1>3. NoFault /\ req' = [req EXCEPT ![c] = r] /\ UNCHANGED <<userVars, sessVars, tokenVars>>
  BY DEF SnapshotAll, IInv, TypeOK
<1> HIDE DEF r
<1>4. Moves(c, r) /\ req'[c] = r
  BY <1>2, <1>3, Setting DEF IInv, Moves
<1>5. Opened' = Opened /\ Tokens' = Tokens
  BY <1>3, <1>4, OnlyRequest
<1>6. Named(req[c])' /\ Refused(req[c])' /\ Evicted(req[c])'
  BY <1>1, <1>2, <1>3, <1>4, <1>5
     DEF Sound, Named, Refused, Evicted, Evicting, userVars, sessVars, tokenVars
<1>7. Revoking(req[c])'
  <2> SUFFICES ASSUME req[c].clean, req[c].op \in {"change", "delete", "reset"},
                      NEW s \in req[c].before
               PROVE  /\ sUser[s] = req[c].user
                      /\ sSt[s] = "revoked" \/ s \in Active(req[c].user)
    BY <1>2, <1>3, <1>4 DEF Revoking, Remaining, sessVars
  <2>1. s \in Opened /\ sUser[s] = req[c].user
    BY <1>1 DEF Sound, Named, Revoking
  <2>2. QED BY <1>1, <2>1 DEF Opened, Active
<1>8. QED BY <1>2, <1>3, <1>4, <1>6, <1>7, QuietStep DEF Counts, Opening, Evicting, Sound

LEMMA EndStep ==
  ASSUME IInv, NEW c \in Clients, Reply(c) \/ Crash(c)
  PROVE  IInv'
<1>1. /\ Fault \/ NoFault
      /\ req' = [req EXCEPT ![c] = Idle] /\ UNCHANGED <<userVars, sessVars, tokenVars>>
  BY DEF Reply, Crash, End
<1>2. Moves(c, Idle) /\ req'[c] = Idle
  BY <1>1, IdleType, Setting DEF IInv, Moves
<1>3. Sound(req[c])'
  BY <1>2 DEF Sound, Named, Refused, Revoking, Evicted, Evicting, Idle
<1>4. QED BY <1>1, <1>2, <1>3, QuietStep DEF Counts, Opening, Evicting, Idle

\* What RevokeSessions and RevokeTokens do to the rows.
LEMMA Revokes ==
  ASSUME IInv, NEW S
  PROVE  /\ RevokeSessions(S) =>
              /\ sSt' \in [SessionIds -> {"none", "active", "revoked"}]
              /\ \A s \in SessionIds :
                   sSt'[s] = sSt[s] \/ (sSt[s] = "active" /\ sSt'[s] = "revoked")
              /\ \A s \in S \cap SessionIds : sSt'[s] # "active"
         /\ RevokeTokens(S) =>
              /\ rtSt' \in [TokenIds -> {"none", "active", "revoked"}]
              /\ \A t \in TokenIds :
                   \/ rtSt'[t] = rtSt[t]
                   \/ rtSt[t] = "active" /\ rtSt'[t] = "revoked" /\ t \in S
  BY DEF IInv, TypeOK, RevokeSessions, RevokeTokens

LEMMA RevokeFamilyStep ==
  ASSUME IInv, NEW c \in Clients, RevokeFamily(c)
  PROVE  IInv'
<1>1. /\ req[c] \in Request /\ Sound(req[c]) /\ req[c].pc = "family" /\ req[c].op = "reuse"
      /\ "kill" \in PCs /\ Go(c, "kill") /\ req[c].sess \in SessionIds
  BY DEF IInv, TypeOK, Request, RevokeFamily, At, Sound, Named, PCs, Opened
<1>2. PICK r \in Request :
        Moves(c, r) /\ req'[c] = r /\ Moved(req[c], r, "kill")
  BY <1>1, Goes
<1>3. /\ Fault \/ NoFault
      /\ UNCHANGED <<pwd, resets, issued, gone, sSt, sUser, sDev, cut, rtSess>>
  BY DEF RevokeFamily, userVars
<1>4. \/ RevokeTokens(TokensOf(req[c].sess)) /\ struck' = struck \cup {req[c].sess}
      \/ UNCHANGED <<rtSt, struck>>
  BY DEF RevokeFamily
<1>5. /\ struck \subseteq struck' /\ struck' \subseteq SessionIds
      /\ rtSt' \in [TokenIds -> {"none", "active", "revoked"}]
      /\ \A t \in TokenIds :
           \/ rtSt'[t] = rtSt[t]
           \/ rtSt[t] = "active" /\ rtSt'[t] = "revoked" /\ rtSess[t] \in struck'
  BY <1>1, <1>4, Revokes DEF IInv, TypeOK, TokensOf
<1>6. RowTypes' /\ Weakens
  BY <1>3, <1>5, AuthBounds DEF IInv, TypeOK, Rows, RowTypes, Weakens, NoFault, Fault
<1>7. Opened' = Opened /\ Tokens' = Tokens
  BY <1>6, WeakensRows
<1>8. Sound(req[c])'
  BY <1>1, <1>2, <1>3, <1>7
     DEF Sound, Named, Refused, Revoking, Evicted, Evicting, Moved
<1>9. QED BY <1>2, <1>3, <1>6, <1>8, WeakStep DEF Counts, Opening, Evicting, Moved

LEMMA KillSessionStep ==
  ASSUME IInv, NEW c \in Clients, KillSession(c)
  PROVE  IInv'
<1>1. /\ req[c] \in Request /\ Sound(req[c]) /\ req[c].pc = "kill" /\ req[c].op = "reuse"
      /\ "done" \in PCs /\ Go(c, "done")
  BY DEF IInv, TypeOK, Request, KillSession, At, Sound, Named, PCs
<1>2. PICK r \in Request :
        Moves(c, r) /\ req'[c] = r /\ Moved(req[c], r, "done")
  BY <1>1, Goes
<1>3. UNCHANGED <<pwd, resets, issued, gone, sUser, sDev, struck, cut, rtSt, rtSess>>
  BY DEF KillSession, userVars, tokenVars
<1>4. /\ sSt' \in [SessionIds -> {"none", "active", "revoked"}]
      /\ \A s \in SessionIds :
           sSt'[s] = sSt[s] \/ (sSt[s] = "active" /\ sSt'[s] = "revoked")
  BY Revokes DEF IInv, TypeOK, KillSession
<1>5. Fault \/ NoFault
  BY DEF KillSession
<1>6. RowTypes' /\ Weakens
  BY <1>3, <1>4, <1>5, AuthBounds DEF IInv, TypeOK, Rows, RowTypes, Weakens, NoFault, Fault
<1>7. Opened' = Opened /\ Tokens' = Tokens
  BY <1>6, WeakensRows
<1>8. Sound(req[c])'
  BY <1>1, <1>2, <1>3, <1>7
     DEF Sound, Named, Refused, Revoking, Evicted, Evicting, Moved
<1>9. QED BY <1>2, <1>3, <1>5, <1>6, <1>8, WeakStep DEF Counts, Opening, Evicting, Moved

LEMMA RevokeAllStep ==
  ASSUME IInv, NEW c \in Clients, RevokeAll(c)
  PROVE  IInv'
<1>1. /\ req[c] \in Request /\ Sound(req[c]) /\ req[c].pc = "resetRevoke"
      /\ req[c].op = "reset" /\ "done" \in PCs /\ Go(c, "done")
      /\ req[c].snap \subseteq SessionIds
  BY DEF IInv, TypeOK, Request, RevokeAll, At, Sound, Named, PCs
<1>2. PICK r \in Request :
        /\ Moves(c, r) /\ req'[c] = r /\ Moved(req[c], r, "done")
        /\ r.clean => req[c].clean /\ faults' = faults
  BY <1>1, Goes
<1>3. /\ (NoFault /\ RevokeSessions(req[c].snap)) \/ (Fault /\ UNCHANGED sSt)
      /\ UNCHANGED <<pwd, resets, issued, gone, sUser, sDev, struck, cut, rtSt, rtSess>>
  BY DEF RevokeAll, userVars, tokenVars
<1>4. /\ sSt' \in [SessionIds -> {"none", "active", "revoked"}]
      /\ \A s \in SessionIds :
           sSt'[s] = sSt[s] \/ (sSt[s] = "active" /\ sSt'[s] = "revoked")
      /\ NoFault => \A s \in req[c].snap : sSt'[s] # "active"
  <2>1. ~(Fault /\ NoFault) /\ sSt \in [SessionIds -> {"none", "active", "revoked"}]
    BY DEF Fault, NoFault, IInv, TypeOK
  <2>2. QED BY <1>1, <1>3, <2>1, Revokes
<1>5. RowTypes' /\ Weakens
  BY <1>3, <1>4, AuthBounds DEF IInv, TypeOK, Rows, RowTypes, Weakens, NoFault, Fault
<1>6. Opened' = Opened /\ Tokens' = Tokens
  BY <1>5, WeakensRows
<1>7. Named(req[c])' /\ Refused(req[c])' /\ Evicted(req[c])'
  BY <1>1, <1>2, <1>3, <1>6 DEF Sound, Named, Refused, Evicted, Evicting, Moved
<1>8. Revoking(req[c])'
  <2> SUFFICES ASSUME req[c].clean, faults' = faults, NEW s \in req[c].before
               PROVE  sUser[s] = req[c].user /\ sSt'[s] = "revoked"
    BY <1>1, <1>2, <1>3 DEF Revoking, Moved
  <2>1. /\ s \in Opened /\ sUser[s] = req[c].user
        /\ sSt[s] = "revoked" \/ s \in req[c].snap
    BY <1>1 DEF Sound, Named, Revoking, Remaining
  <2>2. sSt[s] # "none" /\ s \in SessionIds /\ NoFault
    BY <2>1 DEF Opened, NoFault
  <2>3. QED BY <1>4, <2>1, <2>2
<1>9. QED
  BY <1>2, <1>3, <1>5, <1>7, <1>8, WeakStep DEF Counts, Opening, Evicting, Moved, Sound

-----------------------------------------------------------------------------
(***************************************************************************)
(* The loop over the sessions to revoke                                    *)
(***************************************************************************)
LEMMA HeadAndTail ==
  ASSUME NEW q \in Seq(SessionIds), q # <<>>
  PROVE  /\ Head(q) \in SessionIds /\ Head(q) = q[1] /\ 1 \in 1..Len(q)
         /\ Tail(q) \in Seq(SessionIds)
         /\ \A i \in 1..Len(Tail(q)) : i + 1 \in 1..Len(q) /\ Tail(q)[i] = q[i + 1]
         /\ \A x : In(x, q) <=> x = Head(q) \/ In(x, Tail(q))
<1>1. /\ Len(q) \in Nat \ {0} /\ Head(q) = q[1] /\ Head(q) \in SessionIds
      /\ Tail(q) \in Seq(SessionIds) /\ Len(Tail(q)) = Len(q) - 1
      /\ \A i \in 1..Len(Tail(q)) : Tail(q)[i] = q[i + 1]
  OBVIOUS
<1>2. \A i \in 1..Len(Tail(q)) : i + 1 \in 1..Len(q)
  BY <1>1
<1>3. 1 \in 1..Len(q)
  BY <1>1
<1>4. ASSUME NEW x, In(x, q), x # Head(q) PROVE In(x, Tail(q))
  <2>1. PICK i \in 1..Len(q) : q[i] = x
    BY <1>4 DEF In
  <2>2. i # 1
    BY <1>1, <1>4, <2>1
  <2>3. i - 1 \in 1..Len(Tail(q)) /\ (i - 1) + 1 = i
    BY <1>1, <2>2
  <2>4. Tail(q)[i - 1] = q[(i - 1) + 1]
    BY <1>1, <2>3
  <2>5. QED BY <2>1, <2>3, <2>4 DEF In
<1>5. ASSUME NEW x, x = Head(q) \/ In(x, Tail(q)) PROVE In(x, q)
  BY <1>1, <1>2, <1>3, <1>5 DEF In
<1>6. QED BY <1>1, <1>2, <1>3, <1>4, <1>5

\* The request has revoked the first of its sessions, or leaves it.
LEMMA Popped ==
  ASSUME IInv, NEW c \in Clients, NEW r \in Request, req'[c] = r,
         req[c].pc \in {"revoke", "tokens"}, r.todo = Tail(req[c].todo),
         r.pc = AfterRevoke(c, Tail(req[c].todo)), r.op = req[c].op, r.user = req[c].user,
         r.sess = req[c].sess, r.before = req[c].before, r.stale = req[c].stale,
         r.clean => req[c].clean, Weakens, sSt' = sSt,
         \/ sSt[Head(req[c].todo)] = "revoked" \/ req[c].op = "logout"
         \/ req[c].op # "login" /\ ~r.clean
  PROVE  Sound(req[c])'
<1> DEFINE q == req[c].todo
<1>1. /\ req[c] \in Request /\ Sound(req[c]) /\ q \in Seq(SessionIds) /\ q # <<>>
      /\ \A i \in 1..Len(q) : q[i] \in Opened
  BY DEF IInv, TypeOK, Request, Sound, Named
<1>2. /\ Opened' = Opened /\ Tokens' = Tokens /\ sUser' = sUser /\ rtSess' = rtSess
      /\ \A u \in Users : pwd[u] > 0 => pwd'[u] > 0
  BY WeakensRows DEF Weakens
<1>3. /\ \A i \in 1..Len(Tail(q)) : Tail(q)[i] \in Opened
      /\ \A x : In(x, q) <=> x = Head(q) \/ In(x, Tail(q))
      /\ Tail(q) = <<>> => \A x : ~In(x, Tail(q))
  <2>1. \A i \in 1..Len(Tail(q)) : i + 1 \in 1..Len(q) /\ Tail(q)[i] = q[i + 1]
    BY <1>1, HeadAndTail
  <2>2. \A i \in 1..Len(Tail(q)) : Tail(q)[i] \in Opened
    BY <1>1, <2>1
  <2>3. \A x : In(x, q) <=> x = Head(q) \/ In(x, Tail(q))
    BY <1>1, HeadAndTail
  <2>4. Len(<<>>) = 0 /\ 1..0 = {}
    OBVIOUS
  <2>5. Tail(q) = <<>> => \A x : ~In(x, Tail(q))
    BY <2>4 DEF In
  <2>6. QED BY <2>2, <2>3, <2>5
<1>4. /\ Tail(q) # <<>> => r.pc = "revoke"
      /\ Tail(q) = <<>> /\ r.op = "login" => r.pc = "sweep"
      /\ Tail(q) = <<>> /\ r.op # "login" => r.pc = "done"
  BY DEF AfterRevoke
<1> HIDE DEF q
<1>5. Named(req[c])' /\ Refused(req[c])'
  <2>1. r.op \in {"login", "change", "delete", "logout", "remove"} /\ ~r.stale
    BY <1>1 DEF Sound, Named, Refused
  <2>2. r.pc = "revoke" => r.todo # <<>> /\ \A i \in 1..Len(r.todo) : r.todo[i] \in Opened
    BY <1>3, <1>4, <2>1 DEF q
  <2>3. r.pc \in {"revoke", "sweep", "done"}
    BY <1>4
  <2>4. QED BY <1>1, <1>2, <1>4, <2>1, <2>2, <2>3 DEF Sound, Named, Refused, Evicting
<1>6. Revoking(req[c])'
  <2> SUFFICES ASSUME r.clean, r.op \in {"change", "delete", "reset"}, NEW s \in r.before
               PROVE  /\ sUser[s] = r.user
                      /\ \/ sSt[s] = "revoked" \/ (r.op = "change" /\ s = r.sess)
                         \/ In(s, Tail(q)) /\ r.pc = "revoke"
    BY <1>2 DEF Revoking, Remaining, q
  <2>1. sUser[s] = r.user
    BY <1>1 DEF Sound, Revoking
  <2>2. sSt[Head(q)] = "revoked"
    BY DEF q
  <2>3. \/ sSt[s] = "revoked" \/ (r.op = "change" /\ s = r.sess) \/ In(s, q)
    BY <1>1, <1>3 DEF Sound, Revoking, Remaining, q
  <2>4. In(s, Tail(q)) => r.pc = "revoke"
    BY <1>3, <1>4
  <2>5. QED BY <1>3, <2>1, <2>2, <2>3, <2>4
<1>7. Evicted(req[c])'
  <2> SUFFICES ASSUME MaxDevices > 0, r.op = "login"
               PROVE  Cardinality({s \in Active(r.user)' \cap r.before : ~In(s, r.todo)}) + 1
                        <= MaxDevices
    BY DEF Evicted, Evicting
  <2> DEFINE S == {s \in Active(r.user) \cap r.before : ~In(s, q)}
             T == {s \in Active(r.user)' \cap r.before : ~In(s, r.todo)}
  <2>1. Cardinality(S) + 1 <= MaxDevices
    BY <1>1 DEF Sound, Evicted, Evicting, q
  <2>2. Active(r.user)' = Active(r.user) /\ Head(q) \notin Active(r.user)
    BY <1>2 DEF Active, q
  <2>3. S = T
    BY <1>3, <2>2 DEF q
  <2>4. QED BY <2>1, <2>3
<1>8. QED BY <1>5, <1>6, <1>7 DEF Sound

\* The last of the victims is revoked: the login has evicted them all.
LEMMA EvictionDone ==
  ASSUME IInv, NEW c \in Clients, NEW r, Moves(c, r), RowTypes', Weakens, sSt' = sSt,
         Fault \/ NoFault, UNCHANGED cut, Evicting(req[c]), MaxDevices > 0,
         sSt[Head(req[c].todo)] = "revoked", Tail(req[c].todo) = <<>>,
         r.user = req[c].user, r.pc = "sweep"
  PROVE  Limit'
<1> SUFFICES ASSUME NEW u \in Users
             PROVE  \E k \in 0..Cardinality(Opened)' :
                      Room(Active(u)', req', faults' + cut', u, k)
  BY DEF Limit
<1>1. /\ faults \in Nat /\ faults' \in Nat /\ faults <= faults'
      /\ cut \in Nat /\ cut' \in Nat /\ cut <= cut'
  BY AuthBounds DEF IInv, TypeOK, RowTypes, Fault, NoFault
<1>2. /\ faults + cut \in Nat /\ faults' + cut' \in Nat
      /\ faults + cut <= faults' + cut'
  BY <1>1, Slacks
<1>3. Opened' = Opened /\ Active(u)' = Active(u) /\ Active(u) \subseteq SessionIds
  BY WeakensRows DEF Weakens, Active
<1>4. Cardinality(Opened) \in Nat
  BY IdsFinite DEF Opened
<1>5. CASE u # req[c].user
  BY <1>2, <1>3, <1>5, UserRoom DEF Counts
<1>6. CASE u = req[c].user
  <2>1. PICK j \in 0..Cardinality(Opened) : req[c].before = 1..j
    BY DEF IInv, Sound, Named
  <2>2. Sound(req[c]) /\ req[c].todo \in Seq(SessionIds) /\ req[c].todo # <<>>
    BY DEF IInv, TypeOK, Sound, Named, Evicting
  <2> DEFINE S == {s \in Active(u) \cap req[c].before : ~In(s, req[c].todo)}
  <2>3. Cardinality(S) + 1 <= MaxDevices
    BY <1>6, <2>2 DEF Sound, Evicted
  <2>4. \A s \in Active(u) : ~In(s, req[c].todo)
    <3>1. Len(<<>>) = 0 /\ 1..0 = {}
      OBVIOUS
    <3>2. \A s : ~In(s, Tail(req[c].todo))
      BY <3>1 DEF In
    <3>3. Head(req[c].todo) \notin Active(u)
      BY DEF Active
    <3>4. QED BY <2>2, <3>2, <3>3, HeadAndTail
  <2>5. Older(Active(u), j) = S
    <3>1. \A s \in Active(u) : s \in Nat /\ s >= 1
      BY AuthBounds DEF Active, SessionIds
    <3>2. \A s \in Active(u) : s <= j <=> s \in 1..j
      BY <1>4, <2>1, <3>1
    <3>3. QED BY <2>1, <2>4, <3>2 DEF Older
  <2> HIDE DEF S
  <2>6. Cardinality(Older(Active(u), j)) + 1 <= MaxDevices
    BY <2>3, <2>5
  <2>7. NoMore(req', req, c, u, j)
    <3>1. ASSUME NEW x \in j..MaxSessions PROVE req[c].before \subseteq 1..x
      BY <1>4, <2>1
    <3>2. QED BY <1>6, <3>1 DEF Counts, Moves, NoMore
  <2>8. \E k \in 0..Cardinality(Opened) : Room(Active(u), req, faults + cut, u, k)
    BY DEF IInv, Limit
  <2>9. \A o \in Clients \ {c} : req'[o] = req[o]
    BY DEF Moves
  <2> DEFINE n == faults + cut
             m == faults' + cut'
             A == Active(u)
             top == Cardinality(Opened)
  <2>10. /\ n \in Nat /\ m \in Nat /\ n <= m /\ top \in Nat
         /\ A \subseteq SessionIds /\ A \in SUBSET A /\ j \in 0..top
         /\ \E k \in 0..top : Room(A, req, n, u, k)
         /\ Cardinality(Older(A, j)) + 1 <= MaxDevices
    BY <1>2, <1>3, <1>4, <2>1, <2>6, <2>8
  <2> HIDE DEF n, m, A, top
  <2>11. \E k \in 0..top : Room(A, req', m, u, k)
    BY <2>7, <2>9, <2>10, RoomCompleted
  <2>12. QED BY <1>3, <2>11 DEF m, A, top
<1>7. QED BY <1>5, <1>6

\* The loop goes on with the rest of todo.
Pop(c) ==
  req' = [req EXCEPT ![c].todo = Tail(@), ![c].pc = AfterRevoke(c, Tail(req[c].todo)),
                     ![c].clean = @ /\ faults' = faults]

LEMMA Pops ==
  ASSUME IInv, NEW c \in Clients, Pop(c), req[c].pc \in {"revoke", "tokens"}
  PROVE  \E r \in Request :
           /\ Moves(c, r) /\ req'[c] = r /\ r.todo = Tail(req[c].todo)
           /\ r.pc = AfterRevoke(c, Tail(req[c].todo)) /\ r.op = req[c].op
           /\ r.user = req[c].user /\ r.sess = req[c].sess /\ r.before = req[c].before
           /\ r.stale = req[c].stale
           /\ (r.clean => req[c].clean) /\ (r.clean => faults' = faults)
<1> DEFINE pc == AfterRevoke(c, Tail(req[c].todo))
           ok == faults' = faults
           r == [req[c] EXCEPT !.todo = Tail(@), !.pc = pc, !.clean = @ /\ ok]
<1>1. TypeOK /\ req[c] \in Request /\ req[c].todo # <<>>
  BY DEF IInv, TypeOK, Request, Sound, Named
<1>2. Tail(req[c].todo) \in Seq(SessionIds)
  BY <1>1 DEF Request
<1>3. pc \in PCs
  BY DEF AfterRevoke, PCs
<1>4. req' = [req EXCEPT ![c] = r]
  BY <1>1 DEF TypeOK, Pop
<1> HIDE DEF pc, ok
<1>5. /\ r \in Request /\ r.todo = Tail(req[c].todo) /\ r.pc = pc /\ r.op = req[c].op
      /\ r.user = req[c].user /\ r.sess = req[c].sess /\ r.before = req[c].before
      /\ r.stale = req[c].stale /\ (r.clean => req[c].clean) /\ (r.clean => ok)
  BY <1>1, <1>2, <1>3 DEF Request
<1> HIDE DEF r
<1>6. Moves(c, r) /\ req'[c] = r
  BY <1>1, <1>4, <1>5, Setting DEF Moves
<1>7. QED BY <1>5, <1>6 DEF pc, ok

LEMMA RevokeItsTokensStep ==
  ASSUME IInv, NEW c \in Clients, RevokeItsTokens(c)
  PROVE  IInv'
<1> DEFINE s == Head(req[c].todo)
<1>1. /\ req[c] \in Request /\ Sound(req[c]) /\ req[c].pc = "tokens"
      /\ req[c].op \in {"login", "change", "delete", "logout", "remove"}
      /\ req[c].todo # <<>> /\ req[c].todo \in Seq(SessionIds) /\ s \in SessionIds
      /\ req[c].op = "logout" \/ sSt[s] = "revoked"
  BY HeadAndTail DEF IInv, TypeOK, Request, RevokeItsTokens, At, Sound, Named
<1>2. /\ Fault \/ NoFault
      /\ UNCHANGED <<pwd, resets, issued, gone, sSt, sUser, sDev, cut, rtSess>>
      /\ \/ RevokeTokens(TokensOf(s)) /\ struck' = struck \cup {s}
         \/ UNCHANGED <<rtSt, struck>>
      /\ Pop(c)
  BY DEF RevokeItsTokens, userVars, Pop
<1> HIDE DEF s
<1>3. PICK r \in Request :
        /\ Moves(c, r) /\ req'[c] = r /\ r.todo = Tail(req[c].todo)
        /\ r.pc = AfterRevoke(c, Tail(req[c].todo)) /\ r.op = req[c].op
        /\ r.user = req[c].user /\ r.sess = req[c].sess /\ r.before = req[c].before
        /\ r.stale = req[c].stale /\ (r.clean => req[c].clean)
  BY <1>1, <1>2, Pops
<1>4. /\ struck \subseteq struck' /\ struck' \subseteq SessionIds
      /\ rtSt' \in [TokenIds -> {"none", "active", "revoked"}]
      /\ \A t \in TokenIds :
           \/ rtSt'[t] = rtSt[t]
           \/ rtSt[t] = "active" /\ rtSt'[t] = "revoked" /\ rtSess[t] \in struck'
  BY <1>1, <1>2, Revokes DEF IInv, TypeOK, TokensOf
<1>5. RowTypes' /\ Weakens
  BY <1>2, <1>4, AuthBounds DEF IInv, TypeOK, Rows, RowTypes, Weakens, NoFault, Fault
<1>6. Sound(req[c])'
  BY <1>1, <1>2, <1>3, <1>5, Popped DEF s
<1>7. /\ Tail(req[c].todo) # <<>> => r.pc = "revoke"
      /\ Tail(req[c].todo) = <<>> /\ r.op = "login" => r.pc = "sweep"
      /\ Tail(req[c].todo) = <<>> /\ r.op # "login" => r.pc = "done"
  BY <1>3 DEF AfterRevoke
<1>8. CASE Tail(req[c].todo) = <<>> /\ req[c].op = "login"
  <2>1. MaxDevices > 0 => Limit'
    BY <1>1, <1>2, <1>3, <1>5, <1>7, <1>8, EvictionDone DEF Evicting, s
  <2>2. QED BY <1>3, <1>5, <1>6, <2>1, Preserved
<1>9. CASE ~(Tail(req[c].todo) = <<>> /\ req[c].op = "login")
  BY <1>1, <1>2, <1>3, <1>5, <1>6, <1>7, <1>9, WeakStep, SMTT(30) DEF Counts, Opening, Evicting
<1>10. QED BY <1>8, <1>9

\* RevokeSession revokes the session, and goes on to its tokens.
LEMMA RevokedStep ==
  ASSUME IInv, NEW c \in Clients, At(c, "revoke"), RevokeSessions({Head(req[c].todo)}),
         Go(c, "tokens"), NoFault, UNCHANGED <<userVars, sUser, sDev, struck, cut, tokenVars>>
  PROVE  IInv'
<1> DEFINE q == req[c].todo
<1>1. /\ req[c] \in Request /\ Sound(req[c]) /\ req[c].pc = "revoke"
      /\ q # <<>> /\ q \in Seq(SessionIds) /\ Head(q) \in SessionIds
      /\ \A i \in 1..Len(q) : q[i] \in Opened
      /\ Head(q) \in Opened
  BY HeadAndTail DEF IInv, TypeOK, Request, At, Sound, Named
<1>2. "tokens" \in PCs
  BY DEF PCs
<1>3. PICK r \in Request :
        /\ Moves(c, r) /\ req'[c] = r /\ Moved(req[c], r, "tokens")
        /\ r.clean => req[c].clean /\ faults' = faults
  BY <1>2, Goes
<1>4. /\ sSt' \in [SessionIds -> {"none", "active", "revoked"}]
      /\ \A s \in SessionIds :
           sSt'[s] = sSt[s] \/ (sSt[s] = "active" /\ sSt'[s] = "revoked")
      /\ sSt'[Head(q)] = "revoked"
  <2>1. sSt'[Head(q)] # "active"
    BY <1>1, Revokes
  <2>2. sSt[Head(q)] # "none"
    BY <1>1 DEF Opened
  <2>3. QED BY <1>1, <2>1, <2>2, Revokes DEF IInv, TypeOK
<1>5. RowTypes' /\ Weakens
  BY <1>4 DEF IInv, TypeOK, Rows, RowTypes, Weakens, NoFault, userVars, tokenVars
<1>6. /\ Opened' = Opened /\ Tokens' = Tokens
      /\ sUser' = sUser /\ rtSess' = rtSess /\ pwd' = pwd /\ gone' = gone
  BY <1>5, WeakensRows DEF userVars, tokenVars
<1>7. Named(req[c])' /\ Refused(req[c])'
  <2>1. r.todo # <<>> /\ \A i \in 1..Len(r.todo) : r.todo[i] \in Opened
    BY <1>1, <1>3 DEF Moved
  <2>2. sSt'[Head(r.todo)] = "revoked"
    BY <1>3, <1>4 DEF Moved
  <2>3. QED BY <1>1, <1>3, <1>6, <2>1, <2>2 DEF Sound, Named, Refused, Evicting, Moved
<1>8. Revoking(req[c])'
  <2> SUFFICES ASSUME req[c].clean, req[c].op \in {"change", "delete", "reset"},
                      NEW s \in req[c].before
               PROVE  /\ sUser[s] = req[c].user
                      /\ \/ sSt'[s] = "revoked" \/ (req[c].op = "change" /\ s = req[c].sess)
                         \/ In(s, Tail(q))
    BY <1>3, <1>6 DEF Revoking, Remaining, Moved
  <2>1. /\ sUser[s] = req[c].user /\ s \in SessionIds
        /\ sSt[s] = "revoked" \/ (req[c].op = "change" /\ s = req[c].sess) \/ In(s, q)
    BY <1>1 DEF Sound, Named, Revoking, Remaining, Opened
  <2>2. sSt[s] = "revoked" => sSt'[s] = "revoked"
    BY <1>4, <2>1
  <2>3. In(s, q) => s = Head(q) \/ In(s, Tail(q))
    BY <1>1, HeadAndTail
  <2>4. QED BY <1>4, <2>1, <2>2, <2>3
<1>9. Evicted(req[c])'
  <2> SUFFICES ASSUME MaxDevices > 0, req[c].op = "login"
               PROVE  Cardinality({s \in Active(r.user)' \cap r.before : ~In(s, q)}) + 1
                        <= MaxDevices
    BY <1>3 DEF Evicted, Evicting, Moved
  <2> DEFINE S == {s \in Active(r.user) \cap r.before : ~In(s, q)}
             T == {s \in Active(r.user)' \cap r.before : ~In(s, q)}
  <2>1. Cardinality(S) + 1 <= MaxDevices
    BY <1>1, <1>3 DEF Sound, Evicted, Evicting, Moved
  <2>2. T \in SUBSET S /\ S \subseteq SessionIds
    <3>1. Active(r.user)' \subseteq Active(r.user)
      BY <1>5, WeakensRows
    <3>2. Active(r.user) \subseteq SessionIds
      BY DEF Active
    <3>3. QED BY <3>1, <3>2
  <2>3. IsFiniteSet(S)
    BY <2>2, IdsFinite
  <2> HIDE DEF S, T
  <2>4. Cardinality(T) + 1 <= MaxDevices
    BY <2>1, <2>2, <2>3, Fewer, AuthBounds
  <2>5. QED BY <2>4 DEF T
<1>10. Sound(req[c])'
  BY <1>7, <1>8, <1>9 DEF Sound
<1>11. QED
  BY <1>1, <1>3, <1>5, <1>10, WeakStep DEF Counts, Opening, Evicting, Moved

\* RevokeSession fails, or finds the session revoked.
LEMMA NotRevokedStep ==
  ASSUME IInv, NEW c \in Clients, At(c, "revoke"), RevokeError(c),
         \/ sSt[Head(req[c].todo)] = "revoked" /\ NoFault /\ CutShort(c)
         \/ Fault /\ UNCHANGED cut,
         UNCHANGED <<userVars, sSt, sUser, sDev, struck, tokenVars>>
  PROVE  IInv'
<1> DEFINE q == req[c].todo
<1>1. /\ TypeOK /\ req[c] \in Request /\ Sound(req[c]) /\ req[c].pc = "revoke"
      /\ req[c].op \in {"login", "change", "delete", "logout", "remove"} /\ ~req[c].stale
      /\ q # <<>> /\ q \in Seq(SessionIds)
      /\ \A i \in 1..Len(q) : q[i] \in Opened
  BY DEF IInv, TypeOK, Request, At, Sound, Named, Refused
<1>2. /\ Fault \/ NoFault
      /\ ~(Fault /\ NoFault)
      /\ faults \in Nat /\ faults' \in Nat /\ faults' \in 0..MaxFaults
      /\ cut \in Nat /\ cut' \in Nat /\ faults <= faults' /\ cut <= cut'
      /\ req[c].op # "login" => cut' = cut
  BY <1>1, AuthBounds DEF TypeOK, Fault, NoFault, CutShort
<1>3. RowTypes' /\ Weakens
  BY <1>1, <1>2 DEF IInv, TypeOK, Rows, RowTypes, Weakens, userVars, tokenVars
<1>4. /\ Opened' = Opened /\ Tokens' = Tokens /\ sSt' = sSt
      /\ sUser' = sUser /\ rtSess' = rtSess /\ pwd' = pwd /\ gone' = gone
  BY <1>3, WeakensRows DEF userVars, tokenVars
<1>5. faults + cut <= faults' + cut'
  BY <1>2, Slacks
<1>6. CASE req[c].op = "logout"
  <2>1. Go(c, "tokens") /\ "tokens" \in PCs
    BY <1>6 DEF RevokeError, PCs
  <2>2. PICK r \in Request : Moves(c, r) /\ req'[c] = r /\ Moved(req[c], r, "tokens")
    BY <2>1, Goes
  <2>3. Sound(req[c])'
    <3>1. r.todo # <<>> /\ \A i \in 1..Len(r.todo) : r.todo[i] \in Opened
      BY <1>1, <2>2 DEF Moved
    <3>2. QED
      BY <1>1, <1>4, <1>6, <2>2, <3>1
         DEF Sound, Named, Refused, Revoking, Evicted, Evicting, Moved
  <2>4. QED
    BY <1>2, <1>3, <1>6, <2>2, <2>3, WeakStep DEF Counts, Opening, Evicting, Moved
<1>7. CASE req[c].op = "login"
  <2> DEFINE ok == faults' = faults
             r == [req[c] EXCEPT !.todo = <<>>, !.pc = "sweep", !.clean = @ /\ ok]
  <2>1. req' = [req EXCEPT ![c] = r] /\ <<>> \in Seq(SessionIds)
    <3>1. req' = [req EXCEPT ![c].todo = <<>>, ![c].pc = "sweep", ![c].clean = @ /\ ok]
      BY <1>7 DEF RevokeError
    <3>2. req \in [Clients -> Request]
      BY <1>1, Types
    <3>3. req' = [req EXCEPT ![c] = r]
      BY <3>1, <3>2
    <3>4. QED BY <3>3
  <2> HIDE DEF ok
  <2>2. /\ r \in Request /\ r.pc = "sweep" /\ r.op = "login" /\ r.user = req[c].user
        /\ r.before = req[c].before /\ r.stale = req[c].stale
    BY <1>1, <1>7, <2>1, ZenonT(60) DEF Request, PCs
  <2> HIDE DEF r
  <2>3. Moves(c, r) /\ req'[c] = r
    BY <1>1, <2>1, <2>2, Setting DEF Moves
  <2>4. Sound(req[c])'
    BY <1>1, <1>4, <1>7, <2>2, <2>3
       DEF Sound, Named, Refused, Revoking, Evicted, Evicting
  <2>5. CASE Fault \/ Tail(q) # <<>>
    <3>1. faults + cut + 1 <= faults' + cut'
      <4>1. CASE Fault
        <5>1. faults + 1 = faults' /\ cut' = cut
          BY <1>2, <4>1 DEF Fault
        <5>2. QED BY <1>2, <5>1, Slacks
      <4>2. CASE Tail(q) # <<>> /\ ~Fault
        <5>1. faults = faults' /\ cut + 1 = cut'
          BY <1>2, <1>7, <4>2 DEF CutShort, NoFault
        <5>2. QED BY <1>2, <5>1, Slacks
      <4>3. QED BY <2>5, <4>1, <4>2
    <3>2. MaxDevices > 0 => Limit'
      <4> SUFFICES ASSUME MaxDevices > 0, NEW u \in Users
                   PROVE  \E k \in 0..Cardinality(Opened)' :
                            Room(Active(u)', req', faults' + cut', u, k)
        BY DEF Limit
      <4>1. Active(u)' \subseteq Active(u) /\ Opened \subseteq Opened'
        BY <1>3, WeakensRows
      <4>2. QED BY <1>3, <1>5, <2>3, <3>1, <4>1, UserRoom
    <3>3. QED BY <1>3, <2>3, <2>4, <3>2, Preserved
  <2>6. CASE ~Fault /\ Tail(q) = <<>>
    <3>1. sSt[Head(q)] = "revoked" /\ NoFault /\ cut' = cut
      BY <1>2, <2>6 DEF CutShort
    <3>2. MaxDevices > 0 => Limit'
      BY <1>1, <1>3, <1>4, <1>7, <2>2, <2>3, <2>6, <3>1, EvictionDone DEF Evicting
    <3>3. QED BY <1>3, <2>3, <2>4, <3>2, Preserved
  <2>7. QED BY <2>5, <2>6
<1>8. CASE req[c].op \in {"remove", "change", "delete"}
  <2>1. Pop(c)
    BY <1>8 DEF RevokeError, Pop
  <2>2. PICK r \in Request :
          /\ Moves(c, r) /\ req'[c] = r /\ r.todo = Tail(q)
          /\ r.pc = AfterRevoke(c, Tail(q)) /\ r.op = req[c].op
          /\ r.user = req[c].user /\ r.sess = req[c].sess /\ r.before = req[c].before
          /\ r.stale = req[c].stale /\ (r.clean => req[c].clean) /\ (r.clean => faults' = faults)
    BY <1>1, <2>1, Pops
  <2>3. sSt[Head(q)] = "revoked" \/ ~r.clean
    BY <1>2, <2>2 DEF NoFault
  <2>4. Sound(req[c])'
    BY <1>1, <1>3, <1>4, <1>8, <2>2, <2>3, Popped
  <2>5. QED
    BY <1>2, <1>3, <1>8, <2>2, <2>4, WeakStep DEF Counts, Opening, Evicting, AfterRevoke
<1>9. QED BY <1>1, <1>6, <1>7, <1>8

LEMMA RevokeSessionStep ==
  ASSUME IInv, NEW c \in Clients, RevokeSession(c)
  PROVE  IInv'
<1>1. CASE /\ RevokeSessions({Head(req[c].todo)}) /\ Go(c, "tokens")
           /\ NoFault /\ UNCHANGED cut
  BY <1>1, RevokedStep DEF RevokeSession
<1>2. CASE /\ \/ sSt[Head(req[c].todo)] = "revoked" /\ NoFault /\ CutShort(c)
              \/ Fault /\ UNCHANGED cut
           /\ RevokeError(c) /\ UNCHANGED sSt
  BY <1>2, NotRevokedStep DEF RevokeSession
<1>3. QED BY <1>1, <1>2 DEF RevokeSession

-----------------------------------------------------------------------------
(***************************************************************************)
(* Listing the sessions to revoke                                          *)
(***************************************************************************)
\* Without its victims a user is below the limit.
LEMMA VictimsLeave ==
  ASSUME NEW u, MaxDevices > 0
  PROVE  Cardinality(Active(u) \ Victims(u)) + 1 <= MaxDevices
<1> DEFINE A == Active(u)
           few == {s \in A : Cardinality(Above(A, s)) < MaxDevices - 1}
<1>1. A \subseteq SessionIds /\ MaxDevices - 1 \in Nat
  BY AuthBounds DEF Active
<1>2. \A s \in A : Cardinality(Above(A, s)) \in Nat
  <2>1. ASSUME NEW s \in A
        PROVE  /\ Cardinality(A) \in Nat
               /\ Cardinality(Above(A, s)) \in 0..(Cardinality(A) - 1)
    BY <1>1, Ranks
  <2> HIDE DEF A
  <2>2. QED BY <2>1
<1>3. \A s \in A : s \in Victims(u) <=> Cardinality(Above(A, s)) + 1 >= MaxDevices
  BY DEF Victims, Above
<1> HIDE DEF A
<1>4. A \ Victims(u) = few
  BY <1>1, <1>2, <1>3, AuthBounds
<1>5. Cardinality(few) <= MaxDevices - 1
  BY <1>1, FewNewest
<1>6. few \subseteq SessionIds
  BY <1>1
<1> HIDE DEF few
<1>7. Cardinality(few) \in Nat
  BY <1>6, IdsFinite
<1>8. QED BY <1>4, <1>5, <1>7, AuthBounds DEF A

LEMMA ListStep ==
  ASSUME IInv, NEW c \in Clients, List(c)
  PROVE  IInv'
<1>1. /\ req \in [Clients -> Request] /\ req[c] \in Request /\ Sound(req[c])
      /\ req[c].pc = "list" /\ req[c].op \in {"login", "change", "delete"}
      /\ ~req[c].stale /\ req[c].user \in Users /\ pwd[req[c].user] > 0
  BY DEF IInv, TypeOK, Request, List, At, Sound, Named, Refused
<1>2. PICK S \in {Listed(c), {}} :
        /\ IF S = Listed(c) THEN NoFault ELSE Fault
        /\ req' = [req EXCEPT ![c].todo = Oldest(S),
                              ![c].pc = AfterRevoke(c, Oldest(S)),
                              ![c].before = IF req[c].op = "login" THEN Opened ELSE @,
                              ![c].clean = @ /\ faults' = faults]
  BY DEF List
<1>3. UNCHANGED <<userVars, sessVars, tokenVars>> /\ (Fault \/ NoFault)
  BY <1>2 DEF List
<1>4. S \subseteq SessionIds /\ S \subseteq Opened /\ Opened \subseteq SessionIds
  BY <1>1, <1>2 DEF Listed, Victims, Active, Opened
<1> DEFINE Q == Oldest(S)
           ok == faults' = faults
           pc == AfterRevoke(c, Q)
           r == [req[c] EXCEPT !.todo = Q, !.pc = pc,
                               !.before = IF req[c].op = "login" THEN Opened ELSE @,
                               !.clean = @ /\ ok]
<1>5. /\ Q \in Seq(SessionIds) /\ (Q = <<>> <=> S = {})
      /\ \A s : In(s, Q) <=> s \in S
      /\ \A i \in 1..Len(Q) : Q[i] \in Opened
  BY <1>4, OldestLists
<1>6. /\ S # {} => pc = "revoke"
      /\ S = {} /\ req[c].op = "login" => pc = "sweep"
      /\ S = {} /\ req[c].op # "login" => pc = "done"
  BY <1>5 DEF AfterRevoke
<1>7. req' = [req EXCEPT ![c] = r]
  BY <1>1, <1>2
<1> HIDE DEF Q, ok, pc
<1>8. pc \in PCs
  BY <1>6 DEF PCs
<1>9. /\ r \in Request /\ r.todo = Q /\ r.pc = pc /\ r.op = req[c].op
      /\ r.user = req[c].user /\ r.sess = req[c].sess /\ r.stale = req[c].stale
      /\ r.before = IF req[c].op = "login" THEN Opened ELSE req[c].before
      /\ (r.clean => req[c].clean) /\ (r.clean => ok)
  BY <1>1, <1>4, <1>5, <1>8, ZenonT(60) DEF Request
<1> HIDE DEF r
<1>10. Moves(c, r) /\ req'[c] = r
  BY <1>7, <1>9, Setting DEF IInv, Moves
<1>11. /\ RowTypes' /\ Weakens /\ faults + cut <= faults' + cut'
       /\ Opened' = Opened /\ Tokens' = Tokens
  BY <1>3, <1>10, OnlyRequest
<1>12. Named(req[c])' /\ Refused(req[c])'
  <2>1. r.pc = "revoke" => r.todo # <<>> /\ \A i \in 1..Len(r.todo) : r.todo[i] \in Opened
    BY <1>5, <1>6, <1>9
  <2>2. Cardinality(Opened) \in Nat /\ Opened = 1..Cardinality(Opened)
    BY <1>4, IdsFinite DEF IInv, Rows
  <2>3. Evicting(r) => \E m \in 0..Cardinality(Opened) : r.before = 1..m
    BY <1>9, <2>2 DEF Evicting
  <2>4. r.pc \in {"revoke", "sweep", "done"} /\ (r.pc = "sweep" => r.op = "login")
    BY <1>6, <1>9
  <2>5. QED
    BY <1>1, <1>3, <1>9, <1>10, <1>11, <2>1, <2>3, <2>4
       DEF Sound, Named, Refused, Evicting, userVars, sessVars, tokenVars
<1>13. Revoking(req[c])'
  <2> SUFFICES ASSUME r.clean, r.op \in {"change", "delete"}, NEW s \in r.before
               PROVE  /\ sUser[s] = r.user
                      /\ \/ sSt[s] = "revoked" \/ (r.op = "change" /\ s = r.sess)
                         \/ In(s, r.todo) /\ r.pc = "revoke"
    BY <1>1, <1>3, <1>9, <1>10 DEF Revoking, Remaining, sessVars
  <2>1. s \in Opened /\ sUser[s] = r.user
    BY <1>1, <1>9 DEF Sound, Named, Revoking
  <2>2. sSt[s] = "revoked" \/ s \in Active(r.user)
    BY <2>1 DEF IInv, TypeOK, Opened, Active
  <2>3. NoFault /\ S = Listed(c)
    <3>1. faults' = faults /\ ~Fault
      BY <1>9 DEF ok, Fault, IInv, TypeOK
    <3>2. QED BY <1>2, <3>1
  <2>4. \/ sSt[s] = "revoked" \/ (r.op = "change" /\ s = r.sess) \/ s \in S
    BY <1>9, <2>2, <2>3 DEF Listed
  <2>5. s \in S => In(s, r.todo) /\ r.pc = "revoke"
    BY <1>5, <1>6, <1>9
  <2>6. QED BY <2>1, <2>4, <2>5
<1>14. Evicted(req[c])'
  <2>0. PICK u \in Users : u = req[c].user
    BY <1>1
  <2>1. Active(u)' = Active(u) /\ Active(u) \subseteq Opened
    BY <1>3 DEF Active, Opened, sessVars
  <2> SUFFICES ASSUME MaxDevices > 0, r.op = "login", r.pc = "revoke"
               PROVE  Cardinality({s \in Active(u) \cap r.before : ~In(s, r.todo)}) + 1
                        <= MaxDevices
    <3>1. req'[c].user = u
      BY <1>9, <1>10, <2>0
    <3>2. Active(req[c].user)' = Active(u)
      BY <2>1, <3>1 DEF Active
    <3>3. QED BY <1>6, <1>9, <1>10, <3>2 DEF Evicted, Evicting
  <2>2. S = Victims(u)
    BY <1>2, <1>6, <1>9, <2>0 DEF Listed
  <2>3. {s \in Active(u) \cap r.before : ~In(s, r.todo)} = Active(u) \ Victims(u)
    BY <1>5, <1>9, <2>1, <2>2
  <2>4. QED BY <2>3, VictimsLeave
<1>15. Sound(req[c])'
  BY <1>12, <1>13, <1>14 DEF Sound
<1>16. CASE req[c].op # "login"
  BY <1>3, <1>6, <1>9, <1>10, <1>15, <1>16, QuietStep DEF Counts, Opening, Evicting
<1>17. CASE req[c].op = "login"
  <2> SUFFICES ASSUME MaxDevices > 0, NEW u \in Users
               PROVE  \E k \in 0..Cardinality(Opened)' :
                        Room(Active(u)', req', faults' + cut', u, k)
    BY <1>10, <1>11, <1>15, Preserved DEF Limit
  <2>1. Active(u)' = Active(u) /\ Active(u) \subseteq Opened
    BY <1>3 DEF Active, Opened, sessVars
  <2>2. CASE u # r.user
    BY <1>10, <1>11, <2>1, <2>2, UserRoom DEF Counts
  <2>3. CASE Fault
    <3>1. /\ faults \in Nat /\ faults' \in Nat /\ faults + 1 = faults'
          /\ cut \in Nat /\ cut' \in Nat /\ cut' = cut
      BY <1>3, <1>11, <2>3, AuthBounds DEF IInv, TypeOK, RowTypes, Fault, sessVars
    <3>2. faults + cut + 1 <= faults' + cut'
      BY <3>1, Slacks
    <3>3. QED BY <1>10, <1>11, <2>1, <3>2, UserRoom
  <2>4. CASE u = r.user /\ ~Fault /\ S # {}
    <3>1. r.before = Opened /\ r.pc = "revoke"
      BY <1>6, <1>9, <1>17, <2>4
    <3>2. ASSUME NEW x \in 0..MaxSessions, Counts(r, u, x)
          PROVE  NoneNewer(Active(u)', x)
      <4>1. \A s \in Active(u)' : s \in 1..x
        BY <2>1, <3>1, <3>2 DEF Counts, Opening
      <4>2. \A s \in Active(u)' : ~(s > x)
        <5>1. \A s \in 1..x : ~(s > x)
          OBVIOUS
        <5>2. QED BY <4>1, <5>1
      <4>3. QED BY <4>2 DEF NoneNewer, Newer
    <3>3. Active(u)' \subseteq Active(u) /\ Opened \subseteq Opened'
      BY <1>11, <2>1
    <3>4. QED BY <1>10, <1>11, <3>2, <3>3, UserRoom
  <2>5. CASE u = r.user /\ ~Fault /\ S = {}
    <3>1. Victims(u) = {}
      BY <1>2, <1>9, <1>17, <2>5 DEF Listed
    <3>2. Cardinality(Active(u)) + 1 <= MaxDevices
      <4>1. Active(u) \ {} = Active(u)
        OBVIOUS
      <4>2. QED BY <3>1, <4>1, VictimsLeave
    <3>3. Cardinality(Opened) \in Nat /\ Opened = 1..Cardinality(Opened)
      BY <1>4, IdsFinite DEF IInv, Rows
    <3>4. faults' + cut' \in Nat
      <4>1. faults' \in Nat /\ cut' \in Nat
        BY <1>11, AuthBounds DEF RowTypes
      <4>2. QED BY <4>1, Slacks
    <3> DEFINE n == faults' + cut'
               A == Active(u)
               k == Cardinality(Opened)
    <3>5. n \in Nat /\ k \in Nat /\ A \subseteq 1..k /\ A \subseteq SessionIds
          /\ Cardinality(A) + 1 <= MaxDevices
      BY <1>4, <2>1, <3>2, <3>3, <3>4
    <3> HIDE DEF n, A, k
    <3>6. Room(A, req', n, u, k)
      BY <3>5, RoomListed
    <3>7. QED BY <1>11, <2>1, <3>3, <3>6 DEF n, A, k
  <2>6. QED BY <2>2, <2>3, <2>4, <2>5
<1>18. QED BY <1>16, <1>17

-----------------------------------------------------------------------------
(***************************************************************************)
(* New rows                                                                *)
(***************************************************************************)
LEMMA Numbered ==
  ASSUME NEW S, NEW n \in Nat, S = 1..n
  PROVE  /\ n + 1 \notin S /\ S \cup {n + 1} = 1..(n + 1)
         /\ Cardinality(S \cup {n + 1}) = n + 1
<1>1. n + 1 \notin S /\ S \cup {n + 1} = 1..(n + 1)
  OBVIOUS
<1>2. n + 1 \in Nat /\ 1 \in Nat
  OBVIOUS
<1>3. Cardinality(1..(n + 1)) = n + 1
  BY <1>2, FS_Interval
<1>4. QED BY <1>1, <1>3

\* The first free number of each table.
LEMMA Fresh ==
  ASSUME IInv
  PROVE  /\ NextSession \notin Opened
         /\ Opened \cup {NextSession} = 1..Cardinality(Opened \cup {NextSession})
         /\ Cardinality(Opened) \in Nat /\ NextSession = Cardinality(Opened) + 1
         /\ NextToken \notin Tokens
         /\ Tokens \cup {NextToken} = 1..Cardinality(Tokens \cup {NextToken})
<1>1. Opened = 1..Cardinality(Opened) /\ Tokens = 1..Cardinality(Tokens)
  BY DEF IInv, Rows
<1>2. Cardinality(Opened) \in Nat
  BY IdsFinite DEF Opened
<1>3. Cardinality(Tokens) \in Nat
  <2>1. IsFiniteSet(TokenIds) /\ Tokens \in SUBSET TokenIds
    BY AuthBounds, FS_Interval DEF TokenIds, Tokens
  <2>2. QED BY <2>1, Fewer
<1>4. NextSession = Cardinality(Opened) + 1 /\ NextToken = Cardinality(Tokens) + 1
  BY DEF NextSession, NextToken, Tokens
<1>5. /\ NextSession \notin Opened
      /\ Opened \cup {NextSession} = 1..Cardinality(Opened \cup {NextSession})
  <2> DEFINE S == Opened
             n == Cardinality(Opened)
  <2>1. S = 1..n /\ n \in Nat /\ NextSession = n + 1
    BY <1>1, <1>2, <1>4
  <2> HIDE DEF S, n
  <2>2. /\ n + 1 \notin S /\ S \cup {n + 1} = 1..(n + 1)
        /\ Cardinality(S \cup {n + 1}) = n + 1
    BY <2>1, Numbered
  <2>3. QED BY <2>1, <2>2 DEF S
<1>6. /\ NextToken \notin Tokens
      /\ Tokens \cup {NextToken} = 1..Cardinality(Tokens \cup {NextToken})
  <2> DEFINE S == Tokens
             n == Cardinality(Tokens)
  <2>1. S = 1..n /\ n \in Nat /\ NextToken = n + 1
    BY <1>1, <1>3, <1>4
  <2> HIDE DEF S, n
  <2>2. /\ n + 1 \notin S /\ S \cup {n + 1} = 1..(n + 1)
        /\ Cardinality(S \cup {n + 1}) = n + 1
    BY <2>1, Numbered
  <2>3. QED BY <2>1, <2>2 DEF S
<1>7. QED BY <1>2, <1>4, <1>5, <1>6

LEMMA RotateStep ==
  ASSUME IInv, NEW c \in Clients, Rotate(c)
  PROVE  IInv'
<1>1. /\ TypeOK /\ Rows /\ req[c] \in Request /\ Sound(req[c]) /\ req[c].pc = "rotate"
      /\ req[c].op = "refresh" /\ ~req[c].stale
      /\ req[c].tok \in Tokens /\ req[c].sess = rtSess[req[c].tok] /\ req[c].sess \in Opened
  BY DEF IInv, TypeOK, Request, Rotate, At, Sound, Named, Refused
<1>2. UNCHANGED <<pwd, resets, issued, gone, sSt, sUser, sDev, struck, cut>>
  BY DEF Rotate, userVars, sessVars
<1>3. "granted" \in PCs /\ "done" \in PCs
  BY DEF PCs
<1>4. CASE Fault /\ Go(c, "done") /\ UNCHANGED tokenVars
  <2>1. PICK r \in Request : Moves(c, r) /\ req'[c] = r /\ Moved(req[c], r, "done")
    BY <1>3, <1>4, Goes
  <2>2. UNCHANGED <<userVars, sessVars, tokenVars>>
    BY <1>2, <1>4 DEF userVars, sessVars
  <2>3. Opened' = Opened /\ Tokens' = Tokens
    BY <1>4, <2>1, <2>2, OnlyRequest
  <2>4. Sound(req[c])'
    BY <1>1, <1>2, <1>4, <2>1, <2>3
       DEF Sound, Named, Refused, Revoking, Evicted, Evicting, Moved, tokenVars
  <2>5. QED BY <1>4, <2>1, <2>2, <2>4, QuietStep DEF Counts, Opening, Evicting, Moved
<1>5. CASE /\ NoFault /\ Go(c, "granted")
           /\ rtSt' = [rtSt EXCEPT ![req[c].tok] = "revoked", ![NextToken] = "active"]
           /\ rtSess' = [rtSess EXCEPT ![NextToken] = req[c].sess]
  <2>1. PICK r \in Request : Moves(c, r) /\ req'[c] = r /\ Moved(req[c], r, "granted")
    BY <1>3, <1>5, Goes
  <2> DEFINE n == NextToken
             t == req[c].tok
             s == req[c].sess
  <2>2. /\ n \in TokenIds /\ n \notin Tokens /\ t \in TokenIds /\ t # n
        /\ Tokens \cup {n} = 1..Cardinality(Tokens \cup {n})
        /\ s \in SessionIds /\ s \in Opened
    BY <1>1, Fresh DEF Rotate, Tokens, Opened
  <2>3. /\ rtSt \in [TokenIds -> {"none", "active", "revoked"}]
        /\ rtSess \in [TokenIds -> SessionIds \cup {0}]
    BY <1>1 DEF TypeOK
  <2> HIDE DEF n
  <2>4. /\ rtSt' = [rtSt EXCEPT ![t] = "revoked", ![n] = "active"]
        /\ rtSess' = [rtSess EXCEPT ![n] = s]
    BY <1>5 DEF n
  <2> HIDE DEF t, s
  <2>5. /\ rtSt' \in [TokenIds -> {"none", "active", "revoked"}] /\ rtSt'[n] = "active"
        /\ \A x \in TokenIds \ {n, t} : rtSt'[x] = rtSt[x]
        /\ rtSt'[t] = "revoked"
        /\ rtSess' \in [TokenIds -> SessionIds \cup {0}] /\ rtSess'[n] = s
        /\ \A x \in TokenIds \ {n} : rtSess'[x] = rtSess[x]
    BY <2>2, <2>3, <2>4
  <2>6. RowTypes'
    BY <1>1, <1>2, <1>5, <2>5 DEF TypeOK, RowTypes, NoFault
  <2>7. Opened' = Opened /\ Tokens' = Tokens \cup {n}
    <3>1. Opened' = Opened
      BY <1>2 DEF Opened
    <3>2. t \in Tokens
      BY <1>1 DEF t
    <3>3. QED BY <2>2, <2>5, <3>1, <3>2 DEF Tokens
  <2>8. Rows'
    <3>1. \A x \in Tokens' : rtSess'[x] \in Opened
      BY <1>1, <2>2, <2>5, <2>7 DEF Rows, Tokens
    <3>2. Tokens' = 1..Cardinality(Tokens')
      BY <2>2, <2>7
    <3>3. QED BY <1>1, <1>2, <2>7, <3>1, <3>2 DEF Rows
  <2>9. Grows
    <3>1. \A x \in Tokens : rtSess'[x] = rtSess[x]
      BY <2>2, <2>5 DEF Tokens
    <3>2. Cardinality(Opened) \in Nat
      BY Fresh
    <3>3. QED BY <1>2, <2>7, <3>1, <3>2 DEF Grows
  <2>10. OneActivePerDevice'
    BY <1>2 DEF IInv, OneActivePerDevice
  <2>11. NotStranded'
    <3> SUFFICES ASSUME NEW x \in SessionIds \ struck, sSt[x] = "active"
                 PROVE  \E y \in TokenIds : rtSess'[y] = x /\ rtSt'[y] = "active"
      BY <1>2 DEF NotStranded, TokensOf
    <3>1. PICK y \in TokenIds : rtSess[y] = x /\ rtSt[y] = "active"
      BY DEF IInv, NotStranded, TokensOf
    <3>2. CASE y = t
      <4>1. x = s
        BY <1>1, <3>1, <3>2 DEF s, t
      <4>2. QED BY <2>2, <2>5, <4>1
    <3>3. CASE y # t
      <4>1. y # n
        BY <2>2, <3>1 DEF Tokens
      <4>2. QED BY <2>5, <3>1, <3>3, <4>1
    <3>4. QED BY <3>2, <3>3
  <2>12. Sound(req[c])'
    <3>1. t \in Tokens' /\ rtSess'[t] = rtSess[t] /\ s = rtSess[t] /\ s \in Opened'
      BY <1>1, <2>2, <2>5, <2>7 DEF t, s
    <3>2. r.op = "refresh" /\ r.pc = "granted" /\ r.tok = t /\ r.sess = s /\ ~r.stale
          /\ r.before \subseteq Opened'
      BY <1>1, <2>1, <2>7 DEF Moved, t, s, Sound, Named
    <3>3. QED
      BY <2>1, <3>1, <3>2 DEF Sound, Named, Refused, Revoking, Evicted, Evicting
  <2>13. MaxDevices > 0 => Limit'
    <3> SUFFICES ASSUME MaxDevices > 0, NEW u \in Users
                 PROVE  \E k \in 0..Cardinality(Opened)' :
                          Room(Active(u)', req', faults' + cut', u, k)
      BY DEF Limit
    <3>1. Active(u)' \subseteq Active(u) /\ Opened \subseteq Opened'
      BY <1>2, <2>7 DEF Active
    <3>2. faults + cut <= faults' + cut'
      BY <1>1, <1>2, <1>5, AuthBounds DEF TypeOK, NoFault
    <3>3. QED
      BY <2>1, <2>6, <3>1, <3>2, UserRoom DEF Counts, Opening, Evicting, Moved
  <2>14. QED BY <2>1, <2>6, <2>8, <2>9, <2>10, <2>11, <2>12, <2>13, Assembled
<1>6. QED BY <1>4, <1>5 DEF Rotate

\* A login that counted opens a session newer than k, and counts no more.
Counted(p, q, c, u, k) ==
  \A x \in k..MaxSessions : Counts(q[c], u, x) /\ ~Counts(p[c], u, x)

LEMMA RoomOpened ==
  ASSUME NEW A, A \subseteq SessionIds, NEW s \in SessionIds, NEW B \in SUBSET (A \cup {s}),
         NEW q, NEW p, NEW c \in Clients, \A o \in Clients \ {c} : p[o] = q[o],
         NEW n \in Nat, NEW u, NEW k \in Nat, k < s, Room(A, q, n, u, k),
         Counted(p, q, c, u, k)
  PROVE  Room(B, p, n, u, k)
<1>1. s \in Nat /\ \A r \in A : r \in Nat
  BY IdsFinite DEF SessionIds
<1>2. Cardinality(Older(B, k)) + 1 <= MaxDevices
  <2>1. Older(B, k) \in SUBSET Older(A, k) /\ IsFiniteSet(Older(A, k))
    <3>1. ~(s <= k)
      BY <1>1
    <3>2. IsFiniteSet(Older(A, k))
      BY IdsFinite DEF Older
    <3>3. QED BY <3>1, <3>2 DEF Older
  <2>2. Cardinality(Older(A, k)) + 1 <= MaxDevices
    BY DEF Room
  <2>3. QED BY <2>1, <2>2, Fewer, AuthBounds
<1>3. ASSUME NEW x \in k..MaxSessions
      PROVE  Cardinality(Newer(B, x)) + Cardinality(Late(p, u, x)) <= Cardinality(Clients) + n
  <2> DEFINE L == Late(q, u, x)
             M == Late(p, u, x)
             N == Newer(A, x)
             O == Newer(B, x)
  <2>1. O \in SUBSET (N \cup {s}) /\ IsFiniteSet(N)
    BY IdsFinite DEF Newer
  <2>2. M \in SUBSET L /\ c \in L \ M /\ L \in SUBSET Clients
    BY DEF Late, Counted
  <2>3. IsFiniteSet(L) /\ Cardinality(L) \in Nat /\ Cardinality(Clients) \in Nat
    BY <2>2, AuthIdentities, FS_Subset, FS_CardinalityType
  <2>4. Cardinality(N) + Cardinality(L) <= Cardinality(Clients) + n
    BY DEF Room
  <2> HIDE DEF L, M, N, O
  <2>5. Cardinality(M) \in 0..(Cardinality(L) - 1)
    BY <2>2, <2>3, Smaller
  <2>6. /\ IsFiniteSet(N \cup {s}) /\ Cardinality(N) \in Nat
        /\ Cardinality(N \cup {s}) = IF s \in N THEN Cardinality(N) ELSE Cardinality(N) + 1
    BY <2>1, FS_AddElement, FS_CardinalityType
  <2>7. Cardinality(O) \in Nat /\ Cardinality(O) <= Cardinality(N) + 1
    BY <2>1, <2>6, Fewer
  <2>8. Cardinality(O) + Cardinality(M) <= Cardinality(Clients) + n
    BY <2>3, <2>4, <2>5, <2>6, <2>7
  <2>9. QED BY <2>8 DEF O, M
<1>4. QED BY <1>2, <1>3 DEF Room

\* The transaction of Insert is rolled back.
LEMMA RolledBackStep ==
  ASSUME IInv, NEW c \in Clients, At(c, "insert"), Fault \/ NoFault,
         req' = [req EXCEPT ![c].pc = "done", ![c].held = {},
                            ![c].clean = @ /\ faults' = faults],
         UNCHANGED <<userVars, sessVars, tokenVars>>
  PROVE  IInv'
<1> DEFINE ok == faults' = faults
           r == [req[c] EXCEPT !.pc = "done", !.held = {}, !.clean = @ /\ ok]
<1>1. /\ req \in [Clients -> Request] /\ req[c] \in Request /\ Sound(req[c])
      /\ req[c].op \in {"login", "register"} /\ req[c].pc = "insert"
  BY DEF IInv, TypeOK, Request, At, Sound, Named
<1>2. req' = [req EXCEPT ![c] = r]
  BY <1>1
<1> HIDE DEF ok
<1>3. /\ r \in Request /\ r.pc = "done" /\ r.op = req[c].op /\ r.user = req[c].user
      /\ r.sess = req[c].sess /\ r.before = req[c].before /\ r.stale = req[c].stale
  BY <1>1, ZenonT(60) DEF Request, PCs
<1> HIDE DEF r
<1>4. Moves(c, r) /\ req'[c] = r
  BY <1>2, <1>3, Setting DEF IInv, Moves
<1>5. Opened' = Opened /\ Tokens' = Tokens
  BY <1>4, OnlyRequest
<1>6. Sound(req[c])'
  BY <1>1, <1>3, <1>4, <1>5
     DEF Sound, Named, Refused, Revoking, Evicted, Evicting, userVars, sessVars, tokenVars
<1>7. QED BY <1>3, <1>4, <1>6, QuietStep DEF Counts, Opening, Evicting

LEMMA InsertStep ==
  ASSUME IInv, NEW c \in Clients, Insert(c)
  PROVE  IInv'
<1>1. /\ TypeOK /\ Rows /\ req \in [Clients -> Request] /\ req[c] \in Request
      /\ Sound(req[c]) /\ req[c].pc = "insert" /\ req[c].op \in {"login", "register"}
      /\ ~req[c].stale /\ req[c].before \subseteq Opened /\ req[c].held \subseteq Opened
      /\ req[c].user \in Users /\ (req[c].op = "login" => pwd[req[c].user] > 0)
      /\ req[c].dev \in Devices \cup {NoDevice}
  BY Types DEF IInv, Request, Insert, At, Sound, Named, Refused
<1>2. UNCHANGED <<resets, issued, gone, struck, cut>>
  BY DEF Insert
<1>3. CASE /\ (Conflict(c) /\ NoFault) \/ Fault
           /\ req' = [req EXCEPT ![c].pc = "done", ![c].held = {},
                                 ![c].clean = @ /\ faults' = faults]
           /\ UNCHANGED <<pwd, sSt, sUser, sDev, tokenVars>>
  BY <1>2, <1>3, RolledBackStep DEF Insert, userVars, sessVars
<1>4. CASE /\ ~Conflict(c) /\ NoFault
           /\ NextSession \in SessionIds /\ NextToken \in TokenIds
           /\ sSt' = [s \in SessionIds |-> IF s = NextSession THEN "active"
                                           ELSE IF s \in req[c].held THEN "revoked" ELSE sSt[s]]
           /\ sUser' = [sUser EXCEPT ![NextSession] = req[c].user]
           /\ sDev' = [sDev EXCEPT ![NextSession] = req[c].dev]
           /\ rtSt' = [rtSt EXCEPT ![NextToken] = "active"]
           /\ rtSess' = [rtSess EXCEPT ![NextToken] = NextSession]
           /\ pwd' = IF req[c].op = "register" THEN [pwd EXCEPT ![req[c].user] = 1] ELSE pwd
           /\ req' = [req EXCEPT ![c].pc = "granted", ![c].held = {}, ![c].sess = NextSession]
  <2> DEFINE n == NextSession
             t == NextToken
             H == req[c].held
             v == req[c].user
             d == req[c].dev
             r == [req[c] EXCEPT !.pc = "granted", !.held = {}, !.sess = NextSession]
  <2>1. /\ n \in SessionIds /\ n \notin Opened /\ t \in TokenIds /\ t \notin Tokens
        /\ Opened \cup {n} = 1..Cardinality(Opened \cup {n})
        /\ Tokens \cup {t} = 1..Cardinality(Tokens \cup {t})
        /\ Cardinality(Opened) \in Nat /\ n = Cardinality(Opened) + 1
    BY <1>4, Fresh
  <2>2. /\ r \in Request /\ r.pc = "granted" /\ r.op = req[c].op /\ r.user = v /\ r.sess = n
        /\ r.before = req[c].before /\ r.stale = req[c].stale
    BY <1>1, <2>1 DEF Request, PCs
  <2>3. req' = [req EXCEPT ![c] = r]
    BY <1>1, <1>4
  <2> HIDE DEF r
  <2>4. Moves(c, r) /\ req'[c] = r
    BY <2>2, <2>3, Setting DEF IInv, Moves
  <2>5. /\ sSt' = [s \in SessionIds |-> IF s = n THEN "active"
                                        ELSE IF s \in H THEN "revoked" ELSE sSt[s]]
        /\ sUser' = [sUser EXCEPT ![n] = v] /\ sDev' = [sDev EXCEPT ![n] = d]
        /\ rtSt' = [rtSt EXCEPT ![t] = "active"] /\ rtSess' = [rtSess EXCEPT ![t] = n]
        /\ pwd' = IF req[c].op = "register" THEN [pwd EXCEPT ![v] = 1] ELSE pwd
    BY <1>4
  <2>6. /\ sSt \in [SessionIds -> {"none", "active", "revoked"}]
        /\ sUser \in [SessionIds -> Users \cup {NoUser}] /\ v \in Users
        /\ sDev \in [SessionIds -> Devices \cup {NoDevice}] /\ d \in Devices \cup {NoDevice}
        /\ rtSt \in [TokenIds -> {"none", "active", "revoked"}]
        /\ rtSess \in [TokenIds -> SessionIds \cup {0}] /\ pwd \in [Users -> Nat]
        /\ H \subseteq Opened
    BY <1>1 DEF TypeOK
  <2>7. OnDevice(d) \ H = {}
    BY <1>4 DEF Conflict
  <2> HIDE DEF n, t, H, v, d
  <2>8. /\ sSt' \in [SessionIds -> {"none", "active", "revoked"}] /\ sSt'[n] = "active"
        /\ \A s \in SessionIds \ {n} : sSt'[s] = IF s \in H THEN "revoked" ELSE sSt[s]
        /\ sUser' \in [SessionIds -> Users \cup {NoUser}] /\ sUser'[n] = v
        /\ \A s \in SessionIds \ {n} : sUser'[s] = sUser[s]
        /\ sDev' \in [SessionIds -> Devices \cup {NoDevice}] /\ sDev'[n] = d
        /\ \A s \in SessionIds \ {n} : sDev'[s] = sDev[s]
    BY <2>1, <2>5, <2>6
  <2>9. /\ rtSt' \in [TokenIds -> {"none", "active", "revoked"}] /\ rtSt'[t] = "active"
        /\ \A x \in TokenIds \ {t} : rtSt'[x] = rtSt[x]
        /\ rtSess' \in [TokenIds -> SessionIds \cup {0}] /\ rtSess'[t] = n
        /\ \A x \in TokenIds \ {t} : rtSess'[x] = rtSess[x]
    BY <2>1, <2>5, <2>6
  <2>10. /\ pwd' \in [Users -> Nat] /\ pwd'[v] > 0
         /\ \A u \in Users : pwd[u] > 0 => pwd'[u] > 0
    <3>1. req[c].op = "login" => pwd[v] > 0
      BY <1>1 DEF v
    <3>2. QED BY <1>1, <2>5, <2>6, <3>1
  <2>11. RowTypes'
    BY <1>1, <1>2, <1>4, <2>8, <2>9, <2>10 DEF TypeOK, RowTypes, NoFault
  <2>12. Opened' = Opened \cup {n} /\ Tokens' = Tokens \cup {t}
    <3>1. Opened' = Opened \cup {n}
      BY <2>1, <2>6, <2>8 DEF Opened
    <3>2. Tokens' = Tokens \cup {t}
      BY <2>1, <2>9 DEF Tokens
    <3>3. QED BY <3>1, <3>2
  <2>13. Rows'
    <3>1. Opened' = 1..Cardinality(Opened') /\ Tokens' = 1..Cardinality(Tokens')
      BY <2>1, <2>12
    <3>2. \A x \in Tokens' : rtSess'[x] \in Opened'
      BY <1>1, <2>1, <2>9, <2>12 DEF Rows, Tokens
    <3>3. \A s \in Opened' : sUser'[s] \in Users /\ pwd'[sUser'[s]] > 0
      BY <1>1, <2>1, <2>6, <2>8, <2>10, <2>12 DEF Rows, Opened
    <3>4. \A u \in Users : resets'[u] > 0 => pwd'[u] > 0
      BY <1>1, <1>2, <2>10 DEF Rows
    <3>5. QED BY <3>1, <3>2, <3>3, <3>4 DEF Rows
  <2>14. Grows
    <3>1. Cardinality(Opened) <= Cardinality(Opened)'
      <4>1. Cardinality(Opened)' = Cardinality(Opened) + 1
        <5> DEFINE S == Opened
                   m == Cardinality(Opened)
        <5>1. S = 1..m /\ m \in Nat /\ n = m + 1
          BY <1>1, <2>1 DEF Rows
        <5> HIDE DEF S, m
        <5>2. Cardinality(S \cup {n}) = m + 1
          BY <5>1, Numbered
        <5>3. QED BY <2>12, <5>2 DEF S, m
      <4>2. QED BY <2>1, <4>1
    <3>2. \A s \in Opened : sUser'[s] = sUser[s] /\ (sSt[s] = "revoked" => sSt'[s] = "revoked")
      BY <2>1, <2>8 DEF Opened
    <3>3. \A x \in Tokens : rtSess'[x] = rtSess[x]
      BY <2>1, <2>9 DEF Tokens
    <3>4. QED BY <1>2, <2>10, <2>12, <3>1, <3>2, <3>3 DEF Grows
  <2>15. OneActivePerDevice'
    <3> SUFFICES ASSUME NEW x \in SessionIds, NEW y \in SessionIds, sSt'[x] = "active",
                        sSt'[y] = "active", sDev'[x] = sDev'[y], x # y
                 PROVE  FALSE
      BY DEF OneActivePerDevice
    <3>1. \A s \in SessionIds \ {n} : sSt'[s] = "active" => sSt[s] = "active" /\ s \notin H
      BY <2>8
    <3>2. \A s \in SessionIds \ {n} : sSt'[s] = "active" => sDev'[s] # d
      BY <2>7, <2>8, <3>1 DEF OnDevice
    <3>3. x # n /\ y # n
      BY <2>8, <3>2
    <3>4. sSt[x] = "active" /\ sSt[y] = "active" /\ sDev[x] = sDev[y]
      BY <2>8, <3>1, <3>3
    <3>5. QED BY <3>4 DEF IInv, OneActivePerDevice
  <2>16. NotStranded'
    <3> SUFFICES ASSUME NEW s \in SessionIds \ struck, sSt'[s] = "active"
                 PROVE  \E y \in TokenIds : rtSess'[y] = s /\ rtSt'[y] = "active"
      BY <1>2 DEF NotStranded, TokensOf
    <3>1. CASE s = n
      BY <2>1, <2>9, <3>1
    <3>2. CASE s # n
      <4>1. sSt[s] = "active"
        BY <2>8, <3>2
      <4>2. PICK y \in TokenIds : rtSess[y] = s /\ rtSt[y] = "active"
        BY <4>1 DEF IInv, NotStranded, TokensOf
      <4>3. y # t
        BY <2>1, <4>2 DEF Tokens
      <4>4. QED BY <2>9, <4>2, <4>3
    <3>3. QED BY <3>1, <3>2
  <2>17. Sound(req[c])'
    <3>1. r.pc = "granted" /\ r.op \in {"login", "register"} /\ r.user = v /\ ~r.stale
          /\ r.before \subseteq Opened'
      BY <1>1, <2>2, <2>12
    <3>2. QED
      BY <2>4, <2>6, <2>10, <3>1 DEF Sound, Named, Refused, Revoking, Evicted, Evicting
  <2>18. MaxDevices > 0 => Limit'
    <3> SUFFICES ASSUME MaxDevices > 0, NEW u \in Users
                 PROVE  \E k \in 0..Cardinality(Opened)' :
                          Room(Active(u)', req', faults' + cut', u, k)
      BY DEF Limit
    <3>1. /\ Opened \subseteq Opened' /\ faults + cut = faults' + cut'
          /\ faults \in Nat /\ cut \in Nat
      BY <1>1, <1>2, <1>4, <2>12, AuthBounds DEF TypeOK, NoFault
    <3>2. faults + cut \in Nat
      BY <3>1
    <3>3. CASE u # v
      <4>1. Active(u)' \subseteq Active(u)
        BY <2>8, <3>3 DEF Active
      <4>2. \A x \in 0..MaxSessions : ~Counts(r, u, x)
        BY <2>2, <3>3 DEF Counts
      <4>3. faults + cut <= faults' + cut'
        BY <3>1, <3>2
      <4>4. QED BY <2>4, <2>11, <3>1, <4>1, <4>2, <4>3, UserRoom
    <3>4. CASE u = v
      <4>1. PICK k \in 0..Cardinality(Opened) : Room(Active(u), req, faults + cut, u, k)
        BY DEF IInv, Limit
      <4>2. k \in Nat /\ k < n /\ k \in 0..Cardinality(Opened)'
        <5>1. Cardinality(Opened) <= Cardinality(Opened)'
          BY <2>14 DEF Grows
        <5>2. Cardinality(Opened)' \in Nat
          <6>1. Opened' \subseteq SessionIds
            BY DEF Opened
          <6>2. QED BY <6>1, IdsFinite
        <5>3. k \in Nat /\ k <= Cardinality(Opened)
          BY <2>1, <4>1
        <5>4. QED BY <2>1, <5>1, <5>2, <5>3
      <4>3. Active(u)' \subseteq Active(u) \cup {n} /\ Active(u) \subseteq SessionIds
        BY <2>8 DEF Active
      <4>4. Counted(req', req, c, u, k)
        BY <1>1, <2>2, <2>4, <3>4 DEF Counted, Counts, Opening, Evicting, v
      <4>5. \A o \in Clients \ {c} : req'[o] = req[o]
        BY <2>4 DEF Moves
      <4> DEFINE A == Active(u)
                 B == Active(u)'
                 m == faults + cut
      <4>6. /\ A \subseteq SessionIds /\ B \in SUBSET (A \cup {n}) /\ m \in Nat
            /\ Room(A, req, m, u, k)
        BY <3>2, <4>1, <4>3
      <4> HIDE DEF A, B, m
      <4>7. Room(B, req', m, u, k)
        BY <2>1, <4>2, <4>4, <4>5, <4>6, RoomOpened
      <4>8. QED BY <3>1, <4>2, <4>7 DEF B, m
    <3>5. QED BY <3>3, <3>4
  <2>19. QED BY <2>4, <2>11, <2>13, <2>14, <2>15, <2>16, <2>17, <2>18, Assembled
<1>5. QED BY <1>3, <1>4 DEF Insert

-----------------------------------------------------------------------------
(***************************************************************************)
(* The invariant                                                           *)
(***************************************************************************)
\* A step of no request: a reset token is issued, or nothing happens.
LEMMA NoRequestStep ==
  ASSUME IInv, TypeOK', UNCHANGED <<pwd, gone, sessVars, tokenVars, req, faults>>,
         \A u \in Users : resets'[u] > 0 => pwd[u] > 0
  PROVE  IInv'
<1>1. UNCHANGED <<sSt, sUser, sDev, struck, cut, rtSt, rtSess>>
  BY DEF sessVars, tokenVars
<1>2. Weakens
  BY <1>1 DEF Weakens
<1>3. Rows' /\ Grows /\ OneActivePerDevice' /\ NotStranded'
  BY <1>2, WeakensRows
<1>4. ASSUME NEW o \in Clients PROVE Sound(req[o])'
  BY <1>3, OthersSound DEF TypeOK
<1>5. MaxDevices > 0 => Limit'
  BY <1>1 DEF IInv, Limit, Active, Opened
<1>6. QED BY <1>3, <1>4, <1>5 DEF IInv

LEMMA RequestPasswordResetStep ==
  ASSUME IInv, NEW u \in Users, RequestPasswordReset(u)
  PROVE  IInv'
<1>1. /\ pwd[u] > 0 /\ issued < MaxResets
      /\ resets' = [resets EXCEPT ![u] = @ + 1] /\ issued' = issued + 1
      /\ UNCHANGED <<pwd, gone, sessVars, tokenVars, req, faults>>
  BY DEF RequestPasswordReset
<1>2. resets \in [Users -> Nat] /\ issued \in 0..MaxResets
  BY DEF IInv, TypeOK
<1>3. resets' \in [Users -> Nat] /\ \A v \in Users : v # u => resets'[v] = resets[v]
  BY <1>1, <1>2
<1>4. issued' \in 0..MaxResets
  BY <1>1, <1>2, AuthBounds
<1>5. TypeOK'
  BY <1>1, <1>3, <1>4 DEF IInv, TypeOK, sessVars, tokenVars
<1>6. \A v \in Users : resets'[v] > 0 => pwd[v] > 0
  BY <1>1, <1>3 DEF IInv, Rows
<1>7. QED BY <1>1, <1>5, <1>6, NoRequestStep

LEMMA NextInv ==
  ASSUME IInv, [Next]_vars
  PROVE  IInv'
<1>1. CASE UNCHANGED vars
  <2>1. TypeOK'
    BY <1>1 DEF IInv, TypeOK, vars, userVars, sessVars, tokenVars
  <2>2. QED BY <1>1, <2>1, NoRequestStep DEF IInv, Rows, vars, userVars
<1>2. ASSUME NEW u \in Users, RequestPasswordReset(u) PROVE IInv'
  BY <1>2, RequestPasswordResetStep
<1>3. ASSUME NEW c \in Clients,
             \/ \E u \in Users, d \in Devices \cup {NoDevice} : Register(c, u, d) \/ Login(c, u, d)
             \/ List(c) \/ RevokeSession(c) \/ RevokeItsTokens(c)
             \/ Sweep(c) \/ Lock(c) \/ Insert(c)
             \/ \E t \in TokenIds : Refresh(c, t)
             \/ ReadSession(c) \/ Rotate(c) \/ RevokeFamily(c) \/ KillSession(c)
             \/ \E s \in SessionIds : Present(c, s)
             \/ Authenticate(c) \/ Logout(c) \/ ChangePassword(c) \/ DeleteAccount(c)
             \/ \E d \in Devices \cup {NoDevice} : RemoveDevice(c, d)
             \/ \E u \in Users : ResetPassword(c, u)
             \/ WritePassword(c) \/ SnapshotAll(c) \/ RevokeAll(c)
             \/ Reply(c) \/ Crash(c)
      PROVE  IInv'
  BY <1>3, RegisterStep, LoginStep, ListStep, RevokeSessionStep, RevokeItsTokensStep,
     SweepStep, LockStep, InsertStep, RefreshStep, ReadSessionStep, RotateStep,
     RevokeFamilyStep, KillSessionStep, PresentStep, AuthenticateStep, LogoutStep,
     ChangePasswordStep, DeleteAccountStep, RemoveDeviceStep, ResetPasswordStep,
     WritePasswordStep, SnapshotAllStep, RevokeAllStep, EndStep
<1>4. QED BY <1>1, <1>2, <1>3 DEF Next

LEMMA InitInv == Init => IInv
<1> SUFFICES ASSUME Init PROVE IInv
  OBVIOUS
<1>1. Idle \in Request
  BY IdleType
<1>2. TypeOK
  <2>1. RowTypes
    BY AuthBounds DEF Init, RowTypes
  <2>2. req \in [Clients -> Request]
    BY <1>1 DEF Init
  <2>3. QED BY <2>1, <2>2, Types
<1>3. Opened = {} /\ Tokens = {} /\ Cardinality({}) = 0 /\ 1..0 = {}
  BY FS_EmptySet DEF Init, Opened, Tokens
<1>4. Rows
  BY <1>3 DEF Rows, Init
<1>5. \A c \in Clients : Sound(req[c])
  BY DEF Init, Idle, Sound, Named, Refused, Revoking, Evicted, Evicting
<1>6. OneActivePerDevice /\ NotStranded
  BY DEF Init, OneActivePerDevice, NotStranded
<1>7. ASSUME MaxDevices > 0 PROVE Limit
  <2> SUFFICES ASSUME NEW u \in Users PROVE Room(Active(u), req, faults + cut, u, 0)
    BY <1>3 DEF Limit
  <2>1. Active(u) = {} /\ faults + cut = 0
    BY DEF Init, Active
  <2>2. Room({}, req, 0, u, 0)
    <3>1. Cardinality({}) + 1 <= MaxDevices /\ {} \subseteq 1..0 /\ {} \subseteq SessionIds
      BY <1>3, <1>7, AuthBounds
    <3>2. QED BY <3>1, RoomListed
  <2>3. QED BY <2>1, <2>2
<1>8. QED BY <1>2, <1>4, <1>5, <1>6, <1>7 DEF IInv

LEMMA InvAlways == Spec => []IInv
<1>1. IInv /\ [Next]_vars => IInv'
  BY NextInv
<1>2. QED BY <1>1, InitInv, PTL DEF Spec

\* The device limit from the room each user has.
LEMMA LimitSlack ==
  ASSUME IInv
  PROVE  DeviceLimitSlack
<1> SUFFICES ASSUME MaxDevices > 0, NEW u \in Users
             PROVE  Cardinality(Active(u)) + 1
                      <= MaxDevices + Cardinality(Clients) + faults + cut
  BY DEF DeviceLimitSlack
<1>1. PICK k \in 0..Cardinality(Opened) : Room(Active(u), req, faults + cut, u, k)
  BY DEF IInv, Limit
<1>2. /\ Cardinality(Opened) \in Nat /\ faults \in Nat /\ cut \in Nat
      /\ Cardinality(Clients) \in Nat
  BY IdsFinite, AuthBounds, AuthIdentities, FS_CardinalityType DEF IInv, TypeOK, Opened
<1>3. k \in k..MaxSessions
  <2>1. Cardinality(Opened) <= MaxSessions
    <3>1. Opened \in SUBSET SessionIds /\ IsFiniteSet(SessionIds)
      BY IdsFinite DEF Opened
    <3>2. Cardinality(SessionIds) = MaxSessions
      BY AuthBounds, FS_Interval DEF SessionIds
    <3>3. QED BY <3>1, <3>2, Fewer
  <2>2. QED BY <1>2, <2>1, AuthBounds
<1> DEFINE A == Active(u)
           N == Newer(A, k)
           O == Older(A, k)
           L == Late(req, u, k)
<1>4. /\ Cardinality(O) + 1 <= MaxDevices
      /\ Cardinality(N) + Cardinality(L) <= Cardinality(Clients) + (faults + cut)
  BY <1>1, <1>3 DEF Room
<1>5. A = O \cup N
  <2>1. \A s \in A : s \in Nat
    BY DEF Active, SessionIds
  <2>2. k \in Nat
    BY <1>2
  <2> HIDE DEF A
  <2>3. \A s \in A : s <= k \/ s > k
    BY <2>1, <2>2
  <2>4. QED BY <2>3 DEF Newer, Older
<1>6. IsFiniteSet(O) /\ IsFiniteSet(N) /\ IsFiniteSet(L)
  <2>1. O \subseteq SessionIds /\ N \subseteq SessionIds /\ L \in SUBSET Clients
    BY DEF Active, Newer, Older, Late
  <2>2. QED BY <2>1, IdsFinite, AuthIdentities, FS_Subset
<1> HIDE DEF A, N, O, L
<1>7. Cardinality(A) <= Cardinality(O) + Cardinality(N)
  <2>1. Cardinality(O \cup N) = Cardinality(O) + Cardinality(N) - Cardinality(O \cap N)
    BY <1>6, FS_Union
  <2>2. O \cap N \in SUBSET O
    OBVIOUS
  <2>3. /\ Cardinality(O \cap N) \in Nat /\ Cardinality(O) \in Nat
        /\ Cardinality(N) \in Nat
    BY <1>6, <2>2, Fewer, FS_CardinalityType
  <2>4. QED BY <1>5, <2>1, <2>3
<1>8. /\ Cardinality(O) \in Nat /\ Cardinality(N) \in Nat /\ Cardinality(L) \in Nat
      /\ Cardinality(A) \in Nat
  BY <1>5, <1>6, FS_CardinalityType, FS_Union
<1>9. Cardinality(A) + 1 <= MaxDevices + Cardinality(Clients) + faults + cut
  BY <1>2, <1>4, <1>7, <1>8, AuthBounds
<1>10. QED BY <1>9 DEF A

-----------------------------------------------------------------------------
(***************************************************************************)
(* Theorems                                                                *)
(***************************************************************************)
\* Every variable keeps its type, whatever the requests do and however often
\* a step fails.
THEOREM TypeCorrect == Spec => []TypeOK
<1>1. IInv => TypeOK
  BY DEF IInv
<1>2. QED BY <1>1, InvAlways, PTL

\* The locks of RevokeActiveByDeviceID and the partial unique index together
\* keep one active session per device, for every number of racing logins.
THEOREM DevicesUnshared == Spec => []OneActivePerDevice
<1>1. IInv => OneActivePerDevice
  BY DEF IInv
<1>2. QED BY <1>1, InvAlways, PTL

\* Authenticate and RefreshTokens refuse every request that began after its
\* session was revoked or its user deleted.
THEOREM RevocationIsImmediate == Spec => []RevokedGrantsNothing
<1>1. IInv => RevokedGrantsNothing
  BY DEF IInv, Sound, Refused, RevokedGrantsNothing, At
<1>2. QED BY <1>1, InvAlways, PTL

\* ChangePassword, ResetPassword and DeleteAccount miss no session their user
\* had when they were admitted, whatever runs beside them.
THEOREM RevokersMissNothing == Spec => []RevokersFinish
<1>1. IInv => RevokersFinish
  BY DEF IInv, Sound, Revoking, Remaining, RevokersFinish, At
<1>2. QED BY <1>1, InvAlways, PTL

\* The rotation in one transaction leaves every active session an active
\* refresh token, across crashes and failures.
THEOREM SessionsKeepTokens == Spec => []NotStranded
<1>1. IInv => NotStranded
  BY DEF IInv
<1>2. QED BY <1>1, InvAlways, PTL

\* evictOldestIfOverLimit without a lock: the device cap is exceeded by no
\* more than the logins in flight, the failures and the evictions cut short.
THEOREM DeviceLimitHolds == Spec => []DeviceLimitSlack
<1>1. IInv => DeviceLimitSlack
  BY LimitSlack
<1>2. QED BY <1>1, InvAlways, PTL

=============================================================================
