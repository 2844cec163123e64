--------------------------- MODULE LoginGuardProofs ---------------------------
(***************************************************************************)
(* Proofs about LoginGuard for every set of addresses and accounts, every  *)
(* finite number of concurrent logins, and every limit.                    *)
(*                                                                         *)
(* The guesses verified for an address are counted, still to be counted,   *)
(* or lost by a failure; a login that has passed the check may add one.    *)
(***************************************************************************)
EXTENDS LoginGuard, FiniteSetTheorems, TLAPS

\* The logins about m that have reached pc.
Logins(pc, m) == {c \in Clients : At(c, pc) /\ req[c].mail = m}

\* Every verified guess is in the counter, on its way to it, or lost.
Accounted ==
  \A m \in Emails :
    guesses[m] <= cnt[m] + Cardinality(Logins("count", m)) + faults

\* GuessesBounded, with the logins that have passed the check and have still
\* to try their password.
Admission ==
  \A m \in Emails :
    guesses[m] + Cardinality(Logins("find", m)) + 1
      <= MaxAttempts + Cardinality(Clients) + faults

IInv == TypeOK /\ LockedForCause /\ Accounted /\ Admission

-----------------------------------------------------------------------------
(***************************************************************************)
(* Counting logins                                                         *)
(***************************************************************************)
\* Sets of logins are finite.
LEMMA LoginsFinite ==
  ASSUME NEW m, NEW pc
  PROVE  /\ IsFiniteSet(Logins(pc, m))
         /\ Cardinality(Logins(pc, m)) \in Nat
         /\ Cardinality(Clients) \in Nat
<1>1. Logins(pc, m) \subseteq Clients /\ IsFiniteSet(Clients)
  BY GuardNames DEF Logins
<1>2. QED BY <1>1, FS_Subset, FS_CardinalityType

\* Two disjoint subsets of a finite set fit into it.
LEMMA TwoParts ==
  ASSUME NEW S, NEW A, NEW B, IsFiniteSet(S), A \cup B \subseteq S, A \cap B = {}
  PROVE  /\ Cardinality(A) \in Nat /\ Cardinality(B) \in Nat
         /\ Cardinality(A) + Cardinality(B) <= Cardinality(S)
<1>1. IsFiniteSet(A) /\ IsFiniteSet(B) /\ IsFiniteSet(A \cup B)
  BY FS_Subset
<1>2. /\ Cardinality(A) \in Nat /\ Cardinality(B) \in Nat
      /\ Cardinality(A \cap B) = 0
  BY <1>1, FS_CardinalityType, FS_EmptySet
<1>3. Cardinality(A \cup B) = Cardinality(A) + Cardinality(B) - Cardinality(A \cap B)
  BY <1>1, FS_Union
<1>4. Cardinality(A \cup B) <= Cardinality(S)
  BY FS_Subset
<1>5. QED BY <1>2, <1>3, <1>4

\* A login that has still to try its password has none to count.
LEMMA FindOrCount ==
  ASSUME NEW m
  PROVE  Cardinality(Logins("find", m)) + Cardinality(Logins("count", m))
           <= Cardinality(Clients)
<1>1. /\ Logins("find", m) \cup Logins("count", m) \subseteq Clients
      /\ Logins("find", m) \cap Logins("count", m) = {}
  BY DEF Logins, At
<1>2. QED BY <1>1, TwoParts, GuardNames

\* A set that changes by at most one element.
LEMMA OneElement ==
  ASSUME NEW S, NEW T, NEW c, IsFiniteSet(S), S \ {c} = T \ {c}
  PROVE  /\ IsFiniteSet(T)
         /\ Cardinality(S) \in Nat /\ Cardinality(T) \in Nat
         /\ Cardinality(T) =
              Cardinality(S) + (IF c \in T THEN 1 ELSE 0) - (IF c \in S THEN 1 ELSE 0)
<1> DEFINE R == S \ {c}
<1>1. IsFiniteSet(R) /\ Cardinality(R) = IF c \in S THEN Cardinality(S) - 1 ELSE Cardinality(S)
  BY FS_RemoveElement
<1>2. Cardinality(R) \in Nat /\ Cardinality(S) \in Nat
  BY <1>1, FS_CardinalityType
<1>3. c \in T => T = R \cup {c}
  OBVIOUS
<1>4. c \notin T => T = R
  OBVIOUS
<1>5. /\ IsFiniteSet(R \cup {c})
      /\ Cardinality(R \cup {c}) = Cardinality(R) + 1
  BY <1>1, FS_AddElement
<1> HIDE DEF R
<1>6. /\ IsFiniteSet(T)
      /\ Cardinality(T) = Cardinality(R) + (IF c \in T THEN 1 ELSE 0)
  <2>1. CASE c \in T
    BY <1>2, <1>3, <1>5, <2>1
  <2>2. CASE c \notin T
    BY <1>1, <1>2, <1>4, <2>2
  <2>3. QED BY <2>1, <2>2
<1>7. Cardinality(S) = Cardinality(R) + (IF c \in S THEN 1 ELSE 0)
  BY <1>1, <1>2
<1>8. QED BY <1>2, <1>6, <1>7

-----------------------------------------------------------------------------
(***************************************************************************)
(* The steps                                                               *)
(***************************************************************************)
\* The initial state: no guess, no counter, no login.
LEMMA InitInv == Init => IInv
<1> SUFFICES ASSUME Init PROVE IInv
  OBVIOUS
<1>1. TypeOK
  BY GuardBounds, GuardNames DEF Init, TypeOK, Idle, PCs
<1>2. \A m : Logins("find", m) = {} /\ Logins("count", m) = {}
  BY DEF Init, Logins, At, Idle
<1>3. Cardinality({}) = 0 /\ \A m : Uncounted(m) = Cardinality(Logins("count", m))
  BY FS_EmptySet DEF Uncounted, Logins
<1>4. Cardinality(Clients) \in Nat
  BY LoginsFinite
<1>5. QED
  BY <1>1, <1>2, <1>3, <1>4, GuardBounds
     DEF Init, IInv, LockedForCause, Accounted, Admission

\* What IInv says of one address, in numbers.
LEMMA Balance ==
  ASSUME IInv, NEW m \in Emails
  PROVE  /\ cnt[m] \in Nat /\ guesses[m] \in Nat /\ faults \in 0..MaxFaults
         /\ MaxAttempts \in Nat \ {0} /\ MaxFaults \in Nat
         /\ Cardinality(Clients) \in Nat
         /\ Cardinality(Logins("count", m)) \in Nat
         /\ Cardinality(Logins("find", m)) \in Nat
         /\ Uncounted(m) = Cardinality(Logins("count", m))
         /\ cnt[m] + Cardinality(Logins("count", m)) <= guesses[m]
         /\ guesses[m] <= cnt[m] + Cardinality(Logins("count", m)) + faults
         /\ guesses[m] + Cardinality(Logins("find", m)) + 1
              <= MaxAttempts + Cardinality(Clients) + faults
         /\ Cardinality(Logins("find", m)) + Cardinality(Logins("count", m))
              <= Cardinality(Clients)
<1>1. Uncounted(m) = Cardinality(Logins("count", m))
  BY DEF Uncounted, Logins
<1>2. QED
  BY <1>1, LoginsFinite, FindOrCount, GuardBounds
     DEF IInv, TypeOK, LockedForCause, Accounted, Admission

\* IInv from its numbers.
LEMMA Balanced ==
  ASSUME TypeOK',
         \A m \in Emails :
           /\ (cnt[m] + Cardinality(Logins("count", m)) <= guesses[m])'
           /\ (guesses[m] <= cnt[m] + Cardinality(Logins("count", m)) + faults)'
           /\ (guesses[m] + Cardinality(Logins("find", m)) + 1
                 <= MaxAttempts + Cardinality(Clients) + faults)'
  PROVE  IInv'
<1>1. \A m : (Uncounted(m) = Cardinality(Logins("count", m)))'
  BY DEF Uncounted, Logins
<1>2. QED
  BY <1>1 DEF IInv, LockedForCause, Accounted, Admission

\* Every step keeps the types.
LEMMA NextType ==
  ASSUME TypeOK, [Next]_vars
  PROVE  TypeOK'
<1>0. /\ cnt \in [Emails -> Nat] /\ ttl \in [Emails -> BOOLEAN]
      /\ \A m \in Emails : ttl[m] => cnt[m] > 0
      /\ active \subseteq Known
      /\ req \in [Clients -> [pc : PCs, mail : Emails]]
      /\ guesses \in [Emails -> Nat]
      /\ faults \in 0..MaxFaults /\ MaxFaults \in Nat
      /\ Idle \in [pc : PCs, mail : Emails]
  BY GuardBounds, GuardNames DEF TypeOK, Idle, PCs
<1>1. Fault \/ NoFault => faults' \in 0..MaxFaults
  BY <1>0 DEF Fault, NoFault
<1>2. ASSUME NEW c \in Clients, NEW pc \in PCs, Go(c, pc) \/ End(c)
      PROVE  req' \in [Clients -> [pc : PCs, mail : Emails]]
  <2>1. CASE Go(c, pc)
    BY <1>0, <2>1 DEF Go
  <2>2. CASE End(c)
    BY <1>0, <2>2 DEF End
  <2>3. QED BY <1>2, <2>1, <2>2
<1>3. ASSUME NEW m \in Emails, Clear(m)
      PROVE  /\ cnt' \in [Emails -> Nat] /\ ttl' \in [Emails -> BOOLEAN]
             /\ \A n \in Emails : ttl'[n] => cnt'[n] > 0
             /\ guesses' \in [Emails -> Nat]
  <2>1. Uncounted(m) \in Nat
    BY LoginsFinite DEF Uncounted, Logins
  <2>2. QED BY <1>0, <1>3, <2>1 DEF Clear
<1>4. ASSUME NEW m \in Emails, Increment(m)
      PROVE  /\ cnt' \in [Emails -> Nat] /\ ttl' \in [Emails -> BOOLEAN]
             /\ \A n \in Emails : ttl'[n] => cnt'[n] > 0
             /\ faults' \in 0..MaxFaults
  <2>1. cnt' = [cnt EXCEPT ![m] = @ + 1] \/ (cnt' = cnt /\ ttl' = ttl)
    BY <1>4 DEF Increment
  <2>2. \/ ttl' = ttl
        \/ cnt' = [cnt EXCEPT ![m] = @ + 1] /\ ttl' = [ttl EXCEPT ![m] = TRUE]
    BY <1>4 DEF Increment, StartWindow
  <2>3. faults' \in 0..MaxFaults
    BY <1>1, <1>4 DEF Increment
  <2>4. cnt' \in [Emails -> Nat]
    BY <1>0, <2>1
  <2>4a. ttl' \in [Emails -> BOOLEAN]
    BY <1>0, <2>2
  <2>5. \A n \in Emails : ttl'[n] => cnt'[n] > 0
    BY <1>0, <2>1, <2>2
  <2>6. QED BY <2>3, <2>4, <2>4a, <2>5
<1>5. ASSUME NEW c \in Clients, NEW m \in Emails, Login(c, m) PROVE TypeOK'
  BY <1>0, <1>5 DEF Login, TypeOK, PCs
<1>6. ASSUME NEW c \in Clients, Check(c) PROVE TypeOK'
  BY <1>0, <1>1, <1>2, <1>6 DEF Check, TypeOK, PCs
<1>7. ASSUME NEW c \in Clients, WrongPassword(c) \/ LookupFails(c) PROVE TypeOK'
  BY <1>0, <1>1, <1>2, <1>7, SMTT(30) DEF WrongPassword, LookupFails, TypeOK, PCs
<1>8. ASSUME NEW c \in Clients, RightPassword(c) PROVE TypeOK'
  BY <1>0, <1>1, <1>2, <1>8 DEF RightPassword, TypeOK, PCs
<1>9. ASSUME NEW c \in Clients, RecordFailure(c) PROVE TypeOK'
  BY <1>0, <1>2, <1>4, <1>9 DEF RecordFailure, TypeOK, PCs
<1>10. ASSUME NEW c \in Clients, Reset(c) PROVE TypeOK'
  BY <1>0, <1>1, <1>2, <1>3, <1>10 DEF Reset, TypeOK, PCs
<1>11. ASSUME NEW c \in Clients, Crash(c) PROVE TypeOK'
  BY <1>0, <1>1, <1>2, <1>11 DEF Crash, TypeOK, PCs
<1>12. ASSUME NEW m \in Emails, Expire(m) PROVE TypeOK'
  BY <1>0, <1>3, <1>12 DEF Expire, TypeOK
<1>13. ASSUME NEW m \in Emails, SetStatus(m) PROVE TypeOK'
  BY <1>0, <1>13 DEF SetStatus, TypeOK
<1>14. CASE UNCHANGED vars
  BY <1>14 DEF vars, TypeOK
<1>15. QED
  BY <1>5, <1>6, <1>7, <1>8, <1>9, <1>10, <1>11, <1>12, <1>13, <1>14
     DEF Next, Step

\* Every step keeps the guesses accounted for and admitted.
LEMMA NextInv ==
  ASSUME IInv, [Next]_vars
  PROVE  IInv'
<1> DEFINE F(m) == Cardinality(Logins("find", m))
           C(m) == Cardinality(Logins("count", m))
<1>0. TypeOK /\ TypeOK' /\ req \in [Clients -> [pc : PCs, mail : Emails]]
  BY NextType DEF IInv, TypeOK
<1>1. ASSUME NEW c \in Clients, NEW r, req' = [req EXCEPT ![c] = r], NEW m \in Emails
      PROVE  /\ F(m)' = F(m) + (IF r.pc = "find" /\ r.mail = m THEN 1 ELSE 0)
                             - (IF At(c, "find") /\ req[c].mail = m THEN 1 ELSE 0)
             /\ C(m)' = C(m) + (IF r.pc = "count" /\ r.mail = m THEN 1 ELSE 0)
                             - (IF At(c, "count") /\ req[c].mail = m THEN 1 ELSE 0)
  <2>1. Cardinality(Logins("find", m)') = Cardinality(Logins("find", m))
             + (IF r.pc = "find" /\ r.mail = m THEN 1 ELSE 0)
             - (IF At(c, "find") /\ req[c].mail = m THEN 1 ELSE 0)
    <3> DEFINE S == Logins("find", m)
               T == Logins("find", m)'
    <3>1. IsFiniteSet(S) /\ S \ {c} = T \ {c}
      BY <1>0, <1>1, LoginsFinite DEF Logins, At
    <3>2. /\ c \in S <=> At(c, "find") /\ req[c].mail = m
          /\ c \in T <=> r.pc = "find" /\ r.mail = m
      BY <1>0, <1>1 DEF Logins, At
    <3> HIDE DEF S, T
    <3>3. Cardinality(T) =
            Cardinality(S) + (IF c \in T THEN 1 ELSE 0) - (IF c \in S THEN 1 ELSE 0)
      BY <3>1, OneElement
    <3>4. QED BY <3>2, <3>3 DEF S, T
  <2>2. Cardinality(Logins("count", m)') = Cardinality(Logins("count", m))
             + (IF r.pc = "count" /\ r.mail = m THEN 1 ELSE 0)
             - (IF At(c, "count") /\ req[c].mail = m THEN 1 ELSE 0)
    <3> DEFINE S == Logins("count", m)
               T == Logins("count", m)'
    <3>1. IsFiniteSet(S) /\ S \ {c} = T \ {c}
      BY <1>0, <1>1, LoginsFinite DEF Logins, At
    <3>2. /\ c \in S <=> At(c, "count") /\ req[c].mail = m
          /\ c \in T <=> r.pc = "count" /\ r.mail = m
      BY <1>0, <1>1 DEF Logins, At
    <3> HIDE DEF S, T
    <3>3. Cardinality(T) =
            Cardinality(S) + (IF c \in T THEN 1 ELSE 0) - (IF c \in S THEN 1 ELSE 0)
      BY <3>1, OneElement
    <3>4. QED BY <3>2, <3>3 DEF S, T
  <2>3. QED BY <2>1, <2>2
<1>2. ASSUME NEW c \in Clients, NEW pc, Go(c, pc), NEW m \in Emails
      PROVE  /\ F(m)' = F(m) + (IF pc = "find" /\ req[c].mail = m THEN 1 ELSE 0)
                             - (IF At(c, "find") /\ req[c].mail = m THEN 1 ELSE 0)
             /\ C(m)' = C(m) + (IF pc = "count" /\ req[c].mail = m THEN 1 ELSE 0)
                             - (IF At(c, "count") /\ req[c].mail = m THEN 1 ELSE 0)
  <2> DEFINE r == [req[c] EXCEPT !.pc = pc]
  <2>1. req' = [req EXCEPT ![c] = r] /\ r.pc = pc /\ r.mail = req[c].mail
    BY <1>0, <1>2 DEF Go
  <2> HIDE DEF r
  <2>2. /\ F(m)' = F(m) + (IF r.pc = "find" /\ r.mail = m THEN 1 ELSE 0)
                       - (IF At(c, "find") /\ req[c].mail = m THEN 1 ELSE 0)
        /\ C(m)' = C(m) + (IF r.pc = "count" /\ r.mail = m THEN 1 ELSE 0)
                       - (IF At(c, "count") /\ req[c].mail = m THEN 1 ELSE 0)
    BY <1>1, <2>1
  <2> HIDE DEF F, C
  <2>3. QED BY <2>1, <2>2
<1>3. ASSUME NEW c \in Clients, End(c), NEW m \in Emails
      PROVE  /\ F(m)' = F(m) - (IF At(c, "find") /\ req[c].mail = m THEN 1 ELSE 0)
             /\ C(m)' = C(m) - (IF At(c, "count") /\ req[c].mail = m THEN 1 ELSE 0)
  <2> DEFINE r == Idle
  <2>1. req' = [req EXCEPT ![c] = r] /\ r.pc # "find" /\ r.pc # "count"
    BY <1>3 DEF End, Idle
  <2> HIDE DEF r
  <2>2. F(m) \in Nat /\ C(m) \in Nat
    BY LoginsFinite
  <2>3. /\ F(m)' = F(m) + (IF r.pc = "find" /\ r.mail = m THEN 1 ELSE 0)
                       - (IF At(c, "find") /\ req[c].mail = m THEN 1 ELSE 0)
        /\ C(m)' = C(m) + (IF r.pc = "count" /\ r.mail = m THEN 1 ELSE 0)
                       - (IF At(c, "count") /\ req[c].mail = m THEN 1 ELSE 0)
    BY <1>1, <2>1
  <2> HIDE DEF F, C
  <2>4. QED BY <2>1, <2>2, <2>3
<1>4. \A m \in Emails :
        /\ cnt[m] \in Nat /\ guesses[m] \in Nat /\ faults \in Nat
        /\ MaxAttempts \in Nat \ {0} /\ Cardinality(Clients) \in Nat
        /\ C(m) \in Nat /\ F(m) \in Nat /\ Uncounted(m) = C(m)
        /\ cnt[m] + C(m) <= guesses[m]
        /\ guesses[m] <= cnt[m] + C(m) + faults
        /\ guesses[m] + F(m) + 1 <= MaxAttempts + Cardinality(Clients) + faults
        /\ F(m) + C(m) <= Cardinality(Clients)
  BY Balance
<1>5. \A m \in Emails :
        /\ F(m)' \in Nat /\ C(m)' \in Nat
        /\ F(m)' + C(m)' <= Cardinality(Clients)
  <2> SUFFICES ASSUME NEW m \in Emails
               PROVE  /\ F(m)' \in Nat /\ C(m)' \in Nat
                      /\ F(m)' + C(m)' <= Cardinality(Clients)
    OBVIOUS
  <2>1. /\ Logins("find", m)' \cup Logins("count", m)' \subseteq Clients
        /\ Logins("find", m)' \cap Logins("count", m)' = {}
    BY DEF Logins, At
  <2>2. QED BY <2>1, TwoParts, GuardNames
<1>6. /\ cnt \in [Emails -> Nat] /\ guesses \in [Emails -> Nat]
      /\ cnt' \in [Emails -> Nat] /\ guesses' \in [Emails -> Nat]
      /\ faults \in Nat /\ faults' \in Nat
      /\ \A c \in Clients : req[c].mail \in Emails
  BY <1>0, GuardBounds DEF TypeOK
<1>7. ASSUME \A m \in Emails :
               /\ cnt'[m] + C(m)' <= guesses'[m]
               /\ guesses'[m] <= cnt'[m] + C(m)' + faults'
               /\ guesses'[m] + F(m)' + 1 <= MaxAttempts + Cardinality(Clients) + faults'
      PROVE  IInv'
  BY <1>0, <1>7, Balanced
\* The window closes, or a login has reset it.
<1>8. ASSUME NEW m \in Emails, Clear(m), \A n \in Emails : F(n)' <= F(n) /\ C(n)' = C(n),
             NoFault
      PROVE  IInv'
  <2>1. \A n \in Emails \ {m} : cnt'[n] = cnt[n] /\ guesses'[n] = guesses[n]
    BY <1>6, <1>8 DEF Clear
  <2>2. cnt'[m] = 0 /\ guesses'[m] = C(m)
    BY <1>4, <1>6, <1>8 DEF Clear
  <2> HIDE DEF F, C
  <2>3. QED BY <1>4, <1>5, <1>6, <1>7, <1>8, <2>1, <2>2 DEF NoFault
<1> HIDE DEF F, C
<1>9. ASSUME NEW c \in Clients, NEW m \in Emails, Login(c, m) PROVE IInv'
  <2> DEFINE r == [pc |-> "check", mail |-> m]
  <2>1. /\ req' = [req EXCEPT ![c] = r] /\ r.pc # "find" /\ r.pc # "count"
        /\ ~At(c, "find") /\ ~At(c, "count")
        /\ UNCHANGED <<cnt, guesses, faults>>
    BY <1>9 DEF Login, At
  <2> HIDE DEF r
  <2>2. ASSUME NEW n \in Emails PROVE F(n)' = F(n) /\ C(n)' = C(n)
    <3>1. /\ F(n)' = F(n) + (IF r.pc = "find" /\ r.mail = n THEN 1 ELSE 0)
                         - (IF At(c, "find") /\ req[c].mail = n THEN 1 ELSE 0)
          /\ C(n)' = C(n) + (IF r.pc = "count" /\ r.mail = n THEN 1 ELSE 0)
                         - (IF At(c, "count") /\ req[c].mail = n THEN 1 ELSE 0)
      BY <1>1, <2>1 DEF F, C
    <3>2. QED BY <1>4, <2>1, <3>1
  <2>3. QED BY <1>4, <1>7, <2>1, <2>2
<1>10. ASSUME NEW c \in Clients, Check(c) PROVE IInv'
  <2>1. /\ ~At(c, "find") /\ ~At(c, "count") /\ UNCHANGED <<cnt, guesses>>
    BY <1>10 DEF Check, At
  <2>2. CASE NoFault /\ End(c)
    <3>1. \A n \in Emails : F(n)' = F(n) /\ C(n)' = C(n)
      BY <1>3, <1>4, <2>1, <2>2
    <3>2. QED BY <1>4, <1>7, <2>1, <2>2, <3>1 DEF NoFault
  <2>3. CASE Go(c, "find") /\ (Fault \/ (~OverLimit(req[c].mail) /\ NoFault))
    <3>1. \A n \in Emails :
            /\ F(n)' = F(n) + (IF req[c].mail = n THEN 1 ELSE 0)
            /\ C(n)' = C(n)
      BY <1>2, <1>4, <2>1, <2>3
    <3>2. CASE ~OverLimit(req[c].mail) /\ NoFault
      <4>1. cnt[req[c].mail] + 1 <= MaxAttempts
        BY <1>4, <1>6, <3>2 DEF OverLimit
      <4>2. QED BY <1>4, <1>5, <1>6, <1>7, <2>1, <3>1, <3>2, <4>1 DEF NoFault
    <3>3. CASE Fault
      BY <1>4, <1>6, <1>7, <2>1, <3>1, <3>3 DEF Fault
    <3>4. QED BY <2>3, <3>2, <3>3
  <2>4. QED BY <1>10, <2>2, <2>3 DEF Check
<1>11. ASSUME NEW c \in Clients, WrongPassword(c) \/ LookupFails(c) PROVE IInv'
  <2>1. /\ At(c, "find") /\ ~At(c, "count") /\ Go(c, "count") /\ UNCHANGED cnt
        /\ guesses' = [guesses EXCEPT ![req[c].mail] = @ + 1]
        /\ faults' \in {faults, faults + 1}
    BY <1>11 DEF WrongPassword, LookupFails, At, Fault, NoFault
  <2>2. \A n \in Emails :
          /\ F(n)' = F(n) - (IF req[c].mail = n THEN 1 ELSE 0)
          /\ C(n)' = C(n) + (IF req[c].mail = n THEN 1 ELSE 0)
    BY <1>2, <1>4, <2>1
  <2>3. \A n \in Emails : guesses'[n] = guesses[n] + (IF req[c].mail = n THEN 1 ELSE 0)
    BY <1>4, <1>6, <2>1
  <2>4. QED BY <1>4, <1>6, <1>7, <2>1, <2>2, <2>3
<1>12. ASSUME NEW c \in Clients, RightPassword(c) PROVE IInv'
  <2>1. /\ At(c, "find") /\ ~At(c, "count") /\ UNCHANGED <<cnt, guesses, faults>>
        /\ Go(c, "reset") \/ End(c)
    BY <1>12 DEF RightPassword, At, NoFault
  <2>2. \A n \in Emails :
          /\ F(n)' = F(n) - (IF req[c].mail = n THEN 1 ELSE 0)
          /\ C(n)' = C(n)
    BY <1>2, <1>3, <1>4, <2>1
  <2>3. QED BY <1>4, <1>6, <1>7, <2>1, <2>2
<1>13. ASSUME NEW c \in Clients, RecordFailure(c) PROVE IInv'
  <2>1. /\ At(c, "count") /\ ~At(c, "find") /\ End(c) /\ Increment(req[c].mail)
        /\ UNCHANGED guesses
    BY <1>13 DEF RecordFailure, At
  <2>2. \A n \in Emails :
          /\ F(n)' = F(n)
          /\ C(n)' = C(n) - (IF req[c].mail = n THEN 1 ELSE 0)
    BY <1>3, <1>4, <2>1
  <2>3. CASE cnt' = [cnt EXCEPT ![req[c].mail] = @ + 1] /\ faults' \in {faults, faults + 1}
    <3>1. \A n \in Emails : cnt'[n] = cnt[n] + (IF req[c].mail = n THEN 1 ELSE 0)
      BY <1>4, <1>6, <2>3
    <3>2. QED BY <1>4, <1>5, <1>6, <1>7, <2>1, <2>2, <2>3, <3>1
  <2>4. CASE UNCHANGED cnt /\ Fault
    BY <1>4, <1>5, <1>6, <1>7, <2>1, <2>2, <2>4 DEF Fault
  <2>5. QED BY <2>1, <2>3, <2>4 DEF Increment, Fault, NoFault
<1>14. ASSUME NEW c \in Clients, Reset(c) PROVE IInv'
  <2>1. /\ ~At(c, "find") /\ ~At(c, "count") /\ End(c)
    BY <1>14 DEF Reset, At
  <2>2. \A n \in Emails : F(n)' = F(n) /\ C(n)' = C(n)
    BY <1>3, <1>4, <2>1
  <2>3. CASE NoFault /\ Clear(req[c].mail)
    BY <1>4, <1>6, <1>8, <2>2, <2>3
  <2>4. CASE Fault /\ UNCHANGED <<cnt, ttl, guesses>>
    BY <1>4, <1>6, <1>7, <2>2, <2>4 DEF Fault
  <2>5. QED BY <1>14, <2>3, <2>4 DEF Reset
<1>15. ASSUME NEW c \in Clients, Crash(c) PROVE IInv'
  <2>1. End(c) /\ Fault /\ UNCHANGED <<cnt, guesses>>
    BY <1>15 DEF Crash
  <2>2. \A n \in Emails :
          /\ F(n)' \in {F(n), F(n) - 1} /\ C(n)' \in {C(n), C(n) - 1}
    BY <1>3, <1>4, <2>1
  <2>3. QED BY <1>4, <1>5, <1>6, <1>7, <2>1, <2>2 DEF Fault
<1>16. ASSUME UNCHANGED req, NEW m \in Emails
       PROVE  F(m)' = F(m) /\ C(m)' = C(m)
  BY <1>16 DEF F, C, Logins, At
<1>17. ASSUME NEW m \in Emails, Expire(m) PROVE IInv'
  BY <1>4, <1>8, <1>16, <1>17 DEF Expire, NoFault
<1>18. CASE UNCHANGED <<cnt, guesses, faults, req>>
  BY <1>4, <1>7, <1>16, <1>18
<1>19. QED
  BY <1>9, <1>10, <1>11, <1>12, <1>13, <1>14, <1>15, <1>17, <1>18
     DEF Next, Step, SetStatus, vars

\* The invariant holds in every reachable state.
LEMMA InvAlways == Spec => []IInv
<1>1. QED BY InitInv, NextInv, PTL DEF Spec

-----------------------------------------------------------------------------
\* Login and lockout.go: whatever logins interleave and fail, every variable
\* keeps its type, and a key with an expiry has counted a failure.
THEOREM TypeCorrect == Spec => []TypeOK
<1>1. IInv => TypeOK
  BY DEF IInv
<1>2. QED BY <1>1, InvAlways, PTL

\* blocked reads the counter before the password is checked and recordFailure
\* raises it after: the overshoot is one guess for each other login in flight
\* and one for each failure, however many logins there are.
THEOREM GuessesAreBounded == Spec => []GuessesBounded
<1>1. IInv => GuessesBounded
  BY Balance DEF GuessesBounded
<1>2. QED BY <1>1, InvAlways, PTL

\* recordFailure and reset: an address is never locked out for less
\* than max_attempts wrong passwords or failed lookups in its window.
THEOREM LockoutsHaveCause == Spec => []LockedForCause
<1>1. IInv => LockedForCause
  BY DEF IInv
<1>2. QED BY <1>1, InvAlways, PTL

=============================================================================
