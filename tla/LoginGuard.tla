------------------------------ MODULE LoginGuard ------------------------------
(***************************************************************************)
(* The login lockout: a Redis counter of failed logins per address, read   *)
(* before the password is checked and written after it, by any number of   *)
(* concurrent logins.                                                      *)
(*                                                                         *)
(* A login is a sequence of calls to Redis and PostgreSQL, and each call   *)
(* is a step.  Addresses are in normal form.  What a successful login goes *)
(* on to do is the subject of AuthSessions.                                *)
(***************************************************************************)
EXTENDS Naturals, FiniteSets

CONSTANTS
  Emails,       \* addresses people log in with
  Known,        \* those of a live account
  Clients,      \* logins in flight at one time
  MaxAttempts,  \* lockout.max_attempts
  MaxFaults     \* bound: failures of Redis or PostgreSQL

ASSUME GuardBounds == MaxAttempts \in Nat \ {0} /\ MaxFaults \in Nat
ASSUME GuardNames == Known \subseteq Emails /\ Emails # {} /\ IsFiniteSet(Clients)

VARIABLES
  cnt,      \* cnt[m]: the counter of m in Redis; 0 = no key
  ttl,      \* ttl[m]: the key has an expiry
  active,   \* known addresses whose account is active
  req,      \* req[c]: where the login of c is, and about which address
  guesses,  \* history: wrong passwords tried for m since its counter was cleared
  faults

vars == <<cnt, ttl, active, req, guesses, faults>>

Idle == [pc |-> "idle", mail |-> CHOOSE m \in Emails : TRUE]
PCs == {"idle", "check", "find", "count", "reset"}

Init ==
  /\ cnt = [m \in Emails |-> 0]
  /\ ttl = [m \in Emails |-> FALSE]
  /\ active = Known
  /\ req = [c \in Clients |-> Idle]
  /\ guesses = [m \in Emails |-> 0]
  /\ faults = 0

Fault   == faults < MaxFaults /\ faults' = faults + 1
NoFault == faults' = faults

At(c, pc) == req[c].pc = pc
Go(c, pc) == req' = [req EXCEPT ![c].pc = pc]
End(c)    == req' = [req EXCEPT ![c] = Idle]

\* Wrong passwords for m that recordFailure has still to count.
Uncounted(m) == Cardinality({c \in Clients : At(c, "count") /\ req[c].mail = m})

-----------------------------------------------------------------------------
(***************************************************************************)
(* CacheManager's counters, one Redis command at a time                    *)
(***************************************************************************)
\* Mutant: the window is opened by the first increment only.
StartWindowOnce(m) ==
  \/ cnt[m] = 0 /\ ttl' = [ttl EXCEPT ![m] = TRUE]
  \/ cnt[m] > 0 /\ UNCHANGED ttl

\* EXPIRE NX, after every INCR: it repairs a counter left without expiry.
StartWindow(m) == ttl' = [ttl EXCEPT ![m] = TRUE]

\* IncrementWithTTL: the pipeline is not a transaction, so of its two commands
\* none, the first or both take effect.
Increment(m) ==
  \/ /\ NoFault
     /\ cnt' = [cnt EXCEPT ![m] = @ + 1] /\ StartWindow(m)
  \/ /\ Fault
     /\ cnt' = [cnt EXCEPT ![m] = @ + 1] /\ UNCHANGED ttl
  \/ Fault /\ UNCHANGED <<cnt, ttl>>

\* The window closes: the key and what it counted are gone.
Clear(m) ==
  /\ cnt' = [cnt EXCEPT ![m] = 0]
  /\ ttl' = [ttl EXCEPT ![m] = FALSE]
  /\ guesses' = [guesses EXCEPT ![m] = Uncounted(m)]

Expire(m) ==
  /\ ttl[m] /\ Clear(m)
  /\ UNCHANGED <<active, req, faults>>

-----------------------------------------------------------------------------
(***************************************************************************)
(* Login                                                                   *)
(***************************************************************************)
Login(c, m) ==
  /\ At(c, "idle")
  /\ req' = [req EXCEPT ![c] = [pc |-> "check", mail |-> m]]
  /\ UNCHANGED <<cnt, ttl, active, guesses, faults>>

\* Mutant: blocked compares with > instead of >=.
OverLimitLater(m) == cnt[m] > MaxAttempts

OverLimit(m) == cnt[m] >= MaxAttempts

\* blocked: when the counter cannot be read the login goes on.
Check(c) ==
  /\ At(c, "check")
  /\ \/ OverLimit(req[c].mail) /\ NoFault /\ End(c)
     \/ ~OverLimit(req[c].mail) /\ NoFault /\ Go(c, "find")
     \/ Fault /\ Go(c, "find")
  /\ UNCHANGED <<cnt, ttl, active, guesses>>

\* The password is wrong, or no live account has the address.
WrongPassword(c) ==
  /\ At(c, "find") /\ NoFault
  /\ guesses' = [guesses EXCEPT ![req[c].mail] = @ + 1]
  /\ Go(c, "count")
  /\ UNCHANGED <<cnt, ttl, active>>

\* FindByEmail fails: Login takes any error for an unknown address.
LookupFails(c) ==
  /\ At(c, "find") /\ Fault
  /\ guesses' = [guesses EXCEPT ![req[c].mail] = @ + 1]
  /\ Go(c, "count")
  /\ UNCHANGED <<cnt, ttl, active>>

\* Mutant: a right password of a suspended account counts as a failure.
RightPasswordCounted(c) ==
  /\ At(c, "find") /\ req[c].mail \in Known /\ NoFault
  /\ IF req[c].mail \in active
     THEN Go(c, "reset")
     ELSE Go(c, "count")
  /\ UNCHANGED <<cnt, ttl, active, guesses>>

\* A suspended account is refused, and its counter is neither raised nor reset.
RightPassword(c) ==
  /\ At(c, "find") /\ req[c].mail \in Known /\ NoFault
  /\ IF req[c].mail \in active
     THEN Go(c, "reset")
     ELSE End(c)
  /\ UNCHANGED <<cnt, ttl, active, guesses>>

RecordFailure(c) ==
  /\ At(c, "count")
  /\ Increment(req[c].mail)
  /\ End(c)
  /\ UNCHANGED <<active, guesses>>

\* A failed DEL is logged and the counter stays.
Reset(c) ==
  /\ At(c, "reset")
  /\ \/ NoFault /\ Clear(req[c].mail)
     \/ Fault /\ UNCHANGED <<cnt, ttl, guesses>>
  /\ End(c)
  /\ UNCHANGED <<active>>

\* The server dies in the middle of a login.
Crash(c) ==
  /\ ~At(c, "idle") /\ Fault /\ End(c)
  /\ UNCHANGED <<cnt, ttl, active, guesses>>

\* An administrator suspends or restores the account.
SetStatus(m) ==
  /\ m \in Known
  /\ active' = IF m \in active THEN active \ {m} ELSE active \cup {m}
  /\ UNCHANGED <<cnt, ttl, req, guesses, faults>>

Step(c) == Check(c) \/ WrongPassword(c) \/ LookupFails(c) \/ RightPassword(c)
           \/ RecordFailure(c) \/ Reset(c)

Next ==
  \/ \E c \in Clients :
       \/ \E m \in Emails : Login(c, m)
       \/ Step(c) \/ Crash(c)
  \/ \E m \in Emails : Expire(m) \/ SetStatus(m)

Spec == Init /\ [][Next]_vars

\* Redis expires keys, and a handler that has started runs on.
Fairness ==
  /\ \A m \in Emails : WF_vars(Expire(m))
  /\ \A c \in Clients : WF_vars(Step(c))

FairSpec == Spec /\ Fairness

-----------------------------------------------------------------------------
\* Every variable has its type; the counter and the guesses are bounded.
TypeOK ==
  /\ cnt \in [Emails -> Nat] /\ ttl \in [Emails -> BOOLEAN]
  /\ \A m \in Emails : ttl[m] => cnt[m] > 0
  /\ active \subseteq Known
  /\ req \in [Clients -> [pc : PCs, mail : Emails]]
  /\ guesses \in [Emails -> Nat]
  /\ faults \in 0..MaxFaults

\* The counter is read before the password is verified and raised after it, so
\* concurrent logins overshoot: between two clearings of the counter at most
\* max_attempts - 1 guesses, one more per concurrent login and one per failure
\* of Redis are verified.
GuessesBounded ==
  \A m \in Emails :
    guesses[m] + 1 <= MaxAttempts + Cardinality(Clients) + faults

\* Nobody is locked out without as many wrong passwords or failed lookups in
\* the window: successes and refusals of suspended accounts never add up to
\* a lock.
LockedForCause ==
  \A m \in Emails : cnt[m] + Uncounted(m) <= guesses[m]

\* With fewer failures than max_attempts a lockout ends, although INCR and
\* EXPIRE are not one command: a counter that reached the limit has an expiry.
LockoutEnds == \A m \in Emails : OverLimit(m) ~> ~OverLimit(m)

=============================================================================
