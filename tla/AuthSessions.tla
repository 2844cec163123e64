----------------------------- MODULE AuthSessions -----------------------------
(***************************************************************************)
(* Device sessions and refresh tokens: register, login, refresh with       *)
(* rotation and reuse detection, logout, device removal, password change   *)
(* and reset, account deletion, run by concurrent requests.                *)
(*                                                                         *)
(* A request takes one step per database transaction, and one per          *)
(* statement inside the login transaction, because PostgreSQL runs it at   *)
(* READ COMMITTED: an UPDATE works on the rows of its own snapshot, waits  *)
(* for their locks and skips those that no longer match.                   *)
(*                                                                         *)
(* Every session opens one token family, so a family is named by its       *)
(* session.  An access token stands for the session in its claims.  Users  *)
(* stay active; wrong passwords, expired tokens and inactive sessions end  *)
(* a request without touching the state and are left out.                  *)
(***************************************************************************)
EXTENDS Naturals, Sequences, FiniteSets

CONSTANTS
  Users, Devices,
  NoDevice,      \* the device id of a client that sends none
  NoUser,
  Clients,       \* requests in flight at one time
  MaxDevices,    \* max_devices_per_user; 0 = no limit
  MaxSessions,   \* bound: rows of device_sessions
  MaxTokens,     \* bound: rows of refresh_tokens
  MaxResets,     \* bound: reset tokens issued
  MaxPasswords,  \* bound: passwords a user goes through
  MaxFaults      \* bound: failures injected

ASSUME AuthBounds ==
  /\ MaxDevices \in Nat /\ MaxSessions \in Nat /\ MaxTokens \in Nat
  /\ MaxResets \in Nat /\ MaxPasswords \in Nat /\ MaxFaults \in Nat
ASSUME AuthIdentities == NoUser \notin Users /\ IsFiniteSet(Clients)

SessionIds == 1..MaxSessions
TokenIds   == 1..MaxTokens
Ops == {"none", "register", "login", "refresh", "reuse", "auth", "logout",
        "remove", "change", "delete", "reset"}
PCs == {"idle", "list", "revoke", "tokens", "sweep", "lock", "insert",
        "session", "rotate", "family", "kill", "check", "write", "resetSnap",
        "resetRevoke", "granted", "done"}

VARIABLES
  pwd,     \* pwd[u]: how many passwords u has had; 0 = not registered
  resets,  \* resets[u]: live password-reset tokens of u in Redis
  issued,  \* reset tokens issued so far
  gone,    \* users soft-deleted (deleted_at set)
  sSt,     \* sSt[s]: none, active or revoked (revoked_at set)
  sUser, sDev,
  struck,  \* history: sessions whose tokens a reuse or a logout revoked
  cut,     \* history: evictions that met a revoked session and left others
  rtSt,    \* rtSt[t]: none, active or revoked
  rtSess,  \* the session, that is the family, of t
  req,     \* req[c]: the request of c
  faults

sessVars  == <<sSt, sUser, sDev, struck, cut>>
tokenVars == <<rtSt, rtSess>>
userVars  == <<pwd, resets, issued, gone>>
vars      == <<userVars, sessVars, tokenVars, req, faults>>

(***************************************************************************)
(* The locals of a request: op and pc, the user and device it is about,    *)
(* its session and token (0 = none), the sessions it still has to revoke,  *)
(* the snapshot of its UPDATE and the rows that UPDATE has locked.         *)
(* History: the user's sessions when it was admitted (of a login all that  *)
(* there were when it listed its victims), whether its own was already     *)
(* revoked then, and whether no failure has hit it.                        *)
(***************************************************************************)
Idle == [op |-> "none", pc |-> "idle", user |-> NoUser, dev |-> NoDevice,
         sess |-> 0, tok |-> 0, todo |-> <<>>, snap |-> {}, held |-> {},
         before |-> {}, stale |-> FALSE, clean |-> TRUE]

Init ==
  /\ pwd = [u \in Users |-> 0]
  /\ resets = [u \in Users |-> 0] /\ issued = 0 /\ gone = {}
  /\ sSt = [s \in SessionIds |-> "none"]
  /\ sUser = [s \in SessionIds |-> NoUser]
  /\ sDev = [s \in SessionIds |-> NoDevice]
  /\ struck = {} /\ cut = 0
  /\ rtSt = [t \in TokenIds |-> "none"]
  /\ rtSess = [t \in TokenIds |-> 0]
  /\ req = [c \in Clients |-> Idle]
  /\ faults = 0

Opened == {s \in SessionIds : sSt[s] # "none"}
Active(u) == {s \in SessionIds : sSt[s] = "active" /\ sUser[s] = u}
OnDevice(d) == {s \in SessionIds : sSt[s] = "active" /\ sDev[s] = d}
TokensOf(s) == {t \in TokenIds : rtSess[t] = s /\ rtSt[t] # "none"}

\* Rows another request's open transaction has updated.
Locked(c, s) == \E o \in Clients \ {c} : s \in req[o].held

Fault   == faults < MaxFaults /\ faults' = faults + 1
NoFault == faults' = faults

At(c, pc) == req[c].pc = pc
Go(c, pc) == req' = [req EXCEPT ![c].pc = pc, ![c].clean = @ /\ faults' = faults]
Begin(c, r) == At(c, "idle") /\ req' = [req EXCEPT ![c] = r] /\ NoFault
End(c) == req' = [req EXCEPT ![c] = Idle]

RevokeSessions(S) ==
  sSt' = [s \in SessionIds |-> IF s \in S /\ sSt[s] = "active" THEN "revoked" ELSE sSt[s]]
RevokeTokens(S) ==
  rtSt' = [t \in TokenIds |-> IF t \in S /\ rtSt[t] = "active" THEN "revoked" ELSE rtSt[t]]

-----------------------------------------------------------------------------
(***************************************************************************)
(* Register and Login                                                      *)
(***************************************************************************)
\* ExistsByEmail finds nothing and the INSERT of the user does not wait for
\* another registration of the same address.
Register(c, u, d) ==
  /\ pwd[u] = 0
  /\ \A o \in Clients : ~(req[o].op = "register" /\ req[o].user = u)
  /\ Begin(c, [Idle EXCEPT !.op = "register", !.pc = "sweep", !.user = u,
                           !.dev = d])
  /\ UNCHANGED <<userVars, sessVars, tokenVars>>

\* The password matches the hash FindByEmail returned.
Login(c, u, d) ==
  /\ pwd[u] > 0 /\ u \notin gone
  /\ Begin(c, [Idle EXCEPT !.op = "login", !.pc = "list", !.user = u,
                           !.dev = d])
  /\ UNCHANGED <<userVars, sessVars, tokenVars>>

\* Mutant: evictOldestIfOverLimit compares with > instead of >=.
VictimsOver(u) ==
  {s \in Active(u) :
     MaxDevices > 0 /\ Cardinality({r \in Active(u) : r > s}) >= MaxDevices}

\* evictOldestIfOverLimit: all but the MaxDevices - 1 newest sessions.
Victims(u) ==
  {s \in Active(u) :
     MaxDevices > 0 /\ Cardinality({r \in Active(u) : r > s}) + 1 >= MaxDevices}

\* The sessions of S, oldest first; ids grow with last_activity, which is
\* set at login and never updated.
Oldest(S) == CHOOSE q \in [1..Cardinality(S) -> S] :
               \A i, j \in 1..Cardinality(S) : i < j => q[i] < q[j]

\* Where the loop over todo goes when rest is left of it.
AfterRevoke(c, rest) ==
  CASE rest # <<>>                           -> "revoke"
    [] rest = <<>> /\ req[c].op = "login"    -> "sweep"
    [] rest = <<>> /\ req[c].op # "login"    -> "done"

\* FindActiveDevicesByUser: of a login its victims, of a password change the
\* sessions but the current one, of an account deletion all of them.
Listed(c) ==
  CASE req[c].op = "login"  -> Victims(req[c].user)
    [] req[c].op = "change" -> Active(req[c].user) \ {req[c].sess}
    [] req[c].op = "delete" -> Active(req[c].user)

\* A failed listing revokes nothing, and the request goes on.
List(c) ==
  /\ At(c, "list")
  /\ \E S \in {Listed(c), {}} :
       /\ IF S = Listed(c) THEN NoFault ELSE Fault
       /\ req' = [req EXCEPT ![c].todo = Oldest(S),
                             ![c].pc = AfterRevoke(c, Oldest(S)),
                             ![c].before = IF req[c].op = "login" THEN Opened ELSE @,
                             ![c].clean = @ /\ faults' = faults]
  /\ UNCHANGED <<userVars, sessVars, tokenVars>>

\* Mutant: RevokeOtherSessions returns at the first error.
RevokeErrorStops(c) ==
  CASE req[c].op = "logout" ->
         Go(c, "tokens")
    [] req[c].op = "login" ->
         req' = [req EXCEPT ![c].todo = <<>>, ![c].pc = "sweep",
                            ![c].clean = @ /\ faults' = faults]
    [] req[c].op \in {"remove", "change", "delete"} ->
         req' = [req EXCEPT ![c].todo = <<>>, ![c].pc = "done",
                            ![c].clean = @ /\ faults' = faults]

\* What Revoke's error (a session already revoked is one) does: a logout goes
\* on, an eviction stops, a device removal fails, the other loops skip it.
RevokeError(c) ==
  CASE req[c].op = "logout" ->
         Go(c, "tokens")
    [] req[c].op = "login" ->
         req' = [req EXCEPT ![c].todo = <<>>, ![c].pc = "sweep",
                            ![c].clean = @ /\ faults' = faults]
    [] req[c].op \in {"remove", "change", "delete"} ->
         req' = [req EXCEPT ![c].todo = Tail(@), ![c].pc = AfterRevoke(c, Tail(req[c].todo)),
                            ![c].clean = @ /\ faults' = faults]

\* History: an eviction ends at its first error and leaves the rest of todo.
CutShort(c) ==
  cut' = IF req[c].op = "login" /\ Tail(req[c].todo) # <<>> THEN cut + 1 ELSE cut

RevokeSession(c) ==
  /\ At(c, "revoke") /\ ~Locked(c, Head(req[c].todo))
  /\ LET s == Head(req[c].todo) IN
       \/ /\ sSt[s] = "active" /\ NoFault
          /\ RevokeSessions({s})
          /\ Go(c, "tokens") /\ UNCHANGED cut
       \/ /\ \/ sSt[s] = "revoked" /\ NoFault /\ CutShort(c)
             \/ Fault /\ UNCHANGED cut
          /\ RevokeError(c)
          /\ UNCHANGED sSt
  /\ UNCHANGED <<userVars, sUser, sDev, struck, tokenVars>>

\* RevokeBySessionID; its error is logged.
RevokeItsTokens(c) ==
  /\ At(c, "tokens")
  /\ LET s == Head(req[c].todo) IN
       \/ /\ NoFault
          /\ RevokeTokens(TokensOf(s))
          /\ struck' = struck \cup {s}
       \/ Fault /\ UNCHANGED <<rtSt, struck>>
  /\ req' = [req EXCEPT ![c].todo = Tail(@), ![c].pc = AfterRevoke(c, Tail(req[c].todo)),
                        ![c].clean = @ /\ faults' = faults]
  /\ UNCHANGED <<userVars, sSt, sUser, sDev, cut, rtSess>>

\* RevokeActiveByDeviceID begins, unless the client sent no device id.
Sweep(c) ==
  /\ At(c, "sweep") /\ NoFault
  /\ req' = [req EXCEPT ![c].pc = "lock",
               ![c].snap = IF req[c].dev = NoDevice THEN {} ELSE OnDevice(req[c].dev)]
  /\ UNCHANGED <<userVars, sessVars, tokenVars>>

\* It waits for the locks of its rows and updates those still active.
Lock(c) ==
  /\ At(c, "lock") /\ NoFault
  /\ \A s \in req[c].snap : ~Locked(c, s)
  /\ req' = [req EXCEPT ![c].pc = "insert", ![c].snap = {},
               ![c].held = {s \in req[c].snap : sSt[s] = "active"}]
  /\ UNCHANGED <<userVars, sessVars, tokenVars>>

\* Mutant: idx_unique_active_device_id is missing.
ConflictNever(c) == FALSE

\* idx_unique_active_device_id, against sessions this transaction leaves active.
Conflict(c) == OnDevice(req[c].dev) \ req[c].held # {}

NextSession == Cardinality(Opened) + 1
NextToken   == Cardinality({t \in TokenIds : rtSt[t] # "none"}) + 1

\* Create, the token pair and the commit.  A conflict or an error rolls the
\* transaction back; the insert waits for a transaction that has locked a
\* conflicting row.
Insert(c) ==
  /\ At(c, "insert")
  /\ \A s \in OnDevice(req[c].dev) : ~Locked(c, s)
  /\ \/ /\ ~Conflict(c) /\ NoFault
        /\ NextSession \in SessionIds /\ NextToken \in TokenIds
        /\ sSt' = [s \in SessionIds |-> IF s = NextSession THEN "active"
                                        ELSE IF s \in req[c].held THEN "revoked" ELSE sSt[s]]
        /\ sUser' = [sUser EXCEPT ![NextSession] = req[c].user]
        /\ sDev' = [sDev EXCEPT ![NextSession] = req[c].dev]
        /\ rtSt' = [rtSt EXCEPT ![NextToken] = "active"]
        /\ rtSess' = [rtSess EXCEPT ![NextToken] = NextSession]
        /\ pwd' = IF req[c].op = "register" THEN [pwd EXCEPT ![req[c].user] = 1] ELSE pwd
        /\ req' = [req EXCEPT ![c].pc = "granted", ![c].held = {}, ![c].sess = NextSession]
     \/ /\ (Conflict(c) /\ NoFault) \/ Fault
        /\ req' = [req EXCEPT ![c].pc = "done", ![c].held = {},
                              ![c].clean = @ /\ faults' = faults]
        /\ UNCHANGED <<pwd, sSt, sUser, sDev, tokenVars>>
  /\ UNCHANGED <<resets, issued, gone, struck, cut>>

-----------------------------------------------------------------------------
(***************************************************************************)
(* RefreshTokens                                                           *)
(***************************************************************************)
\* GetUserByID finds only users that are not deleted.
Readable(s) == sUser[s] \notin gone

\* History: what RevokedGrantsNothing says must not be usable any more.
Revoked(s) == sSt[s] = "revoked" \/ sUser[s] \in gone

\* Mutant: RefreshTokens trusts the token alone.
UsableReadable(s) == Readable(s)

\* What a request requires of the session and the user it has read.
Usable(s) == Readable(s) /\ sSt[s] = "active"

\* FindByTokenHash reads the token's row ...
Refresh(c, t) ==
  /\ rtSt[t] # "none"
  /\ Begin(c, [Idle EXCEPT !.op = IF rtSt[t] = "revoked" THEN "reuse" ELSE "refresh",
                           !.pc = "session", !.tok = t, !.sess = rtSess[t],
                           !.stale = Revoked(rtSess[t])])
  /\ UNCHANGED <<userVars, sessVars, tokenVars>>

\* ... then its session's and user's, and RefreshTokens decides on what it read.
ReadSession(c) ==
  /\ At(c, "session") /\ NoFault
  /\ LET s == req[c].sess IN
       Go(c, CASE req[c].op = "reuse" /\ Readable(s)   -> "family"
               [] req[c].op = "reuse" /\ ~Readable(s)  -> "done"
               [] req[c].op = "refresh" /\ Usable(s)   -> "rotate"
               [] req[c].op = "refresh" /\ ~Usable(s)  -> "done")
  /\ UNCHANGED <<userVars, sessVars, tokenVars>>

\* Mutant: the rotation is not one transaction.
RotateTwice(c) ==
  /\ At(c, "rotate") /\ NextToken \in TokenIds
  /\ \/ /\ NoFault
        /\ rtSt' = [rtSt EXCEPT ![req[c].tok] = "revoked", ![NextToken] = "active"]
        /\ rtSess' = [rtSess EXCEPT ![NextToken] = req[c].sess]
        /\ Go(c, "granted")
     \/ Fault /\ Go(c, "done") /\ RevokeTokens({req[c].tok}) /\ UNCHANGED rtSess
  /\ UNCHANGED <<userVars, sessVars>>

\* The rotation: revoke the old token, if it is not yet revoked, and create
\* its successor, in one transaction.
Rotate(c) ==
  /\ At(c, "rotate") /\ NextToken \in TokenIds
  /\ \/ /\ NoFault
        /\ rtSt' = [rtSt EXCEPT ![req[c].tok] = "revoked", ![NextToken] = "active"]
        /\ rtSess' = [rtSess EXCEPT ![NextToken] = req[c].sess]
        /\ Go(c, "granted")
     \/ Fault /\ Go(c, "done") /\ UNCHANGED tokenVars
  /\ UNCHANGED <<userVars, sessVars>>

\* A revoked token was presented: RevokeByTokenFamily; its error is dropped.
RevokeFamily(c) ==
  /\ At(c, "family")
  /\ \/ /\ NoFault
        /\ RevokeTokens(TokensOf(req[c].sess))
        /\ struck' = struck \cup {req[c].sess}
     \/ Fault /\ UNCHANGED <<rtSt, struck>>
  /\ Go(c, "kill")
  /\ UNCHANGED <<userVars, sSt, sUser, sDev, cut, rtSess>>

\* And its session is revoked; that error is dropped as well.
KillSession(c) ==
  /\ At(c, "kill") /\ ~Locked(c, req[c].sess)
  /\ \/ NoFault /\ RevokeSessions({req[c].sess})
     \/ Fault /\ UNCHANGED sSt
  /\ Go(c, "done")
  /\ UNCHANGED <<userVars, sUser, sDev, struck, cut, tokenVars>>

-----------------------------------------------------------------------------
(***************************************************************************)
(* Requests that carry an access token                                     *)
(***************************************************************************)
\* authenticate: Validate finds the claims in Redis ...
Present(c, s) ==
  /\ sSt[s] # "none"
  /\ Begin(c, [Idle EXCEPT !.op = "auth", !.pc = "check", !.sess = s, !.user = sUser[s],
                           !.stale = Revoked(s)])
  /\ UNCHANGED <<userVars, sessVars, tokenVars>>

\* ... and FindByID its session and user; the request is refused or goes on.
Authenticate(c) ==
  /\ At(c, "check") /\ NoFault
  /\ Go(c, IF Usable(req[c].sess) THEN "granted" ELSE "done")
  /\ UNCHANGED <<userVars, sessVars, tokenVars>>

Admitted(c) == At(c, "granted") /\ req[c].op = "auth" /\ NoFault

Logout(c) ==
  /\ Admitted(c)
  /\ req' = [req EXCEPT ![c].op = "logout", ![c].pc = "revoke", ![c].todo = <<req[c].sess>>]
  /\ UNCHANGED <<userVars, sessVars, tokenVars>>

\* FindByUserAndDeviceID; the current device cannot be removed.
RemoveDevice(c, d) ==
  /\ Admitted(c)
  /\ \E s \in Active(req[c].user) \cap OnDevice(d) :
       /\ s # req[c].sess
       /\ req' = [req EXCEPT ![c].op = "remove", ![c].pc = "revoke", ![c].todo = <<s>>]
  /\ UNCHANGED <<userVars, sessVars, tokenVars>>

\* FindByID finds the user; the client knows the current password.
ChangePassword(c) ==
  /\ Admitted(c) /\ req[c].user \notin gone
  /\ req' = [req EXCEPT ![c].op = "change", ![c].pc = "write",
                        ![c].before = Active(req[c].user)]
  /\ UNCHANGED <<userVars, sessVars, tokenVars>>

\* SoftDeleteByID, before RevokeAllSessions.
DeleteAccount(c) ==
  /\ Admitted(c)
  /\ gone' = gone \cup {req[c].user}
  /\ req' = [req EXCEPT ![c].op = "delete", ![c].pc = "list",
                        ![c].before = Active(req[c].user)]
  /\ UNCHANGED <<pwd, resets, issued, sessVars, tokenVars>>

-----------------------------------------------------------------------------
(***************************************************************************)
(* Password reset                                                          *)
(***************************************************************************)
RequestPasswordReset(u) ==
  /\ pwd[u] > 0 /\ u \notin gone /\ issued < MaxResets
  /\ resets' = [resets EXCEPT ![u] = @ + 1] /\ issued' = issued + 1
  /\ UNCHANGED <<pwd, gone, sessVars, tokenVars, req, faults>>

\* GETDEL consumes the token.
ResetPassword(c, u) ==
  /\ resets[u] > 0
  /\ Begin(c, [Idle EXCEPT !.op = "reset", !.pc = "write", !.user = u, !.before = Active(u)])
  /\ resets' = [resets EXCEPT ![u] = @ - 1]
  /\ UNCHANGED <<pwd, issued, gone, sessVars, tokenVars>>

\* UpdatePasswordHash, of a change or a reset.
WritePassword(c) ==
  /\ At(c, "write")
  /\ LET u == req[c].user IN
       \/ /\ pwd[u] < MaxPasswords /\ NoFault
          /\ pwd' = [pwd EXCEPT ![u] = @ + 1]
          /\ Go(c, IF req[c].op = "reset" THEN "resetSnap" ELSE "list")
       \/ Fault /\ Go(c, "done") /\ UNCHANGED pwd
  /\ UNCHANGED <<resets, issued, gone, sessVars, tokenVars>>

\* RevokeAllByUserID: one UPDATE.  Its error is logged.
SnapshotAll(c) ==
  /\ At(c, "resetSnap") /\ NoFault
  /\ req' = [req EXCEPT ![c].pc = "resetRevoke", ![c].snap = Active(req[c].user)]
  /\ UNCHANGED <<userVars, sessVars, tokenVars>>

RevokeAll(c) ==
  /\ At(c, "resetRevoke")
  /\ \A s \in req[c].snap : ~Locked(c, s)
  /\ \/ NoFault /\ RevokeSessions(req[c].snap)
     \/ Fault /\ UNCHANGED sSt
  /\ Go(c, "done")
  /\ UNCHANGED <<userVars, sUser, sDev, struck, cut, tokenVars>>

-----------------------------------------------------------------------------
\* The reply is sent, and the client may make another request.
Reply(c) ==
  /\ req[c].pc \in {"granted", "done"} /\ NoFault
  /\ End(c)
  /\ UNCHANGED <<userVars, sessVars, tokenVars>>

\* The server dies; an open transaction is rolled back.
Crash(c) ==
  /\ req[c].pc \notin {"idle", "granted", "done"} /\ Fault
  /\ End(c)
  /\ UNCHANGED <<userVars, sessVars, tokenVars>>

Next ==
  \/ \E c \in Clients :
       \/ \E u \in Users, d \in Devices \cup {NoDevice} : Register(c, u, d) \/ Login(c, u, d)
       \/ List(c) \/ RevokeSession(c) \/ RevokeItsTokens(c)
       \/ Sweep(c) \/ Lock(c) \/ Insert(c)
       \/ \E t \in TokenIds : Refresh(c, t)
       \/ ReadSession(c) \/ Rotate(c) \/ RevokeFamily(c) \/ KillSession(c)
       \/ \E s \in SessionIds : Present(c, s)
       \/ Authenticate(c) \/ Logout(c) \/ ChangePassword(c) \/ DeleteAccount(c)
       \/ \E d \in Devices \cup {NoDevice} : RemoveDevice(c, d)
       \/ \E u \in Users : ResetPassword(c, u)
       \/ WritePassword(c) \/ SnapshotAll(c) \/ RevokeAll(c)
       \/ Reply(c) \/ Crash(c)
  \/ \E u \in Users : RequestPasswordReset(u)

Spec == Init /\ [][Next]_vars

-----------------------------------------------------------------------------
\* Every variable has its type.
TypeOK ==
  /\ pwd \in [Users -> Nat] /\ resets \in [Users -> Nat] /\ issued \in 0..MaxResets
  /\ gone \subseteq Users
  /\ sSt \in [SessionIds -> {"none", "active", "revoked"}]
  /\ sUser \in [SessionIds -> Users \cup {NoUser}]
  /\ sDev \in [SessionIds -> Devices \cup {NoDevice}]
  /\ struck \subseteq SessionIds /\ cut \in Nat
  /\ rtSt \in [TokenIds -> {"none", "active", "revoked"}]
  /\ rtSess \in [TokenIds -> SessionIds \cup {0}]
  /\ req \in [Clients -> [op : Ops, pc : PCs, user : Users \cup {NoUser},
                          dev : Devices \cup {NoDevice}, sess : SessionIds \cup {0},
                          tok : TokenIds \cup {0}, todo : Seq(SessionIds),
                          snap : SUBSET SessionIds, held : SUBSET SessionIds,
                          before : SUBSET SessionIds, stale : BOOLEAN, clean : BOOLEAN]]
  /\ faults \in 0..MaxFaults

\* createSessionAndTokens and the partial unique index: however logins on a
\* device interleave, at most one of its sessions is active.
OneActivePerDevice ==
  \A r, s \in SessionIds :
    sSt[r] = "active" /\ sSt[s] = "active" /\ sDev[r] = sDev[s] => r = s

\* docs/authentication.md, revoking a session blocks its tokens immediately: a
\* request that began after its session was revoked, or its user deleted, is
\* neither admitted nor given tokens, although a password reset and failed
\* steps leave refresh tokens active.
RevokedGrantsNothing ==
  \A c \in Clients : req[c].stale => ~At(c, "granted")

\* ChangePassword, ResetPassword and DeleteAccount, racing logouts, relogins
\* and evictions: one that met no failure has revoked every session its user
\* had when it was admitted, but the one that made a change.
RevokersFinish ==
  \A c \in Clients :
    At(c, "done") /\ req[c].clean /\ req[c].op \in {"change", "delete", "reset"} =>
      \A s \in req[c].before :
        sSt[s] = "revoked" \/ (req[c].op = "change" /\ s = req[c].sess)

\* Comment in RefreshTokens: a crash cannot strand the session.  An active
\* session keeps an active refresh token unless a reuse or logout took it.
NotStranded ==
  \A s \in SessionIds \ struck :
    sSt[s] = "active" => \E t \in TokensOf(s) : rtSt[t] = "active"

\* The device cap under concurrency: each login in flight, each failure and
\* each eviction that met a session another request had just revoked may add
\* one session beyond it, and no more.
DeviceLimitSlack ==
  MaxDevices > 0 =>
    \A u \in Users :
      Cardinality(Active(u)) + 1 <= MaxDevices + Cardinality(Clients) + faults + cut

-----------------------------------------------------------------------------
(***************************************************************************)
(* What the documentation says, and the code does not keep                 *)
(***************************************************************************)
\* docs/authentication.md: every login opens a row in auth.device_sessions.
EveryLoginOpensSession ==
  \A c \in Clients : At(c, "done") /\ req[c].clean => req[c].op # "login"

=============================================================================
