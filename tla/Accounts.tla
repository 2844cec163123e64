------------------------------- MODULE Accounts -------------------------------
(***************************************************************************)
(* Accounts: registration, e-mail verification, profile and avatar,        *)
(* settings, deletion, and the administrator's moderation, by concurrent   *)
(* requests that take one step per transaction, Redis command or call to   *)
(* object storage.                                                         *)
(*                                                                         *)
(* Sessions and passwords are the subject of AuthSessions, the lockout of  *)
(* LoginGuard.  A request fails by itself (Fault) or with the process.     *)
(***************************************************************************)
EXTENDS Naturals, FiniteSets

CONSTANTS
  Emails,          \* addresses in normal form
  NoEmail,
  Clients,         \* requests in flight at one time
  MaxUsers,        \* bound: rows of auth.users
  MaxTokens,       \* bound: verification tokens issued
  MaxObjects,      \* bound: avatars uploaded
  MaxSuspensions,  \* bound: suspensions of an account in force at one time
  MaxFaults        \* bound: failures injected

ASSUME AccountBounds ==
  /\ MaxUsers \in Nat /\ MaxTokens \in Nat /\ MaxObjects \in Nat
  /\ MaxSuspensions \in Nat /\ MaxFaults \in Nat
ASSUME AccountNames == NoEmail \notin Emails

Ids == 1..MaxUsers

VARIABLES
  row,       \* row[i]: none, live, or gone (deleted_at set)
  email, status, verified,
  avatar,    \* avatar[i]: 0 = empty, else the object its URL names
  settings,  \* settings[i]: none, default or custom
  tokens,    \* tokens[i]: live verification tokens of i in Redis
  issued,    \* verification tokens issued so far
  used,      \* history: verification tokens that opened VerifyEmail's update
  objects,   \* avatars in object storage
  banned,    \* banned[i]: suspensions of i in force
  record,    \* record[i]: i has a suspension row, in force or not
  granted,   \* the API's database role may write auth.account_suspensions, as
             \* docs/database.md says; migrations/00006 lets app_api read it only
  req, faults

userVars  == <<row, email, status, verified, avatar, settings>>
tokenVars == <<tokens, issued, used>>
banVars   == <<banned, record, granted>>
vars      == <<userVars, tokenVars, objects, banVars, req, faults>>

(***************************************************************************)
(* The locals of a request; ok is the answer it will give.  History: no    *)
(* other moderation of its account overlaps it (alone).                    *)
(***************************************************************************)
Idle == [op |-> "none", pc |-> "idle", id |-> 0, email |-> NoEmail, obj |-> 0,
         ok |-> FALSE, alone |-> TRUE]
Moderations == {"suspend", "unsuspend"}
Ops == {"none", "register", "verify", "resend", "avatar"} \cup Moderations
PCs == {"idle", "create", "token", "mark", "put", "profile", "insert", "lift",
        "status", "done"}

Init ==
  /\ row = [i \in Ids |-> "none"] /\ email = [i \in Ids |-> NoEmail]
  /\ status = [i \in Ids |-> "active"] /\ verified = [i \in Ids |-> FALSE]
  /\ avatar = [i \in Ids |-> 0] /\ settings = [i \in Ids |-> "none"]
  /\ tokens = [i \in Ids |-> 0] /\ issued = 0 /\ used = 0
  /\ objects = {}
  /\ banned = [i \in Ids |-> 0] /\ record = [i \in Ids |-> FALSE]
  /\ granted \in BOOLEAN
  /\ req = [c \in Clients |-> Idle] /\ faults = 0

Fault   == faults < MaxFaults /\ faults' = faults + 1
NoFault == faults' = faults

At(c, pc) == req[c].pc = pc
Begin(c, r) == At(c, "idle") /\ req' = [req EXCEPT ![c] = r] /\ NoFault
Go(c, pc) == req' = [req EXCEPT ![c].pc = pc]

\* The answers to moderations are looked at, so they stay for a step.
Answer(c, ok) ==
  req' = [req EXCEPT ![c] = IF @.op \in Moderations THEN [@ EXCEPT !.pc = "done", !.ok = ok]
                            ELSE Idle]

\* What authenticate requires of the account behind a session.
Admitted(i) == row[i] = "live" /\ status[i] = "active"

-----------------------------------------------------------------------------
(***************************************************************************)
(* Registration and e-mail verification                                    *)
(***************************************************************************)
Holders(m) == {i \in Ids : row[i] = "live" /\ email[i] = m}

\* ExistsByEmail, which answers false when the query fails.
Register(c, m) ==
  /\ At(c, "idle")
  /\ \/ Holders(m) = {} /\ NoFault
     \/ Holders(m) # {} /\ Fault
  /\ req' = [req EXCEPT ![c] = [Idle EXCEPT !.op = "register", !.pc = "create",
                                            !.email = m]]
  /\ UNCHANGED <<userVars, tokenVars, objects, banVars>>

NextId == Cardinality({i \in Ids : row[i] # "none"}) + 1

\* Mutant: idx_users_email_active is missing.
AddressTakenNever(m) == FALSE

\* idx_users_email_active
AddressTaken(m) == Holders(m) # {}

\* The transaction of Register: the user, its settings and its first session,
\* or nothing.  The row takes the columns' defaults, whatever user.Status says.
CreateUser(c) ==
  /\ At(c, "create") /\ NextId \in Ids
  /\ \/ /\ ~AddressTaken(req[c].email) /\ NoFault
        /\ row' = [row EXCEPT ![NextId] = "live"]
        /\ email' = [email EXCEPT ![NextId] = req[c].email]
        /\ settings' = [settings EXCEPT ![NextId] = "default"]
        /\ req' = [req EXCEPT ![c] = [Idle EXCEPT !.op = "resend", !.pc = "token", !.id = NextId]]
     \/ /\ (AddressTaken(req[c].email) /\ NoFault) \/ Fault
        /\ Answer(c, FALSE)
        /\ UNCHANGED <<row, email, settings>>
  /\ UNCHANGED <<status, verified, avatar, tokenVars, objects, banVars>>

\* sendVerification: a token that cannot be stored is not mailed; a mail that
\* cannot be queued leaves the token.  Neither fails the request.
SendVerification(c) ==
  /\ At(c, "token") /\ issued < MaxTokens
  /\ \/ /\ NoFault \/ Fault
        /\ tokens' = [tokens EXCEPT ![req[c].id] = @ + 1] /\ issued' = issued + 1
     \/ Fault /\ UNCHANGED <<tokens, issued>>
  /\ Answer(c, TRUE)
  /\ UNCHANGED <<userVars, used, objects, banVars>>

\* FindByID; nothing is sent to a verified account.
ResendVerification(c, i) ==
  /\ Admitted(i) /\ ~verified[i]
  /\ Begin(c, [Idle EXCEPT !.op = "resend", !.pc = "token", !.id = i])
  /\ UNCHANGED <<userVars, tokenVars, objects, banVars>>

\* Mutant: the token is read with GET and deleted after the update.
VerifyEmailGet(c, i) ==
  /\ tokens[i] > 0
  /\ Begin(c, [Idle EXCEPT !.op = "verify", !.pc = "mark", !.id = i])
  /\ used' = used + 1
  /\ UNCHANGED <<userVars, tokens, issued, objects, banVars>>

\* GETDEL consumes the token; a lost reply consumes it in vain.
VerifyEmail(c, i) ==
  /\ tokens[i] > 0 /\ At(c, "idle")
  /\ tokens' = [tokens EXCEPT ![i] = @ - 1]
  /\ \/ /\ Begin(c, [Idle EXCEPT !.op = "verify", !.pc = "mark", !.id = i])
        /\ used' = used + 1
     \/ Fault /\ UNCHANGED <<req, used>>
  /\ UNCHANGED <<userVars, issued, objects, banVars>>

\* MarkUserEmailVerified has no condition on deleted_at.
MarkEmailVerified(c) ==
  /\ At(c, "mark")
  /\ \/ /\ NoFault /\ Answer(c, TRUE)
        /\ verified' = [verified EXCEPT ![req[c].id] = TRUE]
     \/ Fault /\ Answer(c, FALSE) /\ UNCHANGED verified
  /\ UNCHANGED <<row, email, status, avatar, settings, tokenVars, objects, banVars>>

TokenExpires(i) ==
  /\ tokens[i] > 0 /\ tokens' = [tokens EXCEPT ![i] = @ - 1]
  /\ UNCHANGED <<userVars, issued, used, objects, banVars, req, faults>>

-----------------------------------------------------------------------------
(***************************************************************************)
(* Profile, settings, deletion                                             *)
(***************************************************************************)
\* The row UpdateUserProfile finds: one that is not deleted.
ProfileRow(i) == row[i] = "live"

NextObject == Cardinality(objects) + 1

\* UploadAvatar, of the validated image the stream delivered.
UploadAvatar(c, i) ==
  /\ Admitted(i) /\ NextObject <= MaxObjects
  /\ Begin(c, [Idle EXCEPT !.op = "avatar", !.pc = "put", !.id = i])
  /\ UNCHANGED <<userVars, tokenVars, objects, banVars>>

\* Mutant: an upload that fails is only logged.
PutErrorIgnored(c) ==
  /\ At(c, "put") /\ NextObject <= MaxObjects
  /\ \/ NoFault /\ objects' = objects \cup {NextObject}
     \/ Fault /\ UNCHANGED objects
  /\ req' = [req EXCEPT ![c].pc = "profile", ![c].obj = NextObject]
  /\ UNCHANGED <<userVars, tokenVars, banVars>>

\* The object's key is new each time.
Put(c) ==
  /\ At(c, "put") /\ NextObject <= MaxObjects
  /\ \/ /\ NoFault /\ objects' = objects \cup {NextObject}
        /\ req' = [req EXCEPT ![c].pc = "profile", ![c].obj = NextObject]
     \/ Fault /\ Answer(c, FALSE) /\ UNCHANGED objects
  /\ UNCHANGED <<userVars, tokenVars, banVars>>

\* A failure here, or a deletion meanwhile, leaves the object behind.
PersistAvatar(c) ==
  /\ At(c, "profile")
  /\ \/ /\ ProfileRow(req[c].id) /\ NoFault /\ Answer(c, TRUE)
        /\ avatar' = [avatar EXCEPT ![req[c].id] = req[c].obj]
     \/ /\ (~ProfileRow(req[c].id) /\ NoFault) \/ Fault
        /\ Answer(c, FALSE) /\ UNCHANGED avatar
  /\ UNCHANGED <<row, email, status, verified, settings, tokenVars, objects, banVars>>

\* An UPDATE that matches no row is not an error.
UpdateSettings(i) ==
  /\ Admitted(i) /\ settings[i] # "none"
  /\ settings' = [settings EXCEPT ![i] = "custom"]
  /\ UNCHANGED <<row, email, status, verified, avatar, tokenVars, objects, banVars, req, faults>>

\* SoftDeleteUser; the sessions and the event come after it.
DeleteAccount(i) ==
  /\ Admitted(i)
  /\ row' = [row EXCEPT ![i] = "gone"]
  /\ UNCHANGED <<email, status, verified, avatar, settings, tokenVars, objects, banVars,
                 req, faults>>

-----------------------------------------------------------------------------
(***************************************************************************)
(* Moderation: two transactions per request                                *)
(***************************************************************************)
Moderates(c, i) == req[c].op \in Moderations /\ req[c].id = i

BeginModeration(c, i, op, pc) ==
  /\ At(c, "idle") /\ NoFault
  /\ LET others == {o \in Clients \ {c} : Moderates(o, i)} IN
       req' = [o \in Clients |->
                 IF o = c THEN [Idle EXCEPT !.op = op, !.pc = pc, !.id = i,
                                            !.alone = others = {}]
                 ELSE IF o \in others THEN [req[o] EXCEPT !.alone = FALSE]
                 ELSE req[o]]

SuspendUser(c, i) ==
  /\ row[i] # "none" /\ BeginModeration(c, i, "suspend", "insert")
  /\ UNCHANGED <<userVars, tokenVars, objects, banVars>>

UnsuspendUser(c, i) ==
  /\ row[i] # "none" /\ BeginModeration(c, i, "unsuspend", "lift")
  /\ UNCHANGED <<userVars, tokenVars, objects, banVars>>

\* Mutant: the error of Suspend is dropped.
InsertSuspensionErrorDropped(c) ==
  /\ At(c, "insert") /\ banned[req[c].id] < MaxSuspensions
  /\ \/ /\ granted /\ NoFault
        /\ banned' = [banned EXCEPT ![req[c].id] = @ + 1]
        /\ record' = [record EXCEPT ![req[c].id] = TRUE] /\ UNCHANGED granted
     \/ /\ (~granted /\ NoFault) \/ Fault
        /\ UNCHANGED banVars
  /\ Go(c, "status")
  /\ UNCHANGED <<userVars, tokenVars, objects>>

\* CreateSuspension; a role without an INSERT policy is refused.
InsertSuspension(c) ==
  /\ At(c, "insert") /\ banned[req[c].id] < MaxSuspensions
  /\ \/ /\ granted /\ NoFault
        /\ banned' = [banned EXCEPT ![req[c].id] = @ + 1]
        /\ record' = [record EXCEPT ![req[c].id] = TRUE] /\ UNCHANGED granted
        /\ Go(c, "status")
     \/ /\ (~granted /\ NoFault) \/ Fault
        /\ Answer(c, FALSE) /\ UNCHANGED banVars
  /\ UNCHANGED <<userVars, tokenVars, objects>>

\* Mutant: only the newest suspension is lifted.
LiftNewestSuspension(c) ==
  /\ At(c, "lift")
  /\ \/ /\ NoFault /\ Go(c, "status")
        /\ banned' = [banned EXCEPT ![req[c].id] = IF granted /\ @ > 0 THEN @ - 1 ELSE @]
     \/ Fault /\ Answer(c, FALSE) /\ UNCHANGED banned
  /\ UNCHANGED <<userVars, tokenVars, objects, record, granted>>

\* DeactivateActiveSuspensions; under a role without an UPDATE policy it
\* matches no row, which is not an error.
LiftSuspensions(c) ==
  /\ At(c, "lift")
  /\ \/ /\ NoFault /\ Go(c, "status")
        /\ banned' = [banned EXCEPT ![req[c].id] = IF granted THEN 0 ELSE @]
     \/ Fault /\ Answer(c, FALSE) /\ UNCHANGED banned
  /\ UNCHANGED <<userVars, tokenVars, objects, record, granted>>

\* UpdateUserStatus, in a transaction of its own.
SetStatus(c) ==
  /\ At(c, "status")
  /\ \/ /\ NoFault /\ Answer(c, TRUE)
        /\ status' = [status EXCEPT ![req[c].id] =
                        IF req[c].op = "suspend" THEN "suspended" ELSE "active"]
     \/ Fault /\ Answer(c, FALSE) /\ UNCHANGED status
  /\ UNCHANGED <<row, email, verified, avatar, settings, tokenVars, objects, banVars>>

\* suspended_until passes: the row is no longer in force, the status stays.
SuspensionEnds(i) ==
  /\ banned[i] > 0 /\ banned' = [banned EXCEPT ![i] = @ - 1]
  /\ UNCHANGED <<userVars, tokenVars, objects, record, granted, req, faults>>

-----------------------------------------------------------------------------
\* The audit event, if any, and the reply.
Reply(c) ==
  /\ At(c, "done") /\ NoFault /\ req' = [req EXCEPT ![c] = Idle]
  /\ UNCHANGED <<userVars, tokenVars, objects, banVars>>

Crash(c) ==
  /\ req[c].pc \notin {"idle", "done"} /\ Fault
  /\ req' = [req EXCEPT ![c] = Idle]
  /\ UNCHANGED <<userVars, tokenVars, objects, banVars>>

Next ==
  \/ \E c \in Clients :
       \/ \E m \in Emails : Register(c, m)
       \/ \E i \in Ids : \/ ResendVerification(c, i) \/ VerifyEmail(c, i)
                         \/ UploadAvatar(c, i)
                         \/ SuspendUser(c, i) \/ UnsuspendUser(c, i)
       \/ CreateUser(c) \/ SendVerification(c) \/ MarkEmailVerified(c)
       \/ Put(c) \/ PersistAvatar(c)
       \/ InsertSuspension(c) \/ LiftSuspensions(c) \/ SetStatus(c)
       \/ Reply(c) \/ Crash(c)
  \/ \E i \in Ids : TokenExpires(i) \/ UpdateSettings(i) \/ DeleteAccount(i)
                   \/ SuspensionEnds(i)

Spec == Init /\ [][Next]_vars

-----------------------------------------------------------------------------
\* Every variable has its type.
TypeOK ==
  /\ row \in [Ids -> {"none", "live", "gone"}]
  /\ email \in [Ids -> Emails \cup {NoEmail}]
  /\ status \in [Ids -> {"active", "suspended"}] /\ verified \in [Ids -> BOOLEAN]
  /\ avatar \in [Ids -> 0..MaxObjects]
  /\ settings \in [Ids -> {"none", "default", "custom"}]
  /\ tokens \in [Ids -> 0..MaxTokens] /\ issued \in 0..MaxTokens /\ used \in 0..MaxTokens
  /\ objects \subseteq 1..MaxObjects
  /\ banned \in [Ids -> 0..MaxSuspensions] /\ record \in [Ids -> BOOLEAN]
  /\ granted \in BOOLEAN
  /\ req \in [Clients -> [op : Ops, pc : PCs, id : Ids \cup {0},
                          email : Emails \cup {NoEmail}, obj : 0..MaxObjects,
                          ok : BOOLEAN, alone : BOOLEAN]]
  /\ faults \in 0..MaxFaults

\* ExistsByEmail runs before the transaction and answers false on an error:
\* still no two live accounts share an address, and a deleted one frees it.
OneLivePerAddress ==
  \A i, j \in Ids :
    row[i] = "live" /\ row[j] = "live" /\ email[i] = email[j] => i = j

\* One element per live token, tk[i] of them for account i.
Outstanding(tk) == {p \in Ids \X (1..MaxTokens) : p[2] <= tk[p[1]]}

\* The comment in VerifyEmail: a token is single-use, however many requests
\* present it at once.
TokensSingleUse == used + Cardinality(Outstanding(tokens)) <= issued

\* UploadAvatar racing itself, a deletion and failures: the avatar of a row is
\* always an object that was stored.
AvatarResolves == \A i \in Ids : avatar[i] # 0 => avatar[i] \in objects

\* Nobody is suspended without a suspension on record, although the two are
\* written by two transactions.
SuspendedHasRecord == \A i \in Ids : status[i] = "suspended" => record[i]

\* SuspendUser and UnsuspendUser that succeed, with no other moderation of the
\* account meanwhile, leave it suspended, or active with no suspension in force.
ModerationTakesEffect ==
  \A c \in Clients :
    At(c, "done") /\ req[c].ok /\ req[c].alone =>
      /\ req[c].op = "suspend" => status[req[c].id] = "suspended"
      /\ req[c].op = "unsuspend" =>
           status[req[c].id] = "active" /\ banned[req[c].id] = 0

=============================================================================
