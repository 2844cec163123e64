---------------------------- MODULE AccountsProofs ----------------------------
(***************************************************************************)
(* Proofs about Accounts for every number of accounts, requests, tokens,   *)
(* avatars, suspensions and failures.                                      *)
(***************************************************************************)
EXTENDS Accounts, FiniteSetTheorems, TLAPS

(***************************************************************************)
(* The parts of the inductive invariant that the properties do not state.  *)
(***************************************************************************)
Requests == [op : Ops, pc : PCs, id : Ids \cup {0}, email : Emails \cup {NoEmail},
             obj : 0..MaxObjects, ok : BOOLEAN, alone : BOOLEAN]

\* A request past its first query knows its account, and the steps of the two
\* moderations are those of their own handlers.
Fits(r) ==
  /\ r \in Requests
  /\ r.pc \in {"token", "mark", "put", "profile", "insert", "lift", "status", "done"}
       => r.id \in Ids
  /\ r.pc = "insert" => r.op = "suspend"
  /\ r.pc = "lift" => r.op = "unsuspend"
  /\ r.op \in Moderations <=> r.pc \in {"insert", "lift", "status", "done"}

Located == req \in [Clients -> Requests] /\ \A c \in Clients : Fits(req[c])

\* UploadAvatar writes the URL only once the object is stored.
Uploaded == \A c \in Clients : req[c].pc = "profile" => req[c].obj \in objects

\* SuspendUser writes the status only once the suspension is on record.
Recorded ==
  \A c \in Clients :
    req[c].pc = "status" /\ req[c].op = "suspend" => record[req[c].id]

\* A role that may not insert suspensions has none to lift.
Ungranted == granted \/ \A i \in Ids : banned[i] = 0

\* A moderation no other overlaps is the only one of its account, and what it
\* lifted stays lifted until it writes the status.
Alone ==
  \A c, o \in Clients : \A i \in Ids :
    c # o /\ Moderates(c, i) /\ Moderates(o, i) => ~req[c].alone
Lifted ==
  \A c \in Clients :
    At(c, "status") /\ req[c].op = "unsuspend" /\ req[c].alone =>
      banned[req[c].id] = 0

IInv ==
  /\ TypeOK /\ Located /\ TokensSingleUse
  /\ OneLivePerAddress
  /\ Uploaded /\ AvatarResolves
  /\ Recorded /\ SuspendedHasRecord
  /\ Ungranted /\ Alone /\ Lifted /\ ModerationTakesEffect

-----------------------------------------------------------------------------
(***************************************************************************)
(* Where a request is                                                      *)
(***************************************************************************)
\* What the handlers set a request to when they take it up.
Registering(m) == [Idle EXCEPT !.op = "register", !.pc = "create", !.email = m]
Serving(op, pc, i) == [Idle EXCEPT !.op = op, !.pc = pc, !.id = i]
Moderating(op, pc, i, a) == [Idle EXCEPT !.op = op, !.pc = pc, !.id = i, !.alone = a]

LEMMA IdleFits == Fits(Idle)
<1>1. 0 \in 0..MaxObjects
  BY AccountBounds
<1>2. QED BY <1>1 DEF Idle, Fits, Requests, Ops, PCs, Moderations

LEMMA RegisteringFits == \A m \in Emails : Fits(Registering(m))
<1> SUFFICES ASSUME NEW m \in Emails PROVE Fits(Registering(m))
  OBVIOUS
<1>1. 0 \in 0..MaxObjects
  BY AccountBounds
<1>2. QED BY <1>1 DEF Registering, Idle, Fits, Requests, Ops, PCs, Moderations

LEMMA ServingFits ==
  \A i \in Ids : /\ Fits(Serving("resend", "token", i))
               /\ Fits(Serving("verify", "mark", i))
               /\ Fits(Serving("avatar", "put", i))
<1> SUFFICES ASSUME NEW i \in Ids
             PROVE  /\ Fits(Serving("resend", "token", i))
                    /\ Fits(Serving("verify", "mark", i))
                    /\ Fits(Serving("avatar", "put", i))
  OBVIOUS
<1>1. 0 \in 0..MaxObjects
  BY AccountBounds
<1>2. Fits(Serving("resend", "token", i))
  BY <1>1 DEF Serving, Idle, Fits, Requests, Ops, PCs, Moderations
<1>3. Fits(Serving("verify", "mark", i))
  BY <1>1 DEF Serving, Idle, Fits, Requests, Ops, PCs, Moderations
<1>4. Fits(Serving("avatar", "put", i))
  BY <1>1 DEF Serving, Idle, Fits, Requests, Ops, PCs, Moderations
<1>5. QED BY <1>2, <1>3, <1>4

LEMMA ModeratingFits ==
  \A i \in Ids, a \in BOOLEAN : /\ Fits(Moderating("suspend", "insert", i, a))
                               /\ Fits(Moderating("unsuspend", "lift", i, a))
<1> SUFFICES ASSUME NEW i \in Ids, NEW a \in BOOLEAN
             PROVE  /\ Fits(Moderating("suspend", "insert", i, a))
                    /\ Fits(Moderating("unsuspend", "lift", i, a))
  OBVIOUS
<1>1. 0 \in 0..MaxObjects
  BY AccountBounds
<1>2. Fits(Moderating("suspend", "insert", i, a))
  BY <1>1 DEF Moderating, Idle, Fits, Requests, Ops, PCs, Moderations
<1>3. Fits(Moderating("unsuspend", "lift", i, a))
  BY <1>1 DEF Moderating, Idle, Fits, Requests, Ops, PCs, Moderations
<1>4. QED BY <1>2, <1>3

\* A step of one request that leaves it fitting leaves all of them so.
LEMMA OneFits ==
  ASSUME Located, NEW c \in Clients, NEW r, Fits(r), req' = [req EXCEPT ![c] = r]
  PROVE  Located'
BY DEF Located, Fits

\* What a handler's answer makes of its request.
LEMMA AnswerFits ==
  ASSUME Located, NEW c \in Clients, NEW ok \in BOOLEAN, Answer(c, ok)
  PROVE  Located'
<1>1. Fits(req[c])
  BY DEF Located
<1>2. CASE req[c].op \in Moderations
  <2> DEFINE r == [req[c] EXCEPT !.pc = "done", !.ok = ok]
  <2>1. Fits(r)
    BY <1>1, <1>2 DEF Fits, Requests, PCs
  <2>2. req' = [req EXCEPT ![c] = r]
    BY <1>2 DEF Answer
  <2> HIDE DEF r
  <2>3. QED BY <2>1, <2>2, OneFits
<1>3. CASE req[c].op \notin Moderations
  BY <1>3, IdleFits, OneFits DEF Answer
<1>4. QED BY <1>2, <1>3

\* The handlers of the two moderations: the other requests lose alone only.
LEMMA BeginFits ==
  ASSUME Located, NEW c \in Clients, NEW i \in Ids,
         \/ BeginModeration(c, i, "suspend", "insert")
         \/ BeginModeration(c, i, "unsuspend", "lift")
  PROVE  Located'
<1>1. ASSUME NEW o \in Clients PROVE Fits([req[o] EXCEPT !.alone = FALSE])
  BY DEF Located, Fits, Requests
<1>2. ASSUME NEW o \in Clients, o # c
      PROVE  req'[o] \in {req[o], [req[o] EXCEPT !.alone = FALSE]}
  BY <1>2 DEF BeginModeration
<1>3. \E a \in BOOLEAN : req'[c] \in {Moderating("suspend", "insert", i, a),
                                     Moderating("unsuspend", "lift", i, a)}
  BY DEF BeginModeration, Moderating
<1>4. \A o \in Clients : Fits(req'[o])
  BY <1>1, <1>2, <1>3, ModeratingFits DEF Located
<1>5. \A o \in Clients : req'[o] \in Requests
  BY <1>4 DEF Fits
<1>6. req' \in [Clients -> Requests]
  BY <1>5 DEF BeginModeration
<1>7. QED BY <1>4, <1>6 DEF Located

\* Every step leaves each request where its own handler put it.
LEMMA NextLocated ==
  ASSUME TypeOK, Located, [Next]_vars
  PROVE  Located'
<1>1. ASSUME NEW c \in Clients, NEW i \in Ids, SuspendUser(c, i) \/ UnsuspendUser(c, i)
      PROVE  Located'
  BY <1>1, BeginFits DEF SuspendUser, UnsuspendUser
<1>2. ASSUME NEW c \in Clients, NEW m \in Emails, Register(c, m)
      PROVE  Located'
  BY <1>2, OneFits, RegisteringFits DEF Register, Registering
<1>3. ASSUME NEW c \in Clients, NEW i \in Ids,
             ResendVerification(c, i) \/ VerifyEmail(c, i) \/ UploadAvatar(c, i)
      PROVE  Located'
  BY <1>3, OneFits, ServingFits
     DEF ResendVerification, VerifyEmail, UploadAvatar, Begin, Serving, Located
<1>4. ASSUME NEW c \in Clients, CreateUser(c)
      PROVE  Located'
  BY <1>4, OneFits, ServingFits, AnswerFits DEF CreateUser, Serving
<1>5. ASSUME NEW c \in Clients, Put(c)
      PROVE  Located'
  <2>1. CASE req' = [req EXCEPT ![c].pc = "profile", ![c].obj = NextObject]
    <3> DEFINE r == [req[c] EXCEPT !.pc = "profile", !.obj = NextObject]
    <3>1. IsFiniteSet(1..MaxObjects) /\ objects \in SUBSET (1..MaxObjects)
      BY FS_Interval, AccountBounds DEF TypeOK
    <3>2. IsFiniteSet(objects)
      BY <3>1, FS_Subset
    <3>3. NextObject \in 0..MaxObjects
      BY <1>5, <3>2, FS_CardinalityType, AccountBounds DEF Put, NextObject
    <3>4. Fits(req[c]) /\ req[c].pc = "put"
      BY <1>5 DEF Located, Put, At
    <3>5. Fits(r)
      BY <3>3, <3>4 DEF Fits, Requests, PCs
    <3>6. req' = [req EXCEPT ![c] = r]
      BY <2>1
    <3> HIDE DEF r
    <3>7. QED BY <3>5, <3>6, OneFits
  <2>2. QED BY <1>5, <2>1, AnswerFits DEF Put
<1>6. ASSUME NEW c \in Clients, Go(c, "status"), req[c].pc \in {"insert", "lift"}
      PROVE  Located'
  <2> DEFINE r == [req[c] EXCEPT !.pc = "status"]
  <2>1. Fits(r)
    BY <1>6 DEF Located, Fits, Requests, PCs, Moderations
  <2>2. req' = [req EXCEPT ![c] = r]
    BY <1>6 DEF Go
  <2> HIDE DEF r
  <2>3. QED BY <2>1, <2>2, OneFits
<1>7. ASSUME NEW c \in Clients, Reply(c) \/ Crash(c)
      PROVE  Located'
  BY <1>7, OneFits, IdleFits DEF Reply, Crash
<1>8. CASE UNCHANGED req
  BY <1>8 DEF Located
<1>9. ASSUME NEW c \in Clients,
             \/ SendVerification(c) \/ MarkEmailVerified(c) \/ PersistAvatar(c)
             \/ InsertSuspension(c) \/ LiftSuspensions(c) \/ SetStatus(c)
      PROVE  Located'
  BY <1>6, <1>9, AnswerFits
     DEF SendVerification, MarkEmailVerified, PersistAvatar, InsertSuspension,
         LiftSuspensions, SetStatus, At
<1>10. QED
  BY <1>1, <1>2, <1>3, <1>4, <1>5, <1>7, <1>8, <1>9
     DEF Next, vars, TokenExpires, UpdateSettings, DeleteAccount, SuspensionEnds

-----------------------------------------------------------------------------
(***************************************************************************)
(* Tokens and types                                                        *)
(***************************************************************************)
\* The live tokens are finitely many, and an account has some of them.
LEMMA OutstandingFinite ==
  ASSUME NEW tk \in [Ids -> 0..MaxTokens]
  PROVE  /\ IsFiniteSet(Outstanding(tk))
         /\ Cardinality(Outstanding(tk)) \in Nat
         /\ \A i \in Ids : tk[i] <= Cardinality(Outstanding(tk))
<1> DEFINE A == Ids \X (1..MaxTokens)
<1>1. IsFiniteSet(Ids) /\ IsFiniteSet(1..MaxTokens)
  BY FS_Interval, AccountBounds DEF Ids
<1>2. IsFiniteSet(A)
  BY <1>1, FS_Product
<1>3. Outstanding(tk) \in SUBSET A
  BY DEF Outstanding
<1> HIDE DEF A
<1>4. IsFiniteSet(Outstanding(tk)) /\ Cardinality(Outstanding(tk)) \in Nat
  BY <1>2, <1>3, FS_Subset, FS_CardinalityType
<1>5. ASSUME NEW i \in Ids PROVE tk[i] <= Cardinality(Outstanding(tk))
  <2> DEFINE B == {i} \X (1..tk[i])
  <2>1. tk[i] \in Nat /\ tk[i] <= MaxTokens
    BY AccountBounds
  <2>2. IsFiniteSet({i}) /\ Cardinality({i}) = 1
    BY FS_Singleton
  <2>3. IsFiniteSet(1..tk[i]) /\ Cardinality(1..tk[i]) = tk[i]
    BY <2>1, FS_Interval
  <2>4. IsFiniteSet(B) /\ Cardinality(B) = tk[i]
    <3>1. /\ IsFiniteSet(B)
          /\ Cardinality(B) = Cardinality({i}) * Cardinality(1..tk[i])
      BY <2>2, <2>3, FS_Product
    <3>2. Cardinality({i}) * Cardinality(1..tk[i]) = 1 * tk[i]
      BY <2>2, <2>3
    <3>3. 1 * tk[i] = tk[i]
      BY <2>1
    <3>4. QED BY <3>1, <3>2, <3>3
  <2>5. B \in SUBSET Outstanding(tk)
    BY <2>1, AccountBounds DEF Outstanding
  <2> HIDE DEF B
  <2>6. Cardinality(B) <= Cardinality(Outstanding(tk))
    BY <1>4, <2>5, FS_Subset
  <2>7. QED BY <2>1, <2>4, <2>6
<1>6. QED BY <1>4, <1>5

\* Storing a token adds one to them, and a token that goes takes one away.
LEMMA OutstandingMoves ==
  ASSUME NEW tk \in [Ids -> 0..MaxTokens], NEW i \in Ids
  PROVE  /\ tk[i] < MaxTokens =>
              Cardinality(Outstanding([tk EXCEPT ![i] = @ + 1]))
                = Cardinality(Outstanding(tk)) + 1
         /\ tk[i] > 0 =>
              Cardinality(Outstanding([tk EXCEPT ![i] = @ - 1]))
                = Cardinality(Outstanding(tk)) - 1
<1>0. tk[i] \in Nat /\ MaxTokens \in Nat
  BY AccountBounds
<1>1. ASSUME tk[i] < MaxTokens
      PROVE  Cardinality(Outstanding([tk EXCEPT ![i] = @ + 1]))
                = Cardinality(Outstanding(tk)) + 1
  <2>1. Outstanding([tk EXCEPT ![i] = @ + 1]) = Outstanding(tk) \cup {<<i, tk[i] + 1>>}
    BY <1>0, <1>1 DEF Outstanding
  <2>2. <<i, tk[i] + 1>> \notin Outstanding(tk)
    BY <1>0 DEF Outstanding
  <2>3. QED BY <2>1, <2>2, OutstandingFinite, FS_AddElement
<1>2. ASSUME tk[i] > 0
      PROVE  Cardinality(Outstanding([tk EXCEPT ![i] = @ - 1]))
                = Cardinality(Outstanding(tk)) - 1
  <2>1. Outstanding([tk EXCEPT ![i] = @ - 1]) = Outstanding(tk) \ {<<i, tk[i]>>}
    BY <1>0, <1>2 DEF Outstanding
  <2>2. <<i, tk[i]>> \in Outstanding(tk)
    BY <1>0, <1>2 DEF Outstanding
  <2>3. QED BY <2>1, <2>2, OutstandingFinite, FS_RemoveElement
<1>3. QED BY <1>1, <1>2

\* A token is counted once while it lives and once when it opens the update.
LEMMA NextTokens ==
  ASSUME TypeOK, Located, TokensSingleUse, [Next]_vars
  PROVE  /\ tokens' \in [Ids -> 0..MaxTokens]
         /\ issued' \in 0..MaxTokens /\ used' \in 0..MaxTokens
         /\ TokensSingleUse'
<1> DEFINE Good == /\ tokens' \in [Ids -> 0..MaxTokens]
                   /\ issued' \in 0..MaxTokens /\ used' \in 0..MaxTokens
                   /\ TokensSingleUse'
<1> DEFINE n == Cardinality(Outstanding(tokens))
<1>0. /\ tokens \in [Ids -> 0..MaxTokens] /\ MaxTokens \in Nat
      /\ issued \in 0..MaxTokens /\ used \in 0..MaxTokens
      /\ used + n <= issued
  BY AccountBounds DEF TypeOK, TokensSingleUse
<1>1. n \in Nat /\ \A i \in Ids : tokens[i] <= n
  BY <1>0, OutstandingFinite
<1>2. \A i \in Ids : /\ tokens[i] \in 0..MaxTokens
                     /\ tokens[i] + used <= issued
  BY <1>0, <1>1
<1>3. ASSUME NEW i \in Ids, tokens' = [tokens EXCEPT ![i] = @ + 1],
             issued < MaxTokens, issued' = issued + 1, used' = used
      PROVE  Good
  <2>1. tokens[i] < MaxTokens
    BY <1>0, <1>2, <1>3
  <2>2. Cardinality(Outstanding(tokens')) = n + 1
    BY <1>0, <1>3, <2>1, OutstandingMoves
  <2>3. tokens' \in [Ids -> 0..MaxTokens]
    BY <1>0, <1>2, <1>3, <2>1
  <2>4. issued' \in 0..MaxTokens /\ used' \in 0..MaxTokens
    BY <1>0, <1>3
  <2>5. used + (n + 1) <= issued + 1
    BY <1>0, <1>1
  <2>6. QED BY <1>3, <2>2, <2>3, <2>4, <2>5 DEF TokensSingleUse
<1>4. ASSUME NEW i \in Ids, tokens[i] > 0, tokens' = [tokens EXCEPT ![i] = @ - 1],
             issued' = issued, used' = used \/ used' = used + 1
      PROVE  Good
  <2>1. Cardinality(Outstanding(tokens')) = n - 1
    BY <1>0, <1>4, OutstandingMoves
  <2>2. tokens' \in [Ids -> 0..MaxTokens]
    BY <1>0, <1>2, <1>4
  <2>3. used + 1 <= MaxTokens
    BY <1>0, <1>2, <1>4
  <2>4. issued' \in 0..MaxTokens /\ used' \in 0..MaxTokens
    BY <1>0, <1>4, <2>3
  <2>5. used + (n - 1) <= issued /\ (used + 1) + (n - 1) <= issued
    BY <1>0, <1>1
  <2>6. QED BY <1>4, <2>1, <2>2, <2>4, <2>5 DEF TokensSingleUse
<1>5. CASE UNCHANGED tokenVars
  BY <1>0, <1>5 DEF tokenVars, TokensSingleUse
<1>6. ASSUME NEW c \in Clients, SendVerification(c) PROVE Good
  <2>1. req[c].id \in Ids
    BY <1>6 DEF SendVerification, At, Located, Fits
  <2>2. QED BY <1>0, <1>3, <1>6, <2>1 DEF SendVerification, TokensSingleUse
<1>7. ASSUME NEW c \in Clients, NEW i \in Ids, VerifyEmail(c, i) PROVE Good
  BY <1>4, <1>7 DEF VerifyEmail
<1>8. ASSUME NEW i \in Ids, TokenExpires(i) PROVE Good
  BY <1>4, <1>8 DEF TokenExpires
<1>9. QED
  BY <1>5, <1>6, <1>7, <1>8
     DEF Next, vars, Register, ResendVerification, UploadAvatar, SuspendUser,
         UnsuspendUser, CreateUser, MarkEmailVerified, Put, PersistAvatar,
         InsertSuspension, LiftSuspensions, SetStatus, Reply, Crash,
         UpdateSettings, DeleteAccount, SuspensionEnds

\* Every step keeps the types.
LEMMA NextType ==
  ASSUME TypeOK, Located, TokensSingleUse, [Next]_vars
  PROVE  TypeOK'
<1>0. /\ \A c \in Clients : Fits(req[c])
      /\ faults \in 0..MaxFaults /\ MaxFaults \in Nat
  BY AccountBounds DEF TypeOK, Located
<1>1. /\ tokens' \in [Ids -> 0..MaxTokens] /\ issued' \in 0..MaxTokens
      /\ used' \in 0..MaxTokens
  BY NextTokens
<1>2. req' \in [Clients -> Requests]
  BY NextLocated DEF Located
<1>3. Fault \/ NoFault => faults' \in 0..MaxFaults
  BY <1>0 DEF Fault, NoFault
<1>4. ASSUME UNCHANGED <<userVars, objects, banVars>>, faults' \in 0..MaxFaults
      PROVE  TypeOK'
  BY <1>1, <1>2, <1>4 DEF TypeOK, userVars, banVars, Requests
<1>5. ASSUME NEW c \in Clients, CreateUser(c) PROVE TypeOK'
  <2>1. /\ row' \in [Ids -> {"none", "live", "gone"}]
        /\ email' \in [Ids -> Emails \cup {NoEmail}]
        /\ settings' \in [Ids -> {"none", "default", "custom"}]
    <3>1. req[c].email \in Emails \cup {NoEmail}
      BY <1>0 DEF Fits, Requests
    <3>2. CASE UNCHANGED <<row, email, settings>>
      BY <3>2 DEF TypeOK
    <3>3. CASE /\ row' = [row EXCEPT ![NextId] = "live"]
               /\ email' = [email EXCEPT ![NextId] = req[c].email]
               /\ settings' = [settings EXCEPT ![NextId] = "default"]
      BY <3>1, <3>3 DEF TypeOK
    <3>4. QED BY <1>5, <3>2, <3>3 DEF CreateUser
  <2>2. faults' \in 0..MaxFaults
    BY <1>3, <1>5 DEF CreateUser
  <2>3. QED
    BY <1>1, <1>2, <1>5, <2>1, <2>2 DEF CreateUser, TypeOK, banVars, Requests
<1>6. ASSUME NEW c \in Clients, MarkEmailVerified(c) PROVE TypeOK'
  <2>1. verified' \in [Ids -> BOOLEAN] /\ faults' \in 0..MaxFaults
    BY <1>3, <1>6 DEF MarkEmailVerified, TypeOK
  <2>2. QED
    BY <1>1, <1>2, <1>6, <2>1 DEF MarkEmailVerified, TypeOK, banVars, Requests
<1>7. ASSUME NEW c \in Clients, Put(c) PROVE TypeOK'
  <2>1. IsFiniteSet(1..MaxObjects) /\ objects \in SUBSET (1..MaxObjects)
    BY FS_Interval, AccountBounds DEF TypeOK
  <2>2. IsFiniteSet(objects)
    BY <2>1, FS_Subset
  <2>3. NextObject \in 1..MaxObjects
    BY <1>7, <2>2, FS_CardinalityType, AccountBounds DEF Put, NextObject
  <2>4. objects' \subseteq 1..MaxObjects
    BY <1>7, <2>1, <2>3 DEF Put
  <2>5. faults' \in 0..MaxFaults
    BY <1>3, <1>7 DEF Put
  <2>6. QED
    BY <1>1, <1>2, <1>7, <2>4, <2>5
       DEF Put, TypeOK, userVars, banVars, Requests
<1>8. ASSUME NEW c \in Clients, PersistAvatar(c) PROVE TypeOK'
  <2>1. avatar' \in [Ids -> 0..MaxObjects]
    BY <1>0, <1>8 DEF PersistAvatar, Fits, Requests, TypeOK
  <2>2. faults' \in 0..MaxFaults
    BY <1>3, <1>8 DEF PersistAvatar
  <2>3. QED
    BY <1>1, <1>2, <1>8, <2>1, <2>2 DEF PersistAvatar, TypeOK, banVars, Requests
<1>9. ASSUME NEW i \in Ids, UpdateSettings(i) \/ DeleteAccount(i) PROVE TypeOK'
  <2>1. /\ row' \in [Ids -> {"none", "live", "gone"}]
        /\ settings' \in [Ids -> {"none", "default", "custom"}]
    BY <1>9 DEF UpdateSettings, DeleteAccount, TypeOK
  <2>2. QED
    BY <1>0, <1>1, <1>2, <1>9, <2>1, ZenonT(60)
       DEF UpdateSettings, DeleteAccount, TypeOK, banVars, Requests
<1>10. ASSUME NEW c \in Clients, InsertSuspension(c) \/ LiftSuspensions(c)
       PROVE  TypeOK'
  <2>1. req[c].id \in Ids
    BY <1>0, <1>10 DEF InsertSuspension, LiftSuspensions, At, Fits
  <2>2. banned[req[c].id] \in 0..MaxSuspensions /\ MaxSuspensions \in Nat
    BY <2>1, AccountBounds DEF TypeOK
  <2>3. banned' \in [Ids -> 0..MaxSuspensions]
    <3> DEFINE i == req[c].id
    <3>1. /\ banned \in [Ids -> 0..MaxSuspensions] /\ i \in Ids
          /\ banned[i] \in 0..MaxSuspensions
      BY <2>1, <2>2 DEF TypeOK
    <3>2. CASE InsertSuspension(c)
      <4>1. banned' = banned \/ banned' = [banned EXCEPT ![i] = banned[i] + 1]
        BY <3>2 DEF InsertSuspension, banVars
      <4>2. banned[i] + 1 \in 0..MaxSuspensions
        BY <2>2, <3>2 DEF InsertSuspension
      <4> HIDE DEF i
      <4>3. QED BY <3>1, <4>1, <4>2
    <3>3. CASE LiftSuspensions(c)
      <4>1. \/ banned' = banned
            \/ banned' = [banned EXCEPT ![i] = IF granted THEN 0 ELSE banned[i]]
        BY <3>3 DEF LiftSuspensions
      <4>2. 0 \in 0..MaxSuspensions
        BY <2>2
      <4> HIDE DEF i
      <4>3. QED BY <3>1, <4>1, <4>2
    <3>4. QED BY <1>10, <3>2, <3>3
  <2>4. record' \in [Ids -> BOOLEAN] /\ granted' \in BOOLEAN
    BY <1>10 DEF InsertSuspension, LiftSuspensions, TypeOK, banVars
  <2>5. faults' \in 0..MaxFaults
    BY <1>3, <1>10 DEF InsertSuspension, LiftSuspensions
  <2>6. QED
    BY <1>1, <1>2, <1>10, <2>3, <2>4, <2>5
       DEF InsertSuspension, LiftSuspensions, TypeOK, userVars, Requests
<1>11. ASSUME NEW c \in Clients, SetStatus(c) PROVE TypeOK'
  <2>1. status' \in [Ids -> {"active", "suspended"}] /\ faults' \in 0..MaxFaults
    BY <1>3, <1>11 DEF SetStatus, TypeOK
  <2>2. QED
    BY <1>1, <1>2, <1>11, <2>1 DEF SetStatus, TypeOK, banVars, Requests
<1>12. ASSUME NEW i \in Ids, SuspensionEnds(i) PROVE TypeOK'
  <2>1. banned' \in [Ids -> 0..MaxSuspensions]
    <3>1. /\ banned \in [Ids -> 0..MaxSuspensions] /\ MaxSuspensions \in Nat
          /\ banned[i] > 0 /\ banned' = [banned EXCEPT ![i] = banned[i] - 1]
      BY <1>12, AccountBounds DEF SuspensionEnds, TypeOK
    <3>2. banned[i] - 1 \in 0..MaxSuspensions
      BY <3>1
    <3>3. QED BY <3>1, <3>2
  <2>2. QED
    BY <1>0, <1>1, <1>2, <1>12, <2>1 DEF SuspensionEnds, TypeOK, userVars, Requests
<1>13. ASSUME NEW c \in Clients, \E m \in Emails : Register(c, m) PROVE TypeOK'
  BY <1>3, <1>4, <1>13 DEF Register
<1>14. ASSUME NEW c \in Clients, NEW i \in Ids,
              \/ ResendVerification(c, i) \/ VerifyEmail(c, i)
              \/ UploadAvatar(c, i) \/ SuspendUser(c, i) \/ UnsuspendUser(c, i)
       PROVE TypeOK'
  BY <1>3, <1>4, <1>14
     DEF ResendVerification, VerifyEmail, UploadAvatar, SuspendUser,
         UnsuspendUser, BeginModeration, Begin
<1>15. ASSUME NEW c \in Clients, SendVerification(c) \/ Reply(c) \/ Crash(c)
       PROVE  TypeOK'
  BY <1>3, <1>4, <1>15 DEF SendVerification, Reply, Crash
<1>16. ASSUME NEW i \in Ids, TokenExpires(i) PROVE TypeOK'
  BY <1>0, <1>4, <1>16 DEF TokenExpires
<1>17. CASE UNCHANGED vars
  BY <1>0, <1>4, <1>17 DEF vars
<1>18. QED
  BY <1>5, <1>6, <1>7, <1>8, <1>9, <1>10, <1>11, <1>12, <1>13, <1>14, <1>15,
     <1>16, <1>17
     DEF Next

-----------------------------------------------------------------------------
(***************************************************************************)
(* Addresses, avatars, suspensions                                         *)
(***************************************************************************)
\* idx_users_email_active: an insert meets no other live row of its address.
LEMMA NextAddress ==
  ASSUME TypeOK, OneLivePerAddress, [Next]_vars
  PROVE  OneLivePerAddress'
<1>0. /\ row \in [Ids -> {"none", "live", "gone"}]
      /\ email \in [Ids -> Emails \cup {NoEmail}]
  BY DEF TypeOK
<1>1. CASE UNCHANGED <<row, email>>
  BY <1>1 DEF OneLivePerAddress
<1>2. ASSUME NEW c \in Clients, CreateUser(c) PROVE OneLivePerAddress'
  <2>1. CASE /\ NextId \in Ids /\ Holders(req[c].email) = {}
             /\ row' = [row EXCEPT ![NextId] = "live"]
             /\ email' = [email EXCEPT ![NextId] = req[c].email]
    <3>1. \A i \in Ids : i # NextId => row'[i] = row[i] /\ email'[i] = email[i]
      BY <1>0, <2>1
    <3>2. email'[NextId] = req[c].email
      BY <1>0, <2>1
    <3>3. \A i \in Ids : row[i] = "live" => email[i] # req[c].email
      BY <2>1 DEF Holders
    <3>4. QED BY <3>1, <3>2, <3>3 DEF OneLivePerAddress
  <2>2. QED BY <1>1, <1>2, <2>1 DEF CreateUser, AddressTaken
<1>3. ASSUME NEW i \in Ids, DeleteAccount(i) PROVE OneLivePerAddress'
  BY <1>0, <1>3 DEF DeleteAccount, OneLivePerAddress
<1>4. QED
  BY <1>1, <1>2, <1>3, ZenonT(60)
     DEF Next, vars, userVars, Register, ResendVerification, VerifyEmail,
         UploadAvatar, SuspendUser, UnsuspendUser, SendVerification,
         MarkEmailVerified, Put, PersistAvatar, InsertSuspension,
         LiftSuspensions, SetStatus, Reply, Crash, TokenExpires,
         UpdateSettings, SuspensionEnds

\* The request of one client after a step of it that answers or restarts.
LEMMA AnswerPc ==
  ASSUME Located, NEW c \in Clients, NEW ok, Answer(c, ok)
  PROVE  /\ \A o \in Clients \ {c} : req'[o] = req[o]
         /\ req'[c].pc \in {"idle", "done"}
<1>1. \A o \in Clients \ {c} : req'[o] = req[o]
  BY DEF Answer, Located
<1>2. req'[c].pc \in {"idle", "done"}
  BY DEF Answer, Located, Fits, Requests, Idle
<1>3. QED BY <1>1, <1>2

\* The steps of the request of client c.
Acts(c) ==
  \/ \E m \in Emails : Register(c, m)
  \/ \E i \in Ids : \/ ResendVerification(c, i) \/ VerifyEmail(c, i)
                    \/ UploadAvatar(c, i)
                    \/ SuspendUser(c, i) \/ UnsuspendUser(c, i)
  \/ CreateUser(c) \/ SendVerification(c) \/ MarkEmailVerified(c)
  \/ Put(c) \/ PersistAvatar(c)
  \/ InsertSuspension(c) \/ LiftSuspensions(c) \/ SetStatus(c)
  \/ Reply(c) \/ Crash(c)

\* They leave the other requests where they are, and who they are about.
Moves(c) == \A o \in Clients \ {c} :
  /\ req'[o].pc = req[o].pc /\ req'[o].op = req[o].op
  /\ req'[o].id = req[o].id /\ req'[o].obj = req[o].obj
  /\ req'[o].ok = req[o].ok /\ (req'[o].alone => req[o].alone)

LEMMA ActsMoves ==
  ASSUME Located, NEW c \in Clients, Acts(c)
  PROVE  Moves(c)
<1>0. req \in [Clients -> Requests]
  BY DEF Located
<1>1. ASSUME NEW r, req' = [req EXCEPT ![c] = r] PROVE Moves(c)
  BY <1>0, <1>1 DEF Moves
<1>2. ASSUME NEW i, NEW op, NEW pc, BeginModeration(c, i, op, pc) PROVE Moves(c)
  BY <1>0, <1>2 DEF BeginModeration, Moves, Requests
<1>3. ASSUME NEW ok, Answer(c, ok) PROVE Moves(c)
  BY <1>0, <1>3 DEF Answer, Moves
<1>4. CASE UNCHANGED req
  BY <1>4 DEF Moves
<1>5. ASSUME Put(c) PROVE Moves(c)
  BY <1>0, <1>3, <1>5 DEF Put, Moves
<1>6. ASSUME InsertSuspension(c) \/ LiftSuspensions(c) PROVE Moves(c)
  BY <1>0, <1>3, <1>6 DEF InsertSuspension, LiftSuspensions, Go, Moves
<1>7. QED
  BY <1>1, <1>2, <1>3, <1>4, <1>5, <1>6
     DEF Acts, Register, ResendVerification, VerifyEmail, UploadAvatar, Begin,
         SuspendUser, UnsuspendUser, CreateUser, SendVerification,
         MarkEmailVerified, PersistAvatar, SetStatus, Reply, Crash

\* Where the step of a request leads it.
LEMMA ActsLeads ==
  ASSUME Located, NEW c \in Clients, Acts(c)
  PROVE  /\ req'[c].pc = "profile" => Put(c) /\ req'[c].obj \in objects'
         /\ req'[c].pc = "status" =>
              /\ InsertSuspension(c) \/ LiftSuspensions(c)
              /\ req' = [req EXCEPT ![c].pc = "status"]
         /\ req'[c].pc = "done" =>
              \/ SetStatus(c)
              \/ ~req'[c].ok
<1>0. req \in [Clients -> Requests] /\ Fits(req[c]) /\ "profile" \notin {"idle", "done"}
  BY DEF Located
<1>1. ASSUME NEW ok, Answer(c, ok) PROVE req'[c].pc \in {"idle", "done"}
  BY <1>1, AnswerPc
<1>2. CASE \/ \E m \in Emails : Register(c, m)
           \/ \E i \in Ids : \/ ResendVerification(c, i) \/ VerifyEmail(c, i)
                             \/ UploadAvatar(c, i)
                             \/ SuspendUser(c, i) \/ UnsuspendUser(c, i)
  <2>1. req'[c].pc \in {"create", "token", "mark", "put", "insert", "lift", "idle"}
    BY <1>0, <1>2, ZenonT(60)
       DEF Register, ResendVerification, VerifyEmail, UploadAvatar, Begin,
           SuspendUser, UnsuspendUser, BeginModeration, Idle, At
  <2>2. QED BY <2>1
<1>3. CASE CreateUser(c) \/ SendVerification(c) \/ MarkEmailVerified(c) \/ PersistAvatar(c)
  <2>1. req[c].op \notin Moderations
    BY <1>0, <1>3
       DEF CreateUser, SendVerification, MarkEmailVerified, PersistAvatar, At, Fits
  <2>2. ASSUME NEW ok, Answer(c, ok) PROVE req'[c].pc = "idle"
    BY <1>0, <2>1, <2>2 DEF Answer, Idle
  <2>3. CASE \E i : req' = [req EXCEPT ![c] = [Idle EXCEPT !.op = "resend",
                                                 !.pc = "token", !.id = i]]
    BY <1>0, <2>3 DEF Idle
  <2>4. QED
    BY <1>3, <2>2, <2>3
       DEF CreateUser, SendVerification, MarkEmailVerified, PersistAvatar
<1>4. CASE Put(c)
  <2>1. req[c].op \notin Moderations
    BY <1>0, <1>4 DEF Put, At, Fits
  <2>2. CASE Answer(c, FALSE)
    BY <1>0, <2>1, <2>2 DEF Answer, Idle
  <2>3. CASE /\ objects' = objects \cup {NextObject}
             /\ req' = [req EXCEPT ![c].pc = "profile", ![c].obj = NextObject]
    <3>1. req'[c].pc = "profile" /\ req'[c].obj = NextObject
      BY <1>0, <2>3 DEF Requests
    <3>2. QED BY <1>4, <2>3, <3>1
  <2>4. QED BY <1>4, <2>2, <2>3 DEF Put
<1>5. CASE InsertSuspension(c) \/ LiftSuspensions(c)
  <2>1. req[c].op \in Moderations
    BY <1>0, <1>5 DEF InsertSuspension, LiftSuspensions, At, Fits
  <2>2. CASE Go(c, "status")
    BY <1>0, <1>5, <2>2 DEF Go, Requests
  <2>3. CASE Answer(c, FALSE)
    BY <1>0, <1>5, <2>1, <2>3 DEF Answer, Requests
  <2>4. QED BY <1>5, <2>2, <2>3 DEF InsertSuspension, LiftSuspensions
<1>6. CASE SetStatus(c)
  BY <1>1, <1>6 DEF SetStatus
<1>7. CASE Reply(c) \/ Crash(c)
  BY <1>0, <1>7 DEF Reply, Crash, Idle
<1>8. QED BY <1>2, <1>3, <1>4, <1>5, <1>6, <1>7 DEF Acts

\* A step is one of a request, or of the clock, a settings update, a deletion.
LEMMA NextActs ==
  ASSUME [Next]_vars
  PROVE  \/ \E c \in Clients : Acts(c)
         \/ \E i \in Ids : TokenExpires(i) \/ UpdateSettings(i) \/ DeleteAccount(i)
         \/ \E i \in Ids : SuspensionEnds(i)
         \/ UNCHANGED vars
BY DEF Next, Acts

\* An avatar is stored before its URL is written, and never removed.
LEMMA NextAvatar ==
  ASSUME TypeOK, Located, Uploaded, AvatarResolves, [Next]_vars
  PROVE  Uploaded' /\ AvatarResolves'
<1>0. avatar \in [Ids -> 0..MaxObjects]
  BY DEF TypeOK
<1>1. objects \subseteq objects'
  BY NextActs, ZenonT(60)
     DEF Acts, vars, Register, ResendVerification, VerifyEmail, UploadAvatar,
         SuspendUser, UnsuspendUser, CreateUser, SendVerification,
         MarkEmailVerified, Put, PersistAvatar, InsertSuspension,
         LiftSuspensions, SetStatus, Reply, Crash, TokenExpires,
         UpdateSettings, DeleteAccount, SuspensionEnds
<1>2. CASE UNCHANGED <<req, avatar>>
  BY <1>1, <1>2 DEF Uploaded, AvatarResolves
<1>3. ASSUME NEW c \in Clients, Acts(c) PROVE Uploaded'
  BY <1>1, <1>3, ActsMoves, ActsLeads DEF Uploaded, Moves
<1>4. ASSUME NEW c \in Clients, PersistAvatar(c) PROVE AvatarResolves'
  BY <1>0, <1>1, <1>4 DEF PersistAvatar, Uploaded, AvatarResolves, At
<1>5. ASSUME UNCHANGED avatar PROVE AvatarResolves'
  BY <1>1, <1>5 DEF AvatarResolves
<1>6. ASSUME NEW c \in Clients, Acts(c) PROVE AvatarResolves'
  BY <1>4, <1>5, <1>6
     DEF Acts, userVars, Register, ResendVerification, VerifyEmail,
         UploadAvatar, SuspendUser, UnsuspendUser, CreateUser,
         SendVerification, MarkEmailVerified, Put, InsertSuspension,
         LiftSuspensions, SetStatus, Reply, Crash
<1>7. QED
  BY <1>2, <1>3, <1>6, NextActs
     DEF vars, userVars, TokenExpires, UpdateSettings, DeleteAccount,
         SuspensionEnds

\* The record of a suspension comes before the status, and is never removed.
LEMMA NextRecord ==
  ASSUME TypeOK, Located, Recorded, SuspendedHasRecord, [Next]_vars
  PROVE  Recorded' /\ SuspendedHasRecord'
<1>0. /\ status \in [Ids -> {"active", "suspended"}] /\ record \in [Ids -> BOOLEAN]
      /\ req \in [Clients -> Requests] /\ \A c \in Clients : Fits(req[c])
  BY DEF TypeOK, Located
<1>1. \A i \in Ids : record[i] => record'[i]
  BY <1>0, NextActs, ZenonT(60)
     DEF Acts, vars, banVars, Register, ResendVerification, VerifyEmail,
         UploadAvatar, SuspendUser, UnsuspendUser, CreateUser,
         SendVerification, MarkEmailVerified, Put, PersistAvatar,
         InsertSuspension, LiftSuspensions, SetStatus, Reply, Crash,
         TokenExpires, UpdateSettings, DeleteAccount, SuspensionEnds
<1>2. ASSUME UNCHANGED status PROVE SuspendedHasRecord'
  BY <1>1, <1>2 DEF SuspendedHasRecord
<1>3. CASE UNCHANGED <<req, status>>
  BY <1>0, <1>1, <1>2, <1>3 DEF Recorded, Fits
<1>4. ASSUME NEW c \in Clients, Acts(c) PROVE Recorded'
  <2>1. ASSUME NEW o \in Clients, o # c, req'[o].pc = "status", req'[o].op = "suspend"
        PROVE  record'[req'[o].id]
    BY <1>0, <1>1, <1>4, <2>1, ActsMoves DEF Moves, Recorded, Fits
  <2>2. ASSUME req'[c].pc = "status", req'[c].op = "suspend"
        PROVE  record'[req'[c].id]
    <3>1. /\ InsertSuspension(c) \/ LiftSuspensions(c)
          /\ req' = [req EXCEPT ![c].pc = "status"]
      BY <1>4, <2>2, ActsLeads
    <3>2. req'[c].op = req[c].op /\ req'[c].id = req[c].id
      BY <1>0, <3>1 DEF Requests
    <3>3. InsertSuspension(c) /\ req[c].id \in Ids
      BY <1>0, <2>2, <3>1, <3>2 DEF LiftSuspensions, InsertSuspension, At, Fits
    <3>4. ~Answer(c, FALSE)
      BY <2>2, AnswerPc
    <3>5. QED BY <1>0, <3>2, <3>3, <3>4 DEF InsertSuspension
  <2>3. QED BY <2>1, <2>2 DEF Recorded
<1>5. ASSUME NEW c \in Clients, SetStatus(c) PROVE SuspendedHasRecord'
  <2>1. UNCHANGED record /\ req[c].id \in Ids
    BY <1>0, <1>5 DEF SetStatus, banVars, At, Fits
  <2>2. QED
    BY <1>0, <1>5, <2>1 DEF SetStatus, Recorded, SuspendedHasRecord, At
<1>6. ASSUME NEW c \in Clients, Acts(c) PROVE SuspendedHasRecord'
  BY <1>2, <1>5, <1>6
     DEF Acts, userVars, Register, ResendVerification, VerifyEmail,
         UploadAvatar, SuspendUser, UnsuspendUser, CreateUser,
         SendVerification, MarkEmailVerified, Put, PersistAvatar,
         InsertSuspension, LiftSuspensions, Reply, Crash
<1>7. QED
  BY <1>3, <1>4, <1>6, NextActs
     DEF vars, userVars, TokenExpires, UpdateSettings, DeleteAccount,
         SuspensionEnds

\* Once taken up, a moderation keeps its operation, its account and whether
\* another overlapped it.
LEMMA ActsKeeps ==
  ASSUME Located, NEW c \in Clients, Acts(c), req'[c].op \in Moderations
  PROVE  \/ \E i \in Ids : \/ BeginModeration(c, i, "suspend", "insert")
                         \/ BeginModeration(c, i, "unsuspend", "lift")
         \/ /\ req'[c].op = req[c].op /\ req'[c].id = req[c].id
            /\ req'[c].alone = req[c].alone
<1> DEFINE Kept == /\ req'[c].op = req[c].op /\ req'[c].id = req[c].id
                   /\ req'[c].alone = req[c].alone
<1>0. req \in [Clients -> Requests]
  BY DEF Located
<1>1. ASSUME NEW r, req' = [req EXCEPT ![c] = r], r.op \notin Moderations PROVE FALSE
  BY <1>0, <1>1
<1>2. ASSUME NEW ok, Answer(c, ok) PROVE Kept
  BY <1>0, <1>2 DEF Answer, Requests, Idle, Moderations
<1>3. CASE \/ \E m \in Emails : Register(c, m)
           \/ \E i \in Ids : ResendVerification(c, i) \/ UploadAvatar(c, i)
           \/ Reply(c) \/ Crash(c)
  <2>1. ASSUME NEW m \in Emails, Register(c, m) PROVE FALSE
    BY <1>0, <2>1 DEF Register, Registering, Idle, Moderations
  <2>2. ASSUME NEW i \in Ids, ResendVerification(c, i) \/ UploadAvatar(c, i)
        PROVE  FALSE
    BY <1>0, <2>2 DEF ResendVerification, UploadAvatar, Begin, Idle, Moderations
  <2>3. ASSUME Reply(c) \/ Crash(c) PROVE FALSE
    BY <1>0, <2>3 DEF Reply, Crash, Idle, Moderations
  <2>4. QED BY <1>3, <2>1, <2>2, <2>3
<1>4. CASE \E i \in Ids : VerifyEmail(c, i)
  BY <1>0, <1>4, ZenonT(60) DEF VerifyEmail, Begin, Idle, Moderations
<1>5. CASE \E i \in Ids : SuspendUser(c, i) \/ UnsuspendUser(c, i)
  BY <1>5 DEF SuspendUser, UnsuspendUser
<1>6. CASE CreateUser(c)
  BY <1>0, <1>2, <1>6, ZenonT(60) DEF CreateUser, Idle, Moderations
<1>7. CASE Put(c)
  <2>1. CASE req' = [req EXCEPT ![c].pc = "profile", ![c].obj = NextObject]
    BY <1>0, <2>1 DEF Requests
  <2>2. QED BY <1>2, <1>7, <2>1 DEF Put
<1>8. CASE InsertSuspension(c) \/ LiftSuspensions(c)
  <2>1. CASE Go(c, "status")
    BY <1>0, <2>1 DEF Go, Requests
  <2>2. QED BY <1>2, <1>8, <2>1 DEF InsertSuspension, LiftSuspensions
<1>9. QED
  BY <1>2, <1>3, <1>4, <1>5, <1>6, <1>7, <1>8
     DEF Acts, SendVerification, MarkEmailVerified, PersistAvatar, SetStatus

\* Taking a moderation up tells it, and every other of the account, of each
\* other.
LEMMA NextAlone ==
  ASSUME Located, Alone, [Next]_vars
  PROVE  Alone'
<1>0. req \in [Clients -> Requests]
  BY DEF Located
<1>1. CASE UNCHANGED req
  BY <1>1 DEF Alone, Moderates
<1>2. ASSUME NEW c \in Clients, NEW i \in Ids, NEW op \in Moderations, NEW pc,
             BeginModeration(c, i, op, pc)
      PROVE  Alone'
  <2>1. /\ req'[c].op = op /\ req'[c].id = i
        /\ req'[c].alone <=> \A o \in Clients \ {c} : ~Moderates(o, i)
    BY <1>2 DEF BeginModeration, Idle
  <2>2. ASSUME NEW o \in Clients, o # c
        PROVE  /\ req'[o].op = req[o].op /\ req'[o].id = req[o].id
               /\ Moderates(o, i) => ~req'[o].alone
               /\ req'[o].alone => req[o].alone
    BY <1>0, <1>2, <2>2 DEF BeginModeration, Requests
  <2>3. QED BY <2>1, <2>2 DEF Alone, Moderates
<1>3. ASSUME NEW c \in Clients, Acts(c) PROVE Alone'
  <2>1. Moves(c)
    BY <1>3, ActsMoves
  <2>2. CASE req'[c].op \notin Moderations
    BY <2>1, <2>2 DEF Moves, Alone, Moderates
  <2>3. CASE /\ req'[c].op = req[c].op /\ req'[c].id = req[c].id
             /\ req'[c].alone = req[c].alone
    BY <2>1, <2>3 DEF Moves, Alone, Moderates
  <2>4. QED BY <1>2, <1>3, <2>2, <2>3, ActsKeeps DEF Moderations
<1>4. QED
  BY <1>1, <1>3, NextActs
     DEF vars, TokenExpires, UpdateSettings, DeleteAccount, SuspensionEnds

\* A step of another request, or of the clock, leaves the account of a
\* moderation alone.
Spared(i) == status'[i] = status[i] /\ (banned[i] = 0 => banned'[i] = 0)

LEMMA OthersSpare ==
  ASSUME TypeOK, Located, Alone, NEW c \in Clients, NEW i \in Ids, Moderates(c, i),
         req[c].alone, NEW o \in Clients, o # c, Acts(o)
  PROVE  Spared(i)
<1>0. /\ status \in [Ids -> {"active", "suspended"}]
      /\ banned \in [Ids -> 0..MaxSuspensions]
      /\ ~Moderates(o, i) /\ Fits(req[o])
  BY DEF TypeOK, Alone, Located
<1>1. CASE UNCHANGED <<status, banned>>
  BY <1>1 DEF Spared
<1>2. CASE InsertSuspension(o) \/ LiftSuspensions(o) \/ SetStatus(o)
  <2>1. req[o].op \in Moderations /\ req[o].id # i
    BY <1>0, <1>2
       DEF InsertSuspension, LiftSuspensions, SetStatus, At, Fits, Moderates
  <2>2. status'[i] = status[i] /\ banned'[i] = banned[i]
    BY <1>0, <1>2, <2>1
       DEF InsertSuspension, LiftSuspensions, SetStatus, userVars, banVars
  <2>3. QED BY <2>2 DEF Spared
<1>3. QED
  BY <1>1, <1>2
     DEF Acts, userVars, banVars, Register, ResendVerification, VerifyEmail,
         UploadAvatar, SuspendUser, UnsuspendUser, CreateUser,
         SendVerification, MarkEmailVerified, Put, PersistAvatar, Reply, Crash

\* A moderation that runs by itself does what it says.
LEMMA NextModeration ==
  ASSUME TypeOK, Located, Ungranted, Alone, Lifted, ModerationTakesEffect, [Next]_vars
  PROVE  Ungranted' /\ Lifted' /\ ModerationTakesEffect'
<1>0. /\ status \in [Ids -> {"active", "suspended"}]
      /\ banned \in [Ids -> 0..MaxSuspensions] /\ granted \in BOOLEAN
      /\ req \in [Clients -> Requests] /\ \A c \in Clients : Fits(req[c])
  BY DEF TypeOK, Located
<1>1. Ungranted'
  <2>1. CASE UNCHANGED <<banned, granted>>
    BY <2>1 DEF Ungranted
  <2>2. ASSUME NEW c \in Clients, InsertSuspension(c) \/ LiftSuspensions(c)
        PROVE  Ungranted'
    BY <1>0, <2>2 DEF InsertSuspension, LiftSuspensions, banVars, Ungranted
  <2>3. ASSUME NEW i \in Ids, SuspensionEnds(i) PROVE Ungranted'
    BY <1>0, <2>3 DEF SuspensionEnds, Ungranted
  <2>4. QED
    BY <2>1, <2>2, <2>3, NextActs, ZenonT(60)
       DEF Acts, vars, banVars, Register, ResendVerification, VerifyEmail,
           UploadAvatar, SuspendUser, UnsuspendUser, CreateUser,
           SendVerification, MarkEmailVerified, Put, PersistAvatar, SetStatus,
           Reply, Crash, TokenExpires, UpdateSettings, DeleteAccount
<1>2. ASSUME \A i \in Ids : Spared(i), UNCHANGED req
      PROVE  Lifted' /\ ModerationTakesEffect'
  <2>1. Lifted'
    BY <1>0, <1>2 DEF Lifted, Spared, At, Fits
  <2>2. ModerationTakesEffect'
    BY <1>0, <1>2 DEF ModerationTakesEffect, Spared, At, Fits
  <2>3. QED BY <2>1, <2>2
<1>3. ASSUME NEW i \in Ids, SuspensionEnds(i) PROVE \A j \in Ids : Spared(j)
  BY <1>0, <1>3 DEF SuspensionEnds, Spared, userVars
<1>4. ASSUME NEW c \in Clients, Acts(c), NEW o \in Clients, o # c,
             req'[o].pc \in {"status", "done"}, req'[o].alone
      PROVE  /\ Spared(req[o].id) /\ req[o].id \in Ids
             /\ req'[o].pc = req[o].pc /\ req'[o].op = req[o].op
             /\ req'[o].id = req[o].id /\ req'[o].ok = req[o].ok /\ req[o].alone
  <2>1. /\ req'[o].pc = req[o].pc /\ req'[o].op = req[o].op
        /\ req'[o].id = req[o].id /\ req'[o].ok = req[o].ok /\ req[o].alone
    BY <1>4, ActsMoves DEF Moves
  <2>2. PICK i \in Ids : i = req[o].id
    BY <1>0, <1>4, <2>1 DEF Fits
  <2>3. Moderates(o, i)
    BY <1>0, <1>4, <2>1, <2>2 DEF Fits, Moderates
  <2>4. Spared(i)
    BY <1>4, <2>1, <2>3, OthersSpare
  <2>5. QED BY <2>1, <2>2, <2>4
<1>5. ASSUME NEW c \in Clients, Acts(c) PROVE Lifted'
  <2>1. ASSUME NEW o \in Clients, o # c, req'[o].pc = "status",
               req'[o].op = "unsuspend", req'[o].alone
        PROVE  banned'[req'[o].id] = 0
    BY <1>4, <1>5, <2>1 DEF Lifted, At, Spared
  <2>2. ASSUME req'[c].pc = "status", req'[c].op = "unsuspend"
        PROVE  banned'[req'[c].id] = 0
    <3>1. /\ InsertSuspension(c) \/ LiftSuspensions(c)
          /\ req' = [req EXCEPT ![c].pc = "status"]
      BY <1>5, <2>2, ActsLeads
    <3>2. req'[c].op = req[c].op /\ req'[c].id = req[c].id
      BY <1>0, <3>1 DEF Requests
    <3>3. LiftSuspensions(c) /\ req[c].id \in Ids
      BY <1>0, <2>2, <3>1, <3>2 DEF LiftSuspensions, InsertSuspension, At, Fits
    <3>4. ~Answer(c, FALSE)
      BY <2>2, AnswerPc
    <3>5. QED BY <1>0, <3>2, <3>3, <3>4 DEF LiftSuspensions, Ungranted
  <2>3. QED BY <2>1, <2>2 DEF Lifted, At
<1>6. ASSUME NEW c \in Clients, Acts(c) PROVE ModerationTakesEffect'
  <2>1. ASSUME NEW o \in Clients, o # c, req'[o].pc = "done", req'[o].ok, req'[o].alone
        PROVE  /\ req'[o].op = "suspend" => status'[req'[o].id] = "suspended"
               /\ req'[o].op = "unsuspend" =>
                    status'[req'[o].id] = "active" /\ banned'[req'[o].id] = 0
    BY <1>4, <1>6, <2>1 DEF ModerationTakesEffect, At, Spared
  <2>2. ASSUME req'[c].pc = "done", req'[c].ok, req'[c].alone
        PROVE  /\ req'[c].op = "suspend" => status'[req'[c].id] = "suspended"
               /\ req'[c].op = "unsuspend" =>
                    status'[req'[c].id] = "active" /\ banned'[req'[c].id] = 0
    <3>1. SetStatus(c)
      BY <1>6, <2>2, ActsLeads
    <3>2. req[c].pc = "status" /\ req[c].op \in Moderations /\ req[c].id \in Ids
      BY <1>0, <3>1 DEF SetStatus, At, Fits
    <3>3. ~Answer(c, FALSE)
      BY <1>0, <2>2, <3>2 DEF Answer, Requests
    <3>4. /\ Answer(c, TRUE) /\ UNCHANGED banned
          /\ status' = [status EXCEPT ![req[c].id] =
                          IF req[c].op = "suspend" THEN "suspended" ELSE "active"]
      BY <3>1, <3>3 DEF SetStatus, banVars
    <3>5. /\ req'[c].op = req[c].op /\ req'[c].id = req[c].id
          /\ req'[c].alone = req[c].alone
      BY <1>0, <3>2, <3>4 DEF Answer, Requests
    <3>6. status'[req[c].id] = IF req[c].op = "suspend" THEN "suspended" ELSE "active"
      BY <1>0, <3>2, <3>4
    <3>7. req[c].op = "unsuspend" => banned[req[c].id] = 0
      BY <2>2, <3>2, <3>5 DEF Lifted, At
    <3>8. QED BY <3>4, <3>5, <3>6, <3>7
  <2>3. QED BY <2>1, <2>2 DEF ModerationTakesEffect, At
<1>7. CASE \E i \in Ids : SuspensionEnds(i)
  <2>1. PICK i \in Ids : SuspensionEnds(i)
    BY <1>7
  <2>2. UNCHANGED req
    BY <2>1 DEF SuspensionEnds
  <2>3. \A j \in Ids : Spared(j)
    BY <1>3, <2>1
  <2>4. Lifted' /\ ModerationTakesEffect'
    BY <1>2, <2>2, <2>3
  <2>5. QED BY <1>1, <2>4
<1>8. CASE \/ \E i \in Ids : TokenExpires(i) \/ UpdateSettings(i) \/ DeleteAccount(i)
           \/ UNCHANGED vars
  <2>1. UNCHANGED <<status, banned, req>>
    BY <1>8 DEF vars, userVars, banVars, TokenExpires, UpdateSettings, DeleteAccount
  <2>2. \A j \in Ids : Spared(j)
    BY <2>1 DEF Spared
  <2>3. Lifted' /\ ModerationTakesEffect'
    BY <1>2, <2>1, <2>2
  <2>4. QED BY <1>1, <2>3
<1>9. Lifted' /\ ModerationTakesEffect'
  BY <1>5, <1>6, <1>7, <1>8, NextActs
<1>10. QED BY <1>1, <1>9

-----------------------------------------------------------------------------
(***************************************************************************)
(* The theorems                                                            *)
(***************************************************************************)
\* The invariant holds of a fresh database, and every step keeps it.
LEMMA InitIInv == Init => IInv
<1> SUFFICES ASSUME Init PROVE IInv
  OBVIOUS
<1>1. /\ 0 \in 0..MaxObjects /\ 0 \in 0..MaxTokens /\ 0 \in 0..MaxSuspensions
      /\ 0 \in 0..MaxFaults
  BY AccountBounds
<1>2. \A c \in Clients : Fits(req[c]) /\ req[c] = Idle
  BY IdleFits DEF Init
<1>3. req \in [Clients -> Requests]
  BY IdleFits DEF Init, Fits
<1>4. TypeOK
  <2>1. /\ row \in [Ids -> {"none", "live", "gone"}]
        /\ email \in [Ids -> Emails \cup {NoEmail}]
        /\ status \in [Ids -> {"active", "suspended"}]
        /\ verified \in [Ids -> BOOLEAN]
        /\ settings \in [Ids -> {"none", "default", "custom"}]
        /\ objects \subseteq 1..MaxObjects
        /\ record \in [Ids -> BOOLEAN] /\ granted \in BOOLEAN
    BY DEF Init
  <2>2. /\ avatar \in [Ids -> 0..MaxObjects] /\ tokens \in [Ids -> 0..MaxTokens]
        /\ issued \in 0..MaxTokens /\ used \in 0..MaxTokens
        /\ banned \in [Ids -> 0..MaxSuspensions] /\ faults \in 0..MaxFaults
    BY <1>1 DEF Init
  <2>3. QED BY <1>3, <2>1, <2>2 DEF TypeOK, Requests
<1>5. TokensSingleUse
  <2>1. Outstanding(tokens) = {}
    BY DEF Init, Outstanding
  <2>2. QED BY <2>1, FS_EmptySet DEF Init, TokensSingleUse
<1>6. Located
  BY <1>2, <1>3 DEF Located
<1>7. OneLivePerAddress /\ AvatarResolves /\ SuspendedHasRecord /\ Ungranted
  BY DEF Init, OneLivePerAddress, AvatarResolves, SuspendedHasRecord, Ungranted
<1>8. Uploaded /\ Recorded /\ Alone /\ Lifted /\ ModerationTakesEffect
  BY <1>2
     DEF Idle, Uploaded, Recorded, Alone, Moderates, Moderations, Lifted,
         ModerationTakesEffect, At
<1>9. QED BY <1>4, <1>5, <1>6, <1>7, <1>8 DEF IInv

LEMMA NextIInv ==
  ASSUME IInv, [Next]_vars
  PROVE  IInv'
<1>1. TypeOK' /\ Located' /\ TokensSingleUse'
  BY NextType, NextLocated, NextTokens DEF IInv
<1>2. OneLivePerAddress'
  BY NextAddress DEF IInv
<1>3. Uploaded' /\ AvatarResolves'
  BY NextAvatar DEF IInv
<1>4. Recorded' /\ SuspendedHasRecord'
  BY NextRecord DEF IInv
<1>5. Alone'
  BY NextAlone DEF IInv
<1>6. Ungranted' /\ Lifted' /\ ModerationTakesEffect'
  BY NextModeration DEF IInv
<1>7. QED BY <1>1, <1>2, <1>3, <1>4, <1>5, <1>6 DEF IInv

LEMMA IInvAlways == Spec => []IInv
BY InitIInv, NextIInv, PTL DEF Spec

\* What the handlers leave in rows, tokens, objects and suspensions has its type.
THEOREM TypeCorrect == Spec => []TypeOK
<1>1. IInv => TypeOK
  BY DEF IInv
<1>2. QED BY <1>1, IInvAlways, PTL

\* ExistsByEmail is no guard, it runs before the transaction and answers false
\* on an error: idx_users_email_active alone keeps an address to one account,
\* whatever registers and deletes at once.
THEOREM AddressesUnshared == Spec => []OneLivePerAddress
<1>1. IInv => OneLivePerAddress
  BY DEF IInv
<1>2. QED BY <1>1, IInvAlways, PTL

\* VerifyEmail consumes a token with GETDEL: the updates it opens and the
\* tokens that live never exceed the tokens sendVerification stored.
THEOREM TokensOpenOneUpdate == Spec => []TokensSingleUse
<1>1. IInv => TokensSingleUse
  BY DEF IInv
<1>2. QED BY <1>1, IInvAlways, PTL

\* UploadAvatar writes a URL after the object it names, and nothing removes
\* objects: no row names an avatar that is not there.
THEOREM AvatarsResolve == Spec => []AvatarResolves
<1>1. IInv => AvatarResolves
  BY DEF IInv
<1>2. QED BY <1>1, IInvAlways, PTL

\* SuspendUser writes the suspension before the status, in two transactions:
\* no crash between them, and no other request, leaves an account suspended
\* without a suspension on record.
THEOREM SuspensionsOnRecord == Spec => []SuspendedHasRecord
<1>1. IInv => SuspendedHasRecord
  BY DEF IInv
<1>2. QED BY <1>1, IInvAlways, PTL

\* A moderation that answers success, and that no other of the account
\* overlapped, has done what it says when it answers, for every number of
\* administrators at work on other accounts.
THEOREM ModerationsTakeEffect == Spec => []ModerationTakesEffect
<1>1. IInv => ModerationTakesEffect
  BY DEF IInv
<1>2. QED BY <1>1, IInvAlways, PTL

=============================================================================
