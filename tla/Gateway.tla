-------------------------------- MODULE Gateway --------------------------------
(***************************************************************************)
(* The HTTP/JSON gateway in front of the API of Serving: a REST request is *)
(* matched to a route, made into the message of a call, sent with the      *)
(* headers the interceptors read, and answered with what the call returns. *)
(* Calls of other clients reach the API next to those of the gateway, and  *)
(* either process may be signalled at any time.                            *)
(*                                                                         *)
(* The runtime of grpc-gateway is external: its ServeMux tries the routes  *)
(* of a verb from the one registered last to the first.                    *)
(***************************************************************************)
EXTENDS Serving, Sequences

CONSTANTS
  Rests,  \* the calls a REST request may be behind
  Ids,    \* what a path may hold where a route has a parameter
  NoId    \* a message without an id

ASSUME RestsAreCalls == Rests \subseteq Calls

VARIABLES
  gateway,  \* the gateway process: serving, closing (signalled) or exited
  rest      \* rest[r]: the REST request behind call r
gatewayVars == <<vars, gateway, rest>>

-----------------------------------------------------------------------------
(***************************************************************************)
(* The routes, in the order main and the generated functions register them *)
(***************************************************************************)
Param == "{}"
Rt(verb, path, rpc) == [verb |-> verb, path |-> path, rpc |-> rpc]

SignInRoutes == <<
  Rt("POST", <<"v1", "auth", "register">>, "Register"),
  Rt("POST", <<"v1", "auth", "login">>, "Login"),
  Rt("POST", <<"v1", "auth", "token", "refresh">>, "RefreshToken"),
  Rt("POST", <<"v1", "auth", "logout">>, "Logout")>>

CredentialRoutes == <<
  Rt("POST", <<"v1", "auth", "email", "verify">>, "VerifyEmail"),
  Rt("POST", <<"v1", "auth", "email", "resend">>, "ResendVerification"),
  Rt("POST", <<"v1", "auth", "password", "reset-request">>, "RequestPasswordReset"),
  Rt("POST", <<"v1", "auth", "password", "reset">>, "ResetPassword"),
  Rt("POST", <<"v1", "auth", "password", "change">>, "ChangePassword")>>

DeviceRoutes == <<
  Rt("GET", <<"v1", "auth", "devices">>, "ListDevices"),
  Rt("DELETE", <<"v1", "auth", "devices", Param>>, "RevokeDevice")>>

ProfileRoutes == <<
  Rt("GET", <<"v1", "users", Param>>, "GetUser"),
  Rt("GET", <<"v1", "users", "me">>, "GetMe"),
  Rt("PATCH", <<"v1", "users", "me">>, "UpdateMe"),
  Rt("DELETE", <<"v1", "users", "me">>, "DeleteMe")>>

PreferenceRoutes == <<
  Rt("GET", <<"v1", "users", "me", "settings">>, "GetSettings"),
  Rt("PUT", <<"v1", "users", "me", "settings">>, "UpdateSettings"),
  Rt("POST", <<"v1", "users", "me", "push-tokens">>, "RegisterPushToken"),
  Rt("GET", <<"v1", "users", "me", "notification-preferences">>,
     "GetNotificationPreferences"),
  Rt("PUT", <<"v1", "users", "me", "notification-preferences">>,
     "UpdateNotificationPreferences")>>

AdminRoutes == <<
  Rt("GET", <<"v1", "admin", "users">>, "ListUsers"),
  Rt("GET", <<"v1", "admin", "users", Param>>, "AdminGetUser"),
  Rt("POST", <<"v1", "admin", "users", Param, "suspend">>, "SuspendUser"),
  Rt("POST", <<"v1", "admin", "users", Param, "unsuspend">>, "UnsuspendUser"),
  Rt("PUT", <<"v1", "admin", "users", Param, "role">>, "SetUserRole")>>

HealthRoutes == <<
  Rt("GET", <<"v1", "health">>, "Check"),
  Rt("GET", <<"v1", "health", "ready">>, "Ready")>>

Routes == SignInRoutes \o CredentialRoutes \o DeviceRoutes \o ProfileRoutes
            \o PreferenceRoutes \o AdminRoutes \o HealthRoutes

MatchesPath(row, path) ==
  /\ Len(row.path) = Len(path)
  /\ \A i \in DOMAIN path : row.path[i] \in {path[i], Param}

Matching(q) ==
  {i \in DOMAIN Routes : Routes[i].verb = q.verb /\ MatchesPath(Routes[i], q.path)}

\* Mutant: the first route registered wins.
RouteFirst(q) == Routes[CHOOSE i \in Matching(q) : \A j \in Matching(q) : i <= j]

\* ServeMux.Handle puts a route before those it has, ServeHTTP takes the first.
Route(q) == Routes[CHOOSE i \in Matching(q) : \A j \in Matching(q) : i >= j]

-----------------------------------------------------------------------------
(***************************************************************************)
(* The messages, as request_X_0 of each route fills them                   *)
(***************************************************************************)
\* From the body.
SignInBodies == {"Register", "Login", "RefreshToken", "VerifyEmail"}
CredentialBodies == {"RequestPasswordReset", "ResetPassword", "ChangePassword"}
UserBodies == {"UpdateMe", "UpdateSettings", "RegisterPushToken",
               "UpdateNotificationPreferences"}

\* From the body, then the id from the path.
AdminBodies == {"SuspendUser", "SetUserRole"}
Bodies == SignInBodies \cup CredentialBodies \cup UserBodies \cup AdminBodies

\* Mutant: the body is decoded after the path's parameter is set.
MessageIdBody(row, q) ==
  IF row.rpc \in AdminBodies /\ q.bodyId # NoId THEN q.bodyId
  ELSE IF \E i \in DOMAIN q.path : row.path[i] = Param
       THEN q.path[CHOOSE i \in DOMAIN q.path : row.path[i] = Param]
       ELSE NoId

\* The id the message carries: a body that names one is overwritten.
MessageId(row, q) ==
  IF \E i \in DOMAIN q.path : row.path[i] = Param
  THEN q.path[CHOOSE i \in DOMAIN q.path : row.path[i] = Param]
  ELSE NoId

-----------------------------------------------------------------------------
(***************************************************************************)
(* The methods the API registers, and what it asks of their callers:       *)
(* publicMethods, and the prefix of the administrator's service            *)
(***************************************************************************)
AuthMethods ==
  [m \in {"Register", "Login", "RefreshToken", "VerifyEmail", "RequestPasswordReset",
          "ResetPassword"} |-> "public"]

OwnAuthMethods ==
  [m \in {"Logout", "ResendVerification", "ChangePassword", "ListDevices",
          "RevokeDevice"} |-> "user"]

ProfileMethods ==
  [m \in {"GetUser", "GetMe", "UpdateMe", "DeleteMe", "UploadAvatar"} |->
     IF m = "UploadAvatar" THEN "stream" ELSE "user"]

PreferenceMethods ==
  [m \in {"GetSettings", "UpdateSettings", "RegisterPushToken",
          "GetNotificationPreferences", "UpdateNotificationPreferences"} |-> "user"]

AdminMethods ==
  [m \in {"ListUsers", "AdminGetUser", "SuspendUser", "UnsuspendUser", "SetUserRole"}
     |-> "admin"]

HealthMethods == [m \in {"Check", "Ready"} |-> "public"]

Tables == {AuthMethods, OwnAuthMethods, ProfileMethods, PreferenceMethods,
           AdminMethods, HealthMethods}

KindOf(rpc) == (CHOOSE t \in Tables : rpc \in DOMAIN t)[rpc]

-----------------------------------------------------------------------------
(***************************************************************************)
(* What a request's text promises its sender: the route that fits it best  *)
(* and the id in its path.  The reference the routing is checked against.  *)
(***************************************************************************)
Params(row) == {i \in DOMAIN row.path : row.path[i] = Param}

Named(q) == Routes[CHOOSE i \in Matching(q) :
                     \A j \in Matching(q) : Params(Routes[i]) \subseteq Params(Routes[j])]

PathId(q) == LET ps == Params(Named(q)) IN
  IF ps = {} THEN NoId ELSE q.path[CHOOSE i \in ps : TRUE]

\* Requests with a route, a parameter and, where its message has one, an id in
\* the body.
Fill(path, id) == [i \in DOMAIN path |-> IF path[i] = Param THEN id ELSE path[i]]
Requests ==
  UNION {{[verb |-> Routes[i].verb, path |-> Fill(Routes[i].path, id), bodyId |-> b] :
            b \in IF Routes[i].rpc \in AdminBodies THEN Ids \cup {NoId} ELSE {NoId}} :
         i \in DOMAIN Routes, id \in Ids}

-----------------------------------------------------------------------------
(***************************************************************************)
(* The gateway process                                                     *)
(***************************************************************************)
\* History: named, the call has the method and the id its request names.
Unasked == [st |-> "none", named |-> TRUE]

GatewayInit == Init /\ gateway = "serving" /\ rest = [r \in Rests |-> Unasked]

Reply(r) == rest' = [rest EXCEPT ![r].st = "answered"]

\* A request reaches a route whose message comes from a body it cannot decode.
RefuseBody(r) ==
  /\ gateway = "serving" /\ rest[r].st = "none"
  /\ \E q \in Requests : Route(q).rpc \in Bodies
  /\ Reply(r) /\ UNCHANGED <<vars, gateway>>

\* What the requests become: the kind of the method called, and whether method
\* and id are the ones the request names.
Outgoing ==
  {LET row == Route(q) IN
     [kind |-> KindOf(row.rpc),
      named |-> row.rpc = Named(q).rpc /\ MessageId(row, q) = PathId(q)] : q \in Requests}

\* Sent with authorization, accept-language, lang and x-request-id as they are,
\* so that the API knows the sender: headerMatcher, and the generated client.
Forward(r, m) ==
  /\ gateway = "serving" /\ rest[r].st = "none"
  /\ Arrive(r, m.kind) /\ rest' = [rest EXCEPT ![r] = [st |-> "sent", named |-> m.named]]
  /\ UNCHANGED gateway

\* Mutant: a call waits until the API is there (grpc.WaitForReady).
UnavailableWaits(r) ==
  /\ gateway = "serving" /\ rest[r].st = "none" /\ At(r, "unmade")
  /\ serve # "serving" \/ stopped # "no"
  /\ rest' = [rest EXCEPT ![r].st = "sent"] /\ UNCHANGED <<vars, gateway>>

\* The API takes no call: the connection fails the call at once.
Unavailable(r) ==
  /\ gateway = "serving" /\ rest[r].st = "none" /\ At(r, "unmade")
  /\ serve # "serving" \/ stopped # "no"
  /\ Reply(r) /\ UNCHANGED <<vars, gateway>>

\* SIGINT or SIGTERM ends ctx.
GatewaySignal ==
  /\ gateway = "serving" /\ gateway' = "closing" /\ UNCHANGED <<vars, rest>>

\* The connection of a service closes under its calls: ctx is done, or the API
\* has stopped at once.  What runs at the API goes on.
ConnectionCloses(r) ==
  /\ rest[r].st = "sent" /\ call[r].pc \in Inside
  /\ gateway = "closing" \/ stopped = "at once"
  /\ Reply(r) /\ UNCHANGED <<vars, gateway>>

\* ListenAndServe returns when Shutdown begins, and main with it.
GatewayExits ==
  /\ gateway = "closing" /\ gateway' = "exited" /\ UNCHANGED <<vars, rest>>

\* The API goes on.  The calls of Rests are the gateway's alone; one that returns
\* while its request waits for it answers the request.
Carry ==
  /\ \A r \in Rests : rest[r].st = "none" => call'[r].pc = "unmade"
  /\ rest' = [r \in Rests |->
                IF rest[r].st = "sent" /\ ~At(r, "done") /\ call'[r].pc = "done"
                THEN [rest[r] EXCEPT !.st = "answered"] ELSE rest[r]]
  /\ UNCHANGED gateway

Rest(r) ==
  \/ RefuseBody(r) \/ Unavailable(r) \/ ConnectionCloses(r)
  \/ \E m \in Outgoing : Forward(r, m)

GatewayNext ==
  \/ Next /\ Carry
  \/ \E r \in Rests : main # "exited" /\ Rest(r)
  \/ GatewaySignal \/ GatewayExits

\* What FairSpec assumes of the API.  Of the gateway nothing is assumed.
GatewaySpec ==
  /\ GatewayInit /\ [][GatewayNext]_gatewayVars
  /\ \A r \in Calls : WF_gatewayVars(Proceed(r) /\ Carry)
  /\ \A b \in Loops : WF_gatewayVars(Loop(b) /\ Carry)
  /\ WF_gatewayVars(Serve /\ Carry) /\ WF_gatewayVars(Shutdown /\ Carry)

-----------------------------------------------------------------------------
\* The call a request becomes is the one its text names: the most specific
\* route for its verb and path, whatever the order of the registrations, on the
\* id in its path, whatever its body says, and as a call of that method's kind.
RoutedAsNamed ==
  \A r \in Rests : rest[r].st = "sent" => rest[r].named /\ call[r].kind # "stream"

\* Every request the gateway has taken is answered unless the gateway stops,
\* through revocations, panics and the shutdown of the API.
RequestsAnswered ==
  \A r \in Rests : [](rest[r].st = "sent" => <>(rest[r].st # "sent" \/ gateway = "exited"))

=============================================================================
