-------------------------------- MODULE Serving --------------------------------
(***************************************************************************)
(* The API process: calls on their way through the interceptors, the       *)
(* streamed upload, and the shutdown that ends them, next to the caller's  *)
(* session being revoked, its role changing and the background goroutines  *)
(* that share the connection pool.                                         *)
(*                                                                         *)
(* grpc-go is external: GracefulStop takes no new call and returns when    *)
(* every handler has; Stop closes the connections, which cancels the       *)
(* contexts of the calls.                                                  *)
(***************************************************************************)
EXTENDS Naturals, FiniteSets

CONSTANTS
  Calls,      \* calls, each made once
  Loops,      \* background goroutines that query the database
  MaxBytes,   \* MaxAvatarBytes, in chunks
  MaxPanics   \* bound: handlers that panic

ASSUME ServingBounds == MaxBytes \in Nat /\ MaxPanics \in Nat /\ IsFiniteSet(Calls)

Kinds == {"public", "user", "admin", "stream"}

VARIABLES
  session,   \* the caller's session: valid or not (revoked, inactive, suspended)
  admin,     \* the caller's role is admin
  call,      \* call[r]: the locals of call r
  inflight, counted,  \* GRPCRequestsInFlight, GRPCRequestsTotal
  panics,    \* history: handlers that panicked
  loop,      \* loop[b]: a background goroutine
  serve,     \* the goroutine of Start
  main,      \* the goroutine of AwaitShutdown
  health,    \* the status the health service reports
  stopped,   \* the gRPC server: no, gracefully, at once
  pool, cache, dispatchers  \* open or closed

callVars  == <<call, inflight, counted, panics>>
lifeVars  == <<serve, main, health, stopped, pool, cache, dispatchers>>
vars      == <<session, admin, callVars, loop, lifeVars>>

(***************************************************************************)
(* A call: bytes buffered by an upload, gotMeta, and the code it is        *)
(* answered with: OK, Internal, or a status of the error's own (status).   *)
(* History: entitled, the caller was entitled to the method at some time   *)
(* since the call arrived.                                                 *)
(***************************************************************************)
Unmade == [pc |-> "unmade", kind |-> "public", bytes |-> 0, gotMeta |-> FALSE,
           code |-> "none", entitled |-> FALSE]
PCs == {"unmade", "auth", "validate", "handler", "recv", "upload", "answer", "done",
        "undecodable"}
Inside == {"auth", "validate", "handler", "recv", "upload", "answer"}
Codes == {"none", "OK", "status", "Internal"}

Init ==
  /\ session = "valid" /\ admin \in BOOLEAN
  /\ call = [r \in Calls |-> Unmade]
  /\ inflight = 0 /\ counted = 0 /\ panics = 0
  /\ loop = [b \in Loops |-> "waiting"]
  /\ serve = "starting" /\ main = "serving" /\ health = "SERVING" /\ stopped = "no"
  /\ pool = "open" /\ cache = "open" /\ dispatchers = "open"

At(r, pc) == call[r].pc = pc
Go(r, pc) == call' = [call EXCEPT ![r].pc = pc]
Answer(r, code) ==
  call' = [call EXCEPT ![r] = [Unmade EXCEPT !.pc = "answer", !.code = code]]
Done(r) == call' = [call EXCEPT ![r] = [Unmade EXCEPT !.pc = "done"]]

-----------------------------------------------------------------------------
(***************************************************************************)
(* The caller                                                              *)
(***************************************************************************)
\* What a method asks of a caller with this session and role.
Entitled(kind, s, a) == kind = "public" \/ (s = "valid" /\ (kind = "admin" => a))

Witness(s, a) ==
  call' = [r \in Calls |->
             IF call[r].pc \in Inside
             THEN [call[r] EXCEPT !.entitled = @ \/ Entitled(call[r].kind, s, a)]
             ELSE call[r]]

\* Logout, suspension, deletion, inactivity: in other calls or other processes.
Revoke ==
  /\ session = "valid" /\ session' = "invalid" /\ main # "exited"
  /\ UNCHANGED <<admin, callVars, loop, lifeVars>>

SetRole ==
  /\ admin' = ~admin /\ main # "exited" /\ Witness(session, ~admin)
  /\ UNCHANGED <<session, inflight, counted, panics, loop, lifeVars>>

-----------------------------------------------------------------------------
(***************************************************************************)
(* The interceptors, outermost first: recovery, metrics, request id, log,  *)
(* locale, errors, authentication, validation                              *)
(***************************************************************************)
Arrive(r, kind) ==
  /\ serve = "serving" /\ stopped = "no" /\ At(r, "unmade")
  /\ call' = [call EXCEPT ![r] = [Unmade EXCEPT !.kind = kind, !.pc = "auth",
                                    !.entitled = Entitled(kind, session, admin)]]
  /\ inflight' = inflight + 1
  /\ UNCHANGED <<session, admin, counted, panics, loop, lifeVars>>

\* The generated handler decodes the message of a unary call before it enters
\* the interceptors: neither the metrics nor the log see one that it cannot.
Undecodable(r) ==
  /\ serve = "serving" /\ stopped = "no" /\ At(r, "unmade")
  /\ call' = [call EXCEPT ![r].pc = "undecodable"]
  /\ UNCHANGED <<session, admin, inflight, counted, panics, loop, lifeVars>>

\* Mutant: the administrator's methods are like the user's.
RefusedNoRole(kind) == kind # "public" /\ session # "valid"

\* authenticate: token, session and account; then the administrator's prefix.
Refused(kind) ==
  /\ kind # "public"
  /\ session # "valid" \/ (kind = "admin" /\ ~admin)

Authenticate(r) ==
  /\ At(r, "auth")
  /\ IF Refused(call[r].kind) THEN Answer(r, "status")
     ELSE Go(r, IF call[r].kind = "stream" THEN "recv" ELSE "validate")
  /\ UNCHANGED <<session, admin, inflight, counted, panics, loop, lifeVars>>

\* validationUnary, of a message that may break its rules.
Validate(r) ==
  /\ At(r, "validate")
  /\ Go(r, "handler") \/ Answer(r, "status")
  /\ UNCHANGED <<session, admin, inflight, counted, panics, loop, lifeVars>>

\* mapError, on what a handler returns: a domain error keeps its code, any
\* other becomes Internal.
MapError(outcome) ==
  CASE outcome = "ok" -> "OK" [] outcome = "domain" -> "status" [] OTHER -> "Internal"

Handle(r) ==
  /\ At(r, "handler") \/ At(r, "upload")
  /\ \E outcome \in {"ok", "domain", "plain"} : Answer(r, MapError(outcome))
  /\ UNCHANGED <<session, admin, inflight, counted, panics, loop, lifeVars>>

\* The panic passes metricsUnary, which does not defer, and ends in recovery.
Panic(r) ==
  /\ At(r, "handler") \/ At(r, "upload")
  /\ panics < MaxPanics /\ panics' = panics + 1
  /\ Done(r)
  /\ UNCHANGED <<session, admin, inflight, counted, loop, lifeVars>>

\* Mutant: a call that fails leaves before the gauge is lowered.
ReturnEarly(r) ==
  /\ At(r, "answer") /\ Done(r)
  /\ inflight' = IF call[r].code = "OK" THEN inflight - 1 ELSE inflight
  /\ counted' = counted + 1
  /\ UNCHANGED <<session, admin, panics, loop, lifeVars>>

\* Back through the log and the metrics.
Return(r) ==
  /\ At(r, "answer") /\ Done(r)
  /\ inflight' = inflight - 1 /\ counted' = counted + 1
  /\ UNCHANGED <<session, admin, panics, loop, lifeVars>>

-----------------------------------------------------------------------------
(***************************************************************************)
(* The streamed upload: validatingStream under UploadAvatar's loop         *)
(***************************************************************************)
Messages == {"content_type", "chunk", "invalid", "end"}

TooLarge(bytes) == bytes + 1 > MaxBytes

\* What the client sends next, if it ever sends anything.
Receive(r, m) ==
  /\ At(r, "recv") /\ stopped # "at once"
  /\ CASE m = "invalid"      -> Answer(r, "status")
       [] m = "content_type" -> call' = [call EXCEPT ![r].gotMeta = TRUE]
       [] m = "chunk"        -> IF TooLarge(call[r].bytes) THEN Answer(r, "status")
                                ELSE call' = [call EXCEPT ![r].bytes = @ + 1]
       [] m = "end"          -> IF call[r].gotMeta THEN Go(r, "upload")
                                ELSE Answer(r, "status")
  /\ UNCHANGED <<session, admin, inflight, counted, panics, loop, lifeVars>>

\* Recv fails: the client gave up, or Stop closed its connection.
ReceiveFails(r) ==
  /\ At(r, "recv") /\ Answer(r, "status")
  /\ UNCHANGED <<session, admin, inflight, counted, panics, loop, lifeVars>>

-----------------------------------------------------------------------------
(***************************************************************************)
(* Background goroutines: the outbox drain (DrainLoop has its detail) and  *)
(* the outbox metrics, each using a pooled connection per tick             *)
(***************************************************************************)
Cancelled == main # "serving"   \* bgCancel

Tick(b) ==
  /\ loop[b] = "waiting" /\ ~Cancelled /\ loop' = [loop EXCEPT ![b] = "querying"]
  /\ UNCHANGED <<session, admin, callVars, lifeVars>>

QueryEnds(b) ==
  /\ loop[b] = "querying" /\ loop' = [loop EXCEPT ![b] = "waiting"]
  /\ UNCHANGED <<session, admin, callVars, lifeVars>>

StopLoop(b) ==
  /\ loop[b] = "waiting" /\ Cancelled /\ loop' = [loop EXCEPT ![b] = "stopped"]
  /\ UNCHANGED <<session, admin, callVars, lifeVars>>

-----------------------------------------------------------------------------
(***************************************************************************)
(* Start and AwaitShutdown                                                 *)
(***************************************************************************)
\* Serve; on a server already stopped it fails, and Fatal ends the process.
Serve ==
  /\ serve = "starting" /\ main # "exited"
  /\ IF stopped = "no" THEN serve' = "serving" /\ UNCHANGED main
     ELSE serve' = "failed" /\ main' = "exited"
  /\ UNCHANGED <<session, admin, callVars, loop, health, stopped, pool, cache, dispatchers>>

\* SIGINT or SIGTERM, then bgCancel.
Signal ==
  /\ main = "serving" /\ main' = "health"
  /\ UNCHANGED <<session, admin, callVars, loop, serve, health, stopped, pool, cache, dispatchers>>

HealthDown ==
  /\ main = "health" /\ main' = "stop" /\ health' = "NOT_SERVING"
  /\ UNCHANGED <<session, admin, callVars, loop, serve, stopped, pool, cache, dispatchers>>

\* The goroutine of Server.Shutdown calls GracefulStop.
GracefulStop ==
  /\ main = "stop" /\ main' = "draining" /\ stopped' = "gracefully"
  /\ UNCHANGED <<session, admin, callVars, loop, serve, health, pool, cache, dispatchers>>

\* Mutant: the server waits for its calls however long they take.
NeverForce == FALSE /\ UNCHANGED vars

\* The grace period is over.
ForceStop ==
  /\ main = "draining" /\ stopped = "gracefully" /\ stopped' = "at once"
  /\ UNCHANGED <<session, admin, callVars, loop, serve, main, health, pool, cache, dispatchers>>

\* Mutant: after Stop nothing waits for the handlers.
DrainedOrForced ==
  (\A r \in Calls : call[r].pc \notin Inside) \/ stopped = "at once"

\* What GracefulStop waits for, also once Stop has been called.
Drained == \A r \in Calls : call[r].pc \notin Inside

StopReturns ==
  /\ main = "draining" /\ Drained /\ main' = "obs"
  /\ UNCHANGED <<session, admin, callVars, loop, serve, health, stopped, pool, cache, dispatchers>>

\* The observability server, with a timeout of 5 s.
CloseObs ==
  /\ main = "obs" /\ main' = "pool"
  /\ UNCHANGED <<session, admin, callVars, loop, serve, health, stopped, pool, cache, dispatchers>>

\* Close waits for the connections that are in use.
ClosePool ==
  /\ main = "pool" /\ \A b \in Loops : loop[b] # "querying"
  /\ main' = "cache" /\ pool' = "closed"
  /\ UNCHANGED <<session, admin, callVars, loop, serve, health, stopped, cache, dispatchers>>

CloseCache ==
  /\ main = "cache" /\ main' = "dispatchers" /\ cache' = "closed"
  /\ UNCHANGED <<session, admin, callVars, loop, serve, health, stopped, pool, dispatchers>>

CloseDispatchers ==
  /\ main = "dispatchers" /\ main' = "exited" /\ dispatchers' = "closed"
  /\ UNCHANGED <<session, admin, callVars, loop, serve, health, stopped, pool, cache>>

-----------------------------------------------------------------------------
Shutdown ==
  \/ HealthDown \/ GracefulStop \/ ForceStop \/ StopReturns
  \/ CloseObs \/ ClosePool \/ CloseCache \/ CloseDispatchers

\* The steps the server takes by itself; Recv fails by itself after Stop.
Proceed(r) ==
  /\ main # "exited"
  /\ \/ Authenticate(r) \/ Validate(r) \/ Handle(r) \/ Return(r)
     \/ stopped = "at once" /\ ReceiveFails(r)

\* The steps that depend on the client, and panics.
Client(r) ==
  /\ main # "exited"
  /\ \/ \E k \in Kinds : Arrive(r, k)
     \/ \E m \in Messages : Receive(r, m)
     \/ Undecodable(r) \/ ReceiveFails(r) \/ Panic(r)

Loop(b) == main # "exited" /\ (Tick(b) \/ QueryEnds(b) \/ StopLoop(b))

Next ==
  \/ Revoke \/ SetRole
  \/ \E r \in Calls : Proceed(r) \/ Client(r)
  \/ \E b \in Loops : Loop(b)
  \/ Serve \/ Signal \/ Shutdown

Spec == Init /\ [][Next]_vars

\* The scheduler runs every goroutine, and a handler's own calls have
\* timeouts.  Nothing is assumed of clients, who may stall an upload.
FairSpec ==
  /\ Spec
  /\ \A r \in Calls : WF_vars(Proceed(r))
  /\ \A b \in Loops : WF_vars(Loop(b))
  /\ WF_vars(Serve) /\ WF_vars(Shutdown)

-----------------------------------------------------------------------------
Running == Cardinality({r \in Calls : call[r].pc \in Inside})

\* Every variable has its type, and only mapped codes are answered.
TypeOK ==
  /\ session \in {"valid", "invalid"} /\ admin \in BOOLEAN
  /\ call \in [Calls -> [pc : PCs, kind : Kinds, bytes : Nat, gotMeta : BOOLEAN,
                         code : Codes, entitled : BOOLEAN]]
  /\ inflight \in Nat /\ counted \in Nat /\ panics \in 0..MaxPanics
  /\ loop \in [Loops -> {"waiting", "querying", "stopped"}]
  /\ serve \in {"starting", "serving", "failed"}
  /\ main \in {"serving", "health", "stop", "draining", "obs", "pool", "cache",
               "dispatchers", "exited"}
  /\ health \in {"SERVING", "NOT_SERVING"} /\ stopped \in {"no", "gracefully", "at once"}
  /\ {pool, cache, dispatchers} \subseteq {"open", "closed"}

Handling == {"handler", "recv", "upload"}

\* authUnary and authStream against revocations and role changes in flight: a
\* handler runs only for a caller who was entitled to its method at some time
\* since the call arrived.
HandlerEntitled == \A r \in Calls : call[r].pc \in Handling => call[r].entitled

\* metricsUnary and metricsStream, against calls that fail, are cut off by Stop
\* or panic: gauge and counter miss by exactly the calls that panicked, which
\* stay in flight for ever and are never counted (PanicsCounted says what the
\* comment over metricsUnary promises of them instead).
MetricsAddUp ==
  /\ inflight = Running + panics
  /\ counted + panics = Cardinality({r \in Calls : At(r, "done")})

\* AwaitShutdown closes nothing under a running call or a background query,
\* however the signal, the grace period and the calls race, and the health
\* service has said NOT_SERVING before the server refuses calls.
ClosedInOrder ==
  /\ pool = "closed" => Running = 0 /\ \A b \in Loops : loop[b] # "querying"
  /\ dispatchers = "closed" => cache = "closed" /\ pool = "closed"
  /\ stopped # "no" => health = "NOT_SERVING"

\* A signal ends the process, although a client may stall its upload for ever.
ShutdownCompletes == [](main = "health" => <>(main = "exited"))

-----------------------------------------------------------------------------
(***************************************************************************)
(* What a comment says, and the code does not keep                         *)
(***************************************************************************)
\* Comment over metricsUnary: it sits just inside recovery, so that panics are
\* counted as any other failure is.  Every call that has been answered,
\* recovery's answer to a panic included, is in GRPCRequestsTotal.
PanicsCounted == counted = Cardinality({r \in Calls : At(r, "done")})

=============================================================================
