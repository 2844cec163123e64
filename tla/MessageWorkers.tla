--------------------------- MODULE MessageWorkers ---------------------------
(***************************************************************************)
(* The push and e-mail workers: dispatchers that store a message as an     *)
(* Asynq task, processors that fan the task out to the devices of a user   *)
(* or to the e-mails of its payload, and Asynq's retries of the whole      *)
(* task.  Beside them the user's device tokens, which the apps register    *)
(* and delete while pushes are being sent.                                 *)
(*                                                                         *)
(* All pushes address one user; nothing here relates two users.  Delivery  *)
(* logs and last_used_at are written and never read back: they are left    *)
(* out, and so are contents, templates' texts, priorities and times.       *)
(***************************************************************************)
EXTENDS Naturals, FiniteSets, FiniteSetsExt

CONSTANTS
  Messages,      \* calls of Send, Schedule, or one batch of SendBulk
  Pushes,        \* the notifications among them; the others are e-mails
  Parts,         \* Parts[m]: the e-mails in the payload of e-mail task m
  Key,           \* Key[m]: idempotency key, with the queue it is used in
  NoKey,         \* no key
  Corrupt,       \* messages the processor cannot decode
  Untemplated,   \* pushes whose event type has no template
  Invalid,       \* pushes FCM, and e-mails Resend, refuse in any case
  Devices,       \* the devices of the user
  RetryMax,      \* worker.retry_max
  MaxRotations,  \* bound: times a platform replaces a device's token
  MaxRows,       \* bound: rows inserted into fcm_tokens
  MaxFaults      \* bound: failures injected in one behaviour

Emails == Messages \ Pushes
Items  == Devices \cup UNION {Parts[m] : m \in Emails}

ASSUME MessageBounds ==
  /\ Pushes \subseteq Messages /\ Corrupt \subseteq Messages
  /\ Untemplated \subseteq Pushes
  /\ RetryMax \in Nat /\ MaxRotations \in Nat
  /\ MaxRows \in Nat \ {0} /\ MaxFaults \in Nat

VARIABLES
  sender,     \* sender[m]: new, ok or err, what the dispatcher returned
  taskSt,     \* taskSt[m]: none, queued (waiting or backing off), active,
              \* done or archived
  tries,      \* tries[m]: failed attempts Asynq has counted
  w,          \* w[m]: locals of the attempt that runs task m
  orphan,     \* orphan[m][i]: timed out attempts of m still to send part i
  row,        \* row[d]: d's row of fcm_tokens
  live,       \* live[d]: the token FCM accepts for the app on d
  wanted,     \* preferences and quiet hours let pushes through
  copies,     \* copies[m][i]: how often item i of m was delivered
  refused,    \* history: rows, with their token, that FCM has refused
  rotations,  \* tokens replaced so far
  faults

senderVars == <<sender, orphan>>
userVars   == <<row, live, wanted, rotations>>
vars == <<senderVars, taskSt, tries, w, userVars, copies, refused, faults>>

RowType == [id : 0..MaxRows, present : BOOLEAN, token : Nat, active : BOOLEAN]
NoRow   == [id |-> 0, present |-> FALSE, token |-> 0, active |-> FALSE]

\* rows is what FindActiveByUserID returned, sent the items of this attempt.
NoAttempt == [pc |-> "idle", rows |-> [d \in Devices |-> NoRow], sent |-> {},
              todo |-> {}, item |-> {}, failed |-> FALSE]

Init ==
  /\ sender = [m \in Messages |-> "new"]
  /\ taskSt = [m \in Messages |-> "none"]
  /\ tries = [m \in Messages |-> 0]
  /\ w = [m \in Messages |-> NoAttempt]
  /\ orphan = [m \in Messages |-> [i \in Items |-> 0]]
  /\ row = [d \in Devices |-> NoRow]
  /\ live = [d \in Devices |-> 1]
  /\ wanted = TRUE
  /\ copies = [m \in Messages |-> [i \in Items |-> 0]]
  /\ refused = {} /\ rotations = 0 /\ faults = 0

Fault   == faults < MaxFaults /\ faults' = faults + 1
NoFault == faults' = faults

-----------------------------------------------------------------------------
(***************************************************************************)
(* The dispatchers                                                         *)
(***************************************************************************)
Live(m) == taskSt[m] \in {"queued", "active", "archived"}

\* Asynq (external) refuses an id while a task of that queue holds it.
IdTaken(m) ==
  Key[m] # NoKey /\ \E n \in Messages \ {m} : Key[n] = Key[m] /\ Live(n)

\* A refused id counts as success; a failed enqueue may have stored the task.
Send(m) ==
  /\ sender[m] = "new"
  /\ \/ /\ sender' = [sender EXCEPT ![m] = "ok"] /\ NoFault
        /\ taskSt' = [taskSt EXCEPT ![m] = IF IdTaken(m) THEN @ ELSE "queued"]
     \/ /\ sender' = [sender EXCEPT ![m] = "err"] /\ Fault
        /\ \/ UNCHANGED taskSt
           \/ ~IdTaken(m) /\ taskSt' = [taskSt EXCEPT ![m] = "queued"]
  /\ UNCHANGED <<tries, w, orphan, userVars, copies, refused>>

-----------------------------------------------------------------------------
(***************************************************************************)
(* Asynq's view of an attempt (external)                                   *)
(***************************************************************************)
\* ProcessTask returned an error: retried until the retries are used up.
Retry(m) ==
  /\ IF tries[m] < RetryMax
     THEN /\ taskSt' = [taskSt EXCEPT ![m] = "queued"]
          /\ tries' = [tries EXCEPT ![m] = @ + 1]
     ELSE taskSt' = [taskSt EXCEPT ![m] = "archived"] /\ UNCHANGED tries
  /\ w' = [w EXCEPT ![m] = NoAttempt]

\* ProcessTask returned nil.
Finish(m) ==
  /\ taskSt' = [taskSt EXCEPT ![m] = "done"]
  /\ w' = [w EXCEPT ![m].pc = "idle"]
  /\ UNCHANGED tries

\* A worker takes the task; a payload it cannot decode is archived at once.
Start(m) ==
  /\ taskSt[m] = "queued"
  /\ IF m \in Corrupt
     THEN taskSt' = [taskSt EXCEPT ![m] = "archived"] /\ UNCHANGED w
     ELSE /\ taskSt' = [taskSt EXCEPT ![m] = "active"]
          /\ w' = [w EXCEPT ![m] =
               IF m \in Pushes
               THEN [NoAttempt EXCEPT !.pc = "prefs"]
               ELSE [NoAttempt EXCEPT !.pc = "send", !.sent = Parts[m], !.todo = Parts[m]]]
  /\ UNCHANGED <<senderVars, tries, userVars, copies, refused, faults>>

\* The worker process dies, or a panic is recovered: the attempt counts as
\* failed.  At a shutdown the task goes back to its queue uncounted.
Interrupt(m) ==
  /\ taskSt[m] = "active" /\ Fault
  /\ \/ Retry(m)
     \/ /\ taskSt' = [taskSt EXCEPT ![m] = "queued"]
        /\ w' = [w EXCEPT ![m] = NoAttempt] /\ UNCHANGED tries
  /\ UNCHANGED <<senderVars, userVars, copies, refused>>

\* The deadline passes.  The e-mail processor ignores its context, so its
\* goroutine goes on sending while Asynq has the task retried.
Timeout(m) ==
  /\ m \in Emails /\ taskSt[m] = "active" /\ Fault
  /\ orphan' = [orphan EXCEPT ![m] =
       [i \in Items |-> IF i \in w[m].todo THEN @[i] + 1 ELSE @[i]]]
  /\ Retry(m)
  /\ UNCHANGED <<sender, userVars, copies, refused>>

-----------------------------------------------------------------------------
(***************************************************************************)
(* The push processor                                                      *)
(***************************************************************************)
\* shouldSendNotification; preferences that cannot be read do not stop it.
CheckPreferences(m) ==
  /\ w[m].pc = "prefs"
  /\ \/ ~wanted /\ Finish(m) /\ NoFault
     \/ /\ w' = [w EXCEPT ![m].pc = "tokens"]
        /\ (wanted /\ NoFault) \/ Fault
        /\ UNCHANGED <<taskSt, tries>>
  /\ UNCHANGED <<senderVars, userVars, copies, refused>>

\* Mutant: inactive rows are fetched as well.
AllDevices == {d \in Devices : row[d].present}

ActiveDevices == {d \in Devices : row[d].present /\ row[d].active}

\* FindActiveByUserID, then the template; the latter never changes.
ReadTokens(m) ==
  /\ w[m].pc = "tokens"
  /\ \/ /\ ActiveDevices = {} \/ m \in Untemplated
        /\ Finish(m) /\ NoFault
     \/ /\ ActiveDevices # {} /\ m \notin Untemplated
        /\ w' = [w EXCEPT ![m] = [@ EXCEPT !.pc = "send", !.rows = row,
                                   !.sent = ActiveDevices, !.todo = ActiveDevices]]
        /\ UNCHANGED <<taskSt, tries>> /\ NoFault
     \/ Retry(m) /\ Fault
  /\ UNCHANGED <<senderVars, userVars, copies, refused>>

Deliver(m, i) == copies' = [copies EXCEPT ![m][i] = @ + 1]

\* What the provider makes of item i of task m, whenever it is asked.
Acceptable(m, i) ==
  IF m \in Pushes
  THEN m \notin Invalid /\ w[m].rows[i].token = live[i]
  ELSE i \notin Invalid

\* sendToToken, up to FCM's answer: accepted, refused for good, or an error
\* after which the message may have gone through all the same.
SendToToken(m) ==
  /\ m \in Pushes /\ w[m].pc = "send"
  /\ \E d \in w[m].todo :
       LET Settle(pc, fail) ==
             w' = [w EXCEPT ![m] = [w[m] EXCEPT !.todo = @ \ {d}, !.pc = pc,
                                               !.item = {d}, !.failed = @ \/ fail]]
       IN \/ /\ Acceptable(m, d) /\ Deliver(m, d)
             /\ Settle("send", FALSE) /\ NoFault /\ UNCHANGED refused
          \/ /\ ~Acceptable(m, d) /\ Settle("deactivate", TRUE) /\ NoFault
             /\ refused' = refused \cup {<<d, w[m].rows[d].id, w[m].rows[d].token>>}
             /\ UNCHANGED copies
          \/ /\ Settle("send", TRUE) /\ Fault /\ UNCHANGED refused
             /\ UNCHANGED copies \/ (Acceptable(m, d) /\ Deliver(m, d))
  /\ UNCHANGED <<senderVars, taskSt, tries, userVars>>

Resume(m) == w' = [w EXCEPT ![m].pc = "send"]

\* Mutant: the refused token is kept active.
DeactivateNothing(m) ==
  /\ w[m].pc = "deactivate" /\ Resume(m) /\ NoFault
  /\ UNCHANGED <<senderVars, taskSt, tries, userVars, copies, refused>>

\* Mutant: the row is found by user and device.
DeactivateByDevice(m) ==
  /\ w[m].pc = "deactivate" /\ Resume(m) /\ NoFault
  /\ row' = [d \in Devices |-> IF d \in w[m].item /\ row[d].present
                               THEN [row[d] EXCEPT !.active = FALSE] ELSE row[d]]
  /\ UNCHANGED <<senderVars, taskSt, tries, live, wanted, rotations, copies, refused>>

\* DeactivateByID, whatever token the row holds by now; its error is logged.
Deactivate(m) ==
  /\ w[m].pc = "deactivate" /\ Resume(m)
  /\ \/ /\ row' = [d \in Devices |->
                     IF d \in w[m].item /\ row[d].present /\ row[d].id = w[m].rows[d].id
                     THEN [row[d] EXCEPT !.active = FALSE] ELSE row[d]]
        /\ NoFault
     \/ UNCHANGED row /\ Fault
  /\ UNCHANGED <<senderVars, taskSt, tries, live, wanted, rotations, copies, refused>>

-----------------------------------------------------------------------------
(***************************************************************************)
(* The e-mail processor                                                    *)
(***************************************************************************)
\* processEmail on the next e-mail of the payload.
SendEmail(m) ==
  /\ m \in Emails /\ w[m].pc = "send"
  /\ \E i \in w[m].todo :
       LET Settle(fail) == w' = [w EXCEPT ![m] = [w[m] EXCEPT !.todo = @ \ {i},
                                                             !.failed = @ \/ fail]]
       IN \/ /\ Settle(~Acceptable(m, i)) /\ NoFault
             /\ IF Acceptable(m, i) THEN Deliver(m, i) ELSE UNCHANGED copies
          \/ /\ Settle(TRUE) /\ Fault
             /\ UNCHANGED copies \/ (Acceptable(m, i) /\ Deliver(m, i))
  /\ UNCHANGED <<senderVars, taskSt, tries, userVars, refused>>

\* The goroutine of a timed out attempt sends one of the e-mails it has left,
\* or fails to, or dies with its process.
OrphanSends(m) ==
  /\ \E i \in Items :
       /\ orphan[m][i] > 0
       /\ orphan' = [orphan EXCEPT ![m][i] = @ - 1]
       /\ (Acceptable(m, i) /\ Deliver(m, i)) \/ UNCHANGED copies
  /\ UNCHANGED <<sender, taskSt, tries, w, userVars, refused, faults>>

\* Mutant: the errors of the loop are only logged.
EndLoopIgnoresErrors(m) ==
  /\ w[m].pc = "send" /\ w[m].todo = {}
  /\ Finish(m)
  /\ UNCHANGED <<senderVars, userVars, copies, refused, faults>>

\* processNotification, processEmail and processBulkEmail return lastErr.
EndLoop(m) ==
  /\ w[m].pc = "send" /\ w[m].todo = {}
  /\ IF w[m].failed THEN Retry(m) ELSE Finish(m)
  /\ UNCHANGED <<senderVars, userVars, copies, refused, faults>>

-----------------------------------------------------------------------------
(***************************************************************************)
(* The user and the platforms                                              *)
(***************************************************************************)
\* The platform replaces the app's token (external): FCM refuses the old one.
Rotate(d) ==
  /\ rotations < MaxRotations
  /\ live' = [live EXCEPT ![d] = @ + 1] /\ rotations' = rotations + 1
  /\ UNCHANGED <<senderVars, taskSt, tries, w, row, wanted, copies, refused, faults>>

\* The sequence of fcm_tokens; a deleted row keeps its last id here.
NextId == 1 + Max({row[d].id : d \in Devices})

\* RegisterToken: the upsert keeps the id of a row that is there.
RegisterToken(d) ==
  /\ row[d].present \/ NextId <= MaxRows
  /\ row' = [row EXCEPT ![d] = [id |-> IF @.present THEN @.id ELSE NextId,
                                present |-> TRUE, token |-> live[d], active |-> TRUE]]
  /\ UNCHANGED <<senderVars, taskSt, tries, w, live, wanted, rotations, copies, refused, faults>>

DeleteToken(d) ==
  /\ row[d].present
  /\ row' = [row EXCEPT ![d].present = FALSE, ![d].active = FALSE]
  /\ UNCHANGED <<senderVars, taskSt, tries, w, live, wanted, rotations, copies, refused, faults>>

\* UpdatePreferences overwrites every field; quiet hours begin and end.
SetPreferences ==
  /\ wanted' = ~wanted
  /\ UNCHANGED <<senderVars, taskSt, tries, w, row, live, rotations, copies, refused, faults>>

-----------------------------------------------------------------------------
ProcessStep(m) ==
  \/ Start(m) \/ CheckPreferences(m) \/ ReadTokens(m) \/ SendToToken(m)
  \/ Deactivate(m) \/ SendEmail(m) \/ EndLoop(m)

Next ==
  \/ \E m \in Messages : \/ Send(m) \/ ProcessStep(m)
                         \/ Interrupt(m) \/ Timeout(m) \/ OrphanSends(m)
  \/ \E d \in Devices : Rotate(d) \/ RegisterToken(d) \/ DeleteToken(d)
  \/ SetPreferences

Spec == Init /\ [][Next]_vars

-----------------------------------------------------------------------------
(***************************************************************************)
(* Properties                                                              *)
(***************************************************************************)
\* Every variable has its type; retries, rows, rotations and faults are bounded.
TypeOK ==
  /\ sender \in [Messages -> {"new", "ok", "err"}]
  /\ taskSt \in [Messages -> {"none", "queued", "active", "done", "archived"}]
  /\ tries \in [Messages -> 0..RetryMax]
  /\ w \in [Messages -> [pc : {"idle", "prefs", "tokens", "send", "deactivate"},
                         rows : [Devices -> RowType], sent : SUBSET Items,
                         todo : SUBSET Items, item : SUBSET Items, failed : BOOLEAN]]
  /\ orphan \in [Messages -> [Items -> Nat]]
  /\ row \in [Devices -> RowType]
  /\ live \in [Devices -> Nat]
  /\ wanted \in BOOLEAN
  /\ copies \in [Messages -> [Items -> Nat]]
  /\ refused \subseteq Devices \X (1..MaxRows) \X Nat
  /\ rotations \in 0..MaxRotations /\ faults \in 0..MaxFaults

\* The processors keep the last error of their loop, whatever comes after it:
\* a task completes only when every device its last attempt fetched, or every
\* e-mail of its payload, was accepted by the provider.
DoneMeansDelivered ==
  \A m \in Messages :
    taskSt[m] = "done" => \A i \in w[m].sent : copies[m][i] > 0

\* What a task cannot be spared: failures, and dead tokens found in a row.
Hitches == faults + Cardinality(refused)

\* Providers never refuse an e-mail of the task, nor the push, for good.
Sendable(m) == m \notin Corrupt \cup Invalid /\ (m \in Emails => Parts[m] \cap Invalid = {})

\* Retrying a task repeats what had succeeded, but only as often as something
\* failed: one copy more for each fault and each dead token.
NoNeedlessCopies ==
  \A m \in Messages, i \in Items : Sendable(m) => copies[m][i] <= 1 + Hitches

\* sendToToken deactivates what FCM refuses, so a dead token costs a task one
\* attempt, whatever is registered and deleted meanwhile: retries are only
\* used up, and tasks archived, by failures and by dead tokens not met before.
DeadTokenCostsOneAttempt ==
  \A m \in Messages :
    Sendable(m) =>
      tries[m] + (IF taskSt[m] = "archived" THEN 1 ELSE 0) <= Hitches

\* DeactivateByID: a row that has replaced the one FCM refused, after
\* DeleteToken and RegisterToken, keeps its device reachable.
OnlyRefusedRowsInactive ==
  \A d \in Devices :
    row[d].present /\ ~row[d].active =>
      \E r \in refused : r[1] = d /\ r[2] = row[d].id

=============================================================================
