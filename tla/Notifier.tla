------------------------------ MODULE Notifier ------------------------------
(***************************************************************************)
(* From an Alertmanager webhook to an e-mail: the in-process queue of      *)
(* AlertmanagerNotificationQueueService, the steps between two awaits of   *)
(* EmailNotifierService.notifyIncident, and the dialogue of SmtpSession    *)
(* with the mail server.                                                   *)
(*                                                                         *)
(* An alert stands for everything that has its fingerprint and dedup key,  *)
(* so a second webhook for it is a repetition inside the dedup window.     *)
(* Evidence, diagnosis and report decide nothing but whether the final     *)
(* severity still passes the policy; collecting evidence and asking the    *)
(* LLM catch every error and have timeouts, so each is one step.           *)
(***************************************************************************)
EXTENDS Naturals, Sequences, FiniteSets

CONSTANTS
  Alert,           \* incidents, by fingerprint and dedup key
  Worthy,          \* the ones whose own severity and type pass the policy
  QueueMaxSize,    \* config.alertmanager.queueMaxSize
  Recipients,      \* how many addresses a report goes to
  HasCredentials,  \* config.smtp.user and password are set
  ServerMayStall,  \* the mail server may stop answering and keep, or quietly close, the connection
  AnswerMayBeLost, \* the connection may break after the server has taken the message
  MaxPayload,      \* bound: firing alerts in one webhook
  MaxTasks,        \* bound: alerts accepted in a behaviour
  MaxCrashes       \* bound: crashes of the backend

ASSUME WorthyAreAlerts == Worthy \subseteq Alert
ASSUME QueueMaxSizeIsNatural == QueueMaxSize \in Nat
ASSUME RecipientsIsNatural == Recipients \in Nat

VARIABLES
  tasks,      \* the accepted incidents in order, each with the await it is at
  pending,    \* AlertmanagerNotificationQueueService.pending
  records,    \* email_delivery_records: rows of each alert and status
  mailed,     \* how often the mail server has taken a report of each alert
  crashes

vars == <<tasks, pending, records, mailed, crashes>>

\* "duplicate" is a suppressed row with dedup_suppressed = true.
Status == {"sent", "failed", "suppressed", "duplicate"}
Over == {"processed", "error", "lost"}
Await == {"tail", "hasSentRecord", "diagnosis", "connect", "smtp", "stalled", "insertRecord"}

Dialogue ==
  <<"220", "EHLO">>
    \o (IF HasCredentials THEN <<"AUTH LOGIN", "user", "password">> ELSE <<>>)
    \o <<"MAIL FROM">> \o [n \in 1..Recipients |-> "RCPT TO"]
    \o <<"DATA", "message", "QUIT">>

-----------------------------------------------------------------------------
(* Updates. *)

GoOn(i, await) == tasks' = [tasks EXCEPT ![i].at = await]

\* The next await is insertRecord with this status.
ToRecord(i, status) ==
  tasks' = [tasks EXCEPT ![i].at = "insertRecord", ![i].status = status]

\* A fault: the place is only given back when the incident was processed.
SettleProcessed(i, end) ==
  /\ GoOn(i, end)
  /\ pending' = IF end = "processed" THEN pending - 1 ELSE pending

\* process: whatever happened, finally gives the place in the queue back.
Settle(i, end) ==
  /\ GoOn(i, end)
  /\ pending' = pending - 1

-----------------------------------------------------------------------------
(* The webhook. *)

NewTask(a) == [alert |-> a, at |-> "tail", step |-> 0, status |-> "suppressed"]

\* A fault: the limit is checked once for the whole payload.
RoomForAll(batch) == IF pending < QueueMaxSize THEN Len(batch) ELSE 0

\* How many incidents of a payload enqueue accepts before the queue is full.
Room(batch) ==
  IF Len(batch) <= QueueMaxSize - pending THEN Len(batch) ELSE QueueMaxSize - pending

\* receive answers 202 whatever it had to drop.
Receive(batch) ==
  /\ Len(tasks) + Len(batch) <= MaxTasks
  /\ tasks' = tasks \o [n \in 1..Room(batch) |-> NewTask(batch[n])]
  /\ pending' = pending + Room(batch)
  /\ UNCHANGED <<records, mailed, crashes>>

-----------------------------------------------------------------------------
(* notifyIncident, from await to await. *)

\* Faults: the incident is processed without waiting for the tail; an
\* incident that failed keeps the tail rejected.
AtOnce(i) == TRUE
TailFulfilled(i) == \A j \in 1..(i - 1) : tasks[j].at \in {"processed", "lost"}

TailSettled(i) == \A j \in 1..(i - 1) : tasks[j].at \in Over

Start(i) ==
  /\ tasks[i].at = "tail"
  /\ TailSettled(i)
  /\ IF tasks[i].alert \in Worthy THEN GoOn(i, "hasSentRecord") ELSE ToRecord(i, "suppressed")
  /\ UNCHANGED <<pending, records, mailed, crashes>>

\* A fault: only the rows of earlier duplicates suppress.
HasDuplicateRecord(a) == records[a]["duplicate"] > 0

HasSentRecord(a) == records[a]["sent"] > 0

LookUp(i) ==
  /\ tasks[i].at = "hasSentRecord"
  /\ \/ /\ HasSentRecord(tasks[i].alert)
        /\ ToRecord(i, "duplicate")
        /\ UNCHANGED pending
     \/ /\ ~HasSentRecord(tasks[i].alert)
        /\ GoOn(i, "diagnosis")
        /\ UNCHANGED pending
     \/ Settle(i, "error")
  /\ UNCHANGED <<records, mailed, crashes>>

\* The diagnosis may lower the severity below the threshold; the second
\* attempt at rendering may throw like the first.
Diagnose(i) ==
  /\ tasks[i].at = "diagnosis"
  /\ \/ GoOn(i, "connect") /\ UNCHANGED pending
     \/ ToRecord(i, "suppressed") /\ UNCHANGED pending
     \/ Settle(i, "error")
  /\ UNCHANGED <<records, mailed, crashes>>

\* connect has a timeout of its own.
Connect(i) ==
  /\ tasks[i].at = "connect"
  /\ \/ tasks' = [tasks EXCEPT ![i].at = "smtp", ![i].step = 1]
     \/ ToRecord(i, "failed")
  /\ UNCHANGED <<pending, records, mailed, crashes>>

Took(i) == mailed' = [mailed EXCEPT ![tasks[i].alert] = @ + 1]

\* The server may have taken a message whose answer does not arrive.
MayTake(i) ==
  \/ UNCHANGED mailed
  \/ AnswerMayBeLost /\ Dialogue[tasks[i].step] = "message" /\ Took(i)

\* A fault: a session that breaks off counts as delivered.
BrokenIsSent == "sent"

\* deliver throws and send answers accepted = false, wherever in the dialogue:
\* before the message or after it, at QUIT.
Broken == "failed"

\* The server answers as expected, refuses or resets the connection, or says
\* nothing more: readResponse has no timeout and does not listen for the end
\* of the connection.
Talk(i) ==
  /\ tasks[i].at = "smtp"
  /\ \/ /\ IF Dialogue[tasks[i].step] = "message" THEN Took(i) ELSE UNCHANGED mailed
        /\ IF tasks[i].step = Len(Dialogue)
           THEN ToRecord(i, "sent")
           ELSE tasks' = [tasks EXCEPT ![i].step = @ + 1]
     \/ ToRecord(i, Broken) /\ MayTake(i)
     \/ ServerMayStall /\ GoOn(i, "stalled") /\ MayTake(i)
  /\ UNCHANGED <<pending, records, crashes>>

Added(i) == records' = [records EXCEPT ![tasks[i].alert][tasks[i].status] = @ + 1]

\* The row may be in the table although insertRecord throws.
InsertRecord(i) ==
  /\ tasks[i].at = "insertRecord"
  /\ \/ Added(i) /\ Settle(i, "processed")
     \/ Added(i) /\ Settle(i, "error")
     \/ UNCHANGED records /\ Settle(i, "error")
  /\ UNCHANGED <<mailed, crashes>>

\* The queue is in memory: what was not over is gone.
Crash ==
  /\ crashes < MaxCrashes
  /\ crashes' = crashes + 1
  /\ tasks' = [i \in DOMAIN tasks |->
                 IF tasks[i].at \in Over THEN tasks[i] ELSE [tasks[i] EXCEPT !.at = "lost"]]
  /\ pending' = 0
  /\ UNCHANGED <<records, mailed>>

-----------------------------------------------------------------------------
Step(i) ==
  /\ i \in DOMAIN tasks
  /\ Start(i) \/ LookUp(i) \/ Diagnose(i) \/ Connect(i) \/ Talk(i) \/ InsertRecord(i)

Payload == UNION {[1..n -> Alert] : n \in 1..MaxPayload}

Init ==
  /\ tasks = <<>>
  /\ pending = 0
  /\ records = [a \in Alert |-> [s \in Status |-> 0]]
  /\ mailed = [a \in Alert |-> 0]
  /\ crashes = 0

Next ==
  \/ \E batch \in Payload : Receive(batch)
  \/ \E i \in 1..MaxTasks : Step(i)
  \/ Crash

Spec == Init /\ [][Next]_vars

\* The event loop keeps running what is not waiting for an answer that never
\* comes; nobody has to send a webhook.
FairSpec == Spec /\ \A i \in 1..MaxTasks : WF_vars(Step(i))

-----------------------------------------------------------------------------
(* Correctness. *)

TasksOf(a, ends) == {i \in DOMAIN tasks : tasks[i].alert = a /\ tasks[i].at \in ends}

\* Types, and a counter that never passes the size of the queue.
TypeOK ==
  /\ \A i \in DOMAIN tasks :
       tasks[i] \in [alert : Alert, at : Await \cup Over, step : 0..Len(Dialogue), status : Status]
  /\ pending \in 0..QueueMaxSize
  /\ records \in [Alert -> [Status -> Nat]]
  /\ mailed \in [Alert -> Nat]

\* The counter the limit is checked against is the number of incidents that
\* were accepted and are not over, through errors, drops and crashes.
PendingIsBacklog == pending = Cardinality({i \in DOMAIN tasks : tasks[i].at \notin Over})

\* A report leaves a second time only after something went wrong with an
\* earlier one: it is recorded as failed, or was never recorded at all.
SecondMailNeedsFailure ==
  \A a \in Alert :
    mailed[a] <= 1 + records[a]["failed"] + Cardinality(TasksOf(a, {"error", "lost"}))

\* hasSentRecord is read minutes before the report is sent; it is still right
\* then, because the tail lets one incident through at a time.
NoMailAfterSent ==
  [][\A a \in Alert : mailed'[a] # mailed[a] => records[a]["sent"] = 0]_vars

\* Whoever was processed left a row that says so, and no row says more than
\* happened: nothing is sent, or suppressed as a duplicate, that never went out.
ProcessedLeavesRecord ==
  \A a \in Alert :
    /\ records[a]["sent"] <= mailed[a]
    /\ records[a]["duplicate"] > 0 => mailed[a] > 0
    /\ Cardinality(TasksOf(a, {"processed"}))
         <= records[a]["sent"] + records[a]["failed"] + records[a]["suppressed"] + records[a]["duplicate"]

\* Every accepted incident is over at some point, however the ones before it
\* ended, unless a mail server has gone silent before the tail came to it.
EndsUnlessStalled ==
  \A i \in 1..MaxTasks :
    i \in DOMAIN tasks ~> (\E j \in DOMAIN tasks : tasks[j].at = "stalled" \/ (j = i /\ tasks[j].at \in Over))

\* "A failing SMTP server does not make the incident pipeline fail": every
\* accepted incident is over at some point.
EveryIncidentEnds ==
  \A i \in 1..MaxTasks : i \in DOMAIN tasks ~> i \in DOMAIN tasks /\ tasks[i].at \in Over
=============================================================================
