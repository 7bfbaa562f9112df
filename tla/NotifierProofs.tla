--------------------------- MODULE NotifierProofs ---------------------------
(***************************************************************************)
(* What holds of the notification queue for any set of alerts, queue size, *)
(* number of recipients, crashes and behaviour of the mail server: the     *)
(* counter, the dedup, and what the delivery records say.                  *)
(*                                                                         *)
(* All of it rests on the chain of promises: one incident at most is       *)
(* between its start and its end, so a step has to keep the books of one   *)
(* incident only.                                                          *)
(***************************************************************************)
EXTENDS Notifier, FoldLemmas, SequenceTheorems

Task == [alert : Alert, at : Await \cup Over, step : 0..Len(Dialogue), status : Status]
Rows == [Alert -> [Status -> Nat]]
Mails == [Alert -> Nat]

Typed ==
  /\ tasks \in Seq(Task)
  /\ pending \in 0..QueueMaxSize
  /\ records \in Rows
  /\ mailed \in Mails

Underway(t) == t.at \notin Over \cup {"tail"}

\* The tail lets one incident through at a time.
OneAtATime ==
  \A i, j \in DOMAIN tasks : i < j /\ Underway(tasks[j]) => tasks[i].at \in Over

\* It looked for a sent record, found none and has not written one.
Unsent(t) ==
  \/ t.at \in {"diagnosis", "connect", "smtp", "stalled"}
  \/ t.at = "insertRecord" /\ t.status \in {"sent", "failed"}

\* The server has confirmed its message.
PastMessage(t) ==
  \/ t.at = "smtp" /\ t.step = Len(Dialogue)
  \/ t.at = "insertRecord" /\ t.status = "sent"

\* The server may have taken its message, and no row tells of it yet.
MaySent(t) ==
  \/ t.at = "smtp" /\ t.step = Len(Dialogue)
  \/ t.at = "stalled"
  \/ t.at = "insertRecord" /\ t.status \in {"sent", "failed"}

\* What an incident knows of its alert's rows r and mails m still holds.
Ready(t, r, m) ==
  /\ Unsent(t) => r["sent"] = 0
  /\ t.at = "smtp" => t.step \in 1..Len(Dialogue)
  /\ PastMessage(t) => m >= 1
  /\ t.at = "insertRecord" /\ t.status = "duplicate" => m >= 1

AllReady == \A i \in DOMAIN tasks : Ready(tasks[i], records[tasks[i].alert], mailed[tasks[i].alert])

\* The books of an alert: every mail but the one that may be under way has a
\* row, or an incident that failed or was lost.
Balanced(r, m, bad, may) ==
  /\ r["sent"] <= 1
  /\ m <= r["sent"] + r["failed"] + bad + may

\* Rows tell of mails that went out, and a processed incident has a row.
Told(r, m, done) ==
  /\ r["sent"] <= m
  /\ r["duplicate"] > 0 => m > 0
  /\ done <= r["sent"] + r["failed"] + r["suppressed"] + r["duplicate"]

\* The same for incidents s, so that it can be said of the next ones too.
Ended(s, a, ends) == {i \in DOMAIN s : s[i].alert = a /\ s[i].at \in ends}
Bad(s, a) == Cardinality(Ended(s, a, {"error", "lost"}))
Processed(s, a) == Cardinality(Ended(s, a, {"processed"}))
May(s, a) == IF \E i \in DOMAIN s : s[i].alert = a /\ MaySent(s[i]) THEN 1 ELSE 0

Books ==
  \A a \in Alert :
    /\ Balanced(records[a], mailed[a], Bad(tasks, a), May(tasks, a))
    /\ Told(records[a], mailed[a], Processed(tasks, a))

\* The inductive invariant.
IInv == Typed /\ PendingIsBacklog /\ OneAtATime /\ AllReady /\ Books

-----------------------------------------------------------------------------
(* The dialogue. *)

\* The message is the last word but one, whatever the login and however many
\* the recipients.
LEMMA DialogueFacts ==
  /\ Len(Dialogue) \in Nat /\ Len(Dialogue) >= 3
  /\ \A n \in 1..Len(Dialogue) : Dialogue[n] = "message" <=> n = Len(Dialogue) - 1
<1>. DEFINE Words == {"220", "EHLO", "AUTH LOGIN", "user", "password", "MAIL FROM", "RCPT TO"}
            login == IF HasCredentials THEN <<"AUTH LOGIN", "user", "password">> ELSE <<>>
            names == [n \in 1..Recipients |-> "RCPT TO"]
            before == <<"220", "EHLO">> \o login \o <<"MAIL FROM">> \o names
            last == <<"DATA", "message", "QUIT">>
            Replies == Words \cup {"DATA", "message", "QUIT"}
<1>1. login \in Seq(Words)
  <2>1. <<"AUTH LOGIN", "user", "password">> \in Seq(Words) /\ <<>> \in Seq(Words)
    OBVIOUS
  <2>. QED
    BY <2>1
<1>2. names \in Seq(Words)
  BY RecipientsIsNatural
<1>3. <<"220", "EHLO">> \in Seq(Words) /\ <<"MAIL FROM">> \in Seq(Words)
  OBVIOUS
<1>. HIDE DEF login, names
<1>4. before \in Seq(Words)
  <2>1. <<"220", "EHLO">> \o login \in Seq(Words)
    BY <1>1, <1>3, ConcatProperties
  <2>2. (<<"220", "EHLO">> \o login) \o <<"MAIL FROM">> \in Seq(Words)
    BY <1>3, <2>1, ConcatProperties
  <2>3. ((<<"220", "EHLO">> \o login) \o <<"MAIL FROM">>) \o names \in Seq(Words)
    BY <1>2, <2>2, ConcatProperties
  <2>. QED
    BY <2>3
<1>5. Dialogue = before \o last
  BY DEF Dialogue, login, names
<1>. HIDE DEF before
<1>6. "message" \notin Words /\ Words \subseteq Replies
  OBVIOUS
<1>7. last \in Seq(Replies) /\ Len(last) = 3 /\ last[1] = "DATA" /\ last[2] = "message" /\ last[3] = "QUIT"
  OBVIOUS
<1>. HIDE DEF last, Words, Replies
<1>8. before \in Seq(Words) /\ before \in Seq(Replies) /\ Len(before) \in Nat
  BY <1>4, <1>6, SeqMonotonic
<1>9. /\ Len(Dialogue) = Len(before) + 3
      /\ \A n \in 1..Len(before) + 3 :
           Dialogue[n] = IF n <= Len(before) THEN before[n] ELSE last[n - Len(before)]
  <2>1. /\ Len(before \o last) = Len(before) + Len(last)
        /\ \A n \in 1..Len(before) + Len(last) :
             (before \o last)[n] = IF n <= Len(before) THEN before[n] ELSE last[n - Len(before)]
    BY <1>7, <1>8, ConcatProperties
  <2>. QED
    BY <1>5, <1>7, <2>1
<1>10. ASSUME NEW n \in 1..Len(Dialogue)
       PROVE  Dialogue[n] = "message" <=> n = Len(Dialogue) - 1
  <2>1. CASE n <= Len(before)
    <3>1. Dialogue[n] = before[n] /\ before[n] \in Words
      BY <1>8, <1>9, <2>1
    <3>. QED
      BY <1>6, <1>8, <1>9, <2>1, <3>1
  <2>2. CASE n > Len(before)
    <3>1. Dialogue[n] = last[n - Len(before)] /\ n - Len(before) \in 1..3
      BY <1>8, <1>9, <2>2
    <3>2. last[n - Len(before)] = "message" <=> n - Len(before) = 2
      BY <1>7, <3>1
    <3>. QED
      BY <1>8, <1>9, <3>1, <3>2
  <2>. QED
    BY <1>8, <2>1, <2>2
<1>. QED
  BY <1>8, <1>9, <1>10

-----------------------------------------------------------------------------
(* One incident moves on. *)

\* The tasks with one of them replaced.
LEMMA Replaced ==
  ASSUME tasks \in Seq(Task), NEW i \in DOMAIN tasks, NEW u \in Task,
         tasks' = [tasks EXCEPT ![i] = u]
  PROVE  /\ tasks' \in Seq(Task) /\ DOMAIN tasks' = DOMAIN tasks
         /\ tasks'[i] = u
         /\ \A j \in DOMAIN tasks : j # i => tasks'[j] = tasks[j]
         /\ DOMAIN tasks = 1..Len(tasks) /\ Len(tasks) \in Nat
OBVIOUS

\* Sets of tasks are finite.
LEMMA FiniteTasks ==
  ASSUME NEW s \in Seq(Task), NEW S, S \subseteq DOMAIN s
  PROVE  IsFiniteSet(S) /\ Cardinality(S) \in Nat
<1>1. IsFiniteSet(1..Len(s)) /\ DOMAIN s = 1..Len(s)
  BY FS_Interval
<1>2. IsFiniteSet(S)
  BY <1>1, FS_Subset
<1>. QED
  BY <1>2, FS_CardinalityType

\* Nobody but i is underway.
LEMMA Alone ==
  ASSUME Typed, OneAtATime, NEW i \in DOMAIN tasks, tasks[i].at \notin Over,
         Underway(tasks[i]) \/ TailSettled(i)
  PROVE  \A j \in DOMAIN tasks : j # i => ~Underway(tasks[j]) /\ (j < i => tasks[j].at \in Over)
<1>. DOMAIN tasks = 1..Len(tasks) /\ Len(tasks) \in Nat
  BY DEF Typed
<1>. SUFFICES ASSUME NEW j \in DOMAIN tasks, j # i
              PROVE  ~Underway(tasks[j]) /\ (j < i => tasks[j].at \in Over)
  OBVIOUS
<1>1. CASE j < i
  BY <1>1 DEF OneAtATime, TailSettled, Underway
<1>2. CASE i < j
  BY <1>2 DEF OneAtATime
<1>. QED
  BY <1>1, <1>2

\* A task that is not underway relies on nothing.
LEMMA NotUnderway ==
  ASSUME NEW t, ~Underway(t)
  PROVE  /\ \A r, m : Ready(t, r, m)
         /\ ~MaySent(t)
BY DEF Underway, Ready, Unsent, PastMessage, MaySent, Over

\* Its place in the queue is given back exactly when it is over.
LEMMA MovePending ==
  ASSUME Typed, PendingIsBacklog, NEW i \in DOMAIN tasks, tasks[i].at \notin Over,
         NEW u \in Task, tasks' = [tasks EXCEPT ![i] = u],
         pending' = IF u.at \in Over THEN pending - 1 ELSE pending
  PROVE  PendingIsBacklog' /\ pending' \in 0..QueueMaxSize
<1>. DEFINE Open == {j \in DOMAIN tasks : tasks[j].at \notin Over}
<1>1. /\ DOMAIN tasks' = DOMAIN tasks /\ tasks'[i] = u
      /\ \A j \in DOMAIN tasks : j # i => tasks'[j] = tasks[j]
  BY Replaced DEF Typed
<1>2. Open \subseteq DOMAIN tasks /\ i \in Open
  OBVIOUS
<1>3. IsFiniteSet(Open) /\ Cardinality(Open) \in Nat
  BY <1>2, FiniteTasks DEF Typed
<1>4. pending = Cardinality(Open)
  BY DEF PendingIsBacklog
<1>5. CASE u.at \in Over
  <2>1. Open' = Open \ {i}
    BY <1>1, <1>2, <1>5
  <2>2. Cardinality(Open \ {i}) = Cardinality(Open) - 1
    BY <1>2, <1>3, FS_RemoveElement
  <2>3. Open \ {i} \subseteq DOMAIN tasks
    BY <1>2
  <2>4. Cardinality(Open \ {i}) \in Nat
    BY <2>3, FiniteTasks DEF Typed
  <2>. HIDE DEF Open
  <2>5. pending' = Cardinality(Open') /\ pending' \in 0..QueueMaxSize
    BY <1>3, <1>4, <1>5, <2>1, <2>2, <2>4, QueueMaxSizeIsNatural DEF Typed
  <2>. QED
    BY <2>5 DEF PendingIsBacklog, Open
<1>6. CASE u.at \notin Over
  <2>1. Open' = Open
    BY <1>1, <1>2, <1>6
  <2>. QED
    BY <1>4, <1>6, <2>1 DEF PendingIsBacklog, Typed
<1>. QED
  BY <1>5, <1>6

\* The incidents of an alert that ended in a given way.
LEMMA MoveCounts ==
  ASSUME NEW s \in Seq(Task), NEW t \in Seq(Task), DOMAIN t = DOMAIN s,
         NEW i \in DOMAIN s, s[i].at \notin Over, t[i].alert = s[i].alert,
         \A j \in DOMAIN s : j # i => t[j] = s[j],
         NEW a \in Alert, NEW ends \in SUBSET Over
  PROVE  /\ Cardinality(Ended(s, a, ends)) \in Nat
         /\ a = t[i].alert /\ t[i].at \in ends
              => Cardinality(Ended(t, a, ends)) = Cardinality(Ended(s, a, ends)) + 1
         /\ ~(a = t[i].alert /\ t[i].at \in ends)
              => Cardinality(Ended(t, a, ends)) = Cardinality(Ended(s, a, ends))
<1>1. Ended(s, a, ends) \subseteq DOMAIN s /\ i \notin Ended(s, a, ends)
  BY DEF Ended
<1>2. IsFiniteSet(Ended(s, a, ends)) /\ Cardinality(Ended(s, a, ends)) \in Nat
  BY <1>1, FiniteTasks
<1>3. CASE a = t[i].alert /\ t[i].at \in ends
  <2>1. Ended(t, a, ends) = Ended(s, a, ends) \cup {i}
    BY <1>3 DEF Ended
  <2>2. Cardinality(Ended(s, a, ends) \cup {i}) = Cardinality(Ended(s, a, ends)) + 1
    BY <1>1, <1>2, FS_AddElement
  <2>. QED
    BY <1>2, <1>3, <2>1, <2>2
<1>4. CASE ~(a = t[i].alert /\ t[i].at \in ends)
  <2>1. Ended(t, a, ends) = Ended(s, a, ends)
    BY <1>4 DEF Ended
  <2>. QED
    BY <1>2, <1>4, <2>1
<1>. QED
  BY <1>3, <1>4

\* A step of incident i keeps the invariant if it keeps the books of i.
LEMMA MoveKeeps ==
  ASSUME IInv, NEW i \in DOMAIN tasks, tasks[i].at \notin Over,
         Underway(tasks[i]) \/ TailSettled(i),
         NEW u \in Task, NEW a \in Alert, tasks[i].alert = a, u.alert = a,
         u.at \notin {"tail", "lost"},
         tasks' = [tasks EXCEPT ![i] = u],
         pending' = IF u.at \in Over THEN pending - 1 ELSE pending,
         records' \in Rows, mailed' \in Mails,
         \A b \in Alert \ {a} : records'[b] = records[b] /\ mailed'[b] = mailed[b],
         Ready(u, records'[a], mailed'[a]),
         Balanced(records'[a], mailed'[a], Bad(tasks, a) + (IF u.at = "error" THEN 1 ELSE 0),
                  IF MaySent(u) THEN 1 ELSE 0),
         Told(records'[a], mailed'[a], Processed(tasks, a) + (IF u.at = "processed" THEN 1 ELSE 0))
  PROVE  IInv'
<1>1. /\ tasks' \in Seq(Task) /\ DOMAIN tasks' = DOMAIN tasks /\ tasks'[i] = u
      /\ \A j \in DOMAIN tasks : j # i => tasks'[j] = tasks[j]
      /\ DOMAIN tasks = 1..Len(tasks) /\ Len(tasks) \in Nat
  BY Replaced DEF IInv, Typed
<1>2. PendingIsBacklog' /\ pending' \in 0..QueueMaxSize
  BY MovePending DEF IInv
<1>3. Typed'
  BY <1>1, <1>2 DEF Typed
<1>4. \A j \in DOMAIN tasks : j # i => ~Underway(tasks[j]) /\ (j < i => tasks[j].at \in Over)
  BY Alone DEF IInv
<1>5. OneAtATime'
  BY <1>1, <1>4 DEF OneAtATime
<1>6. AllReady'
  <2>. SUFFICES ASSUME NEW j \in DOMAIN tasks
                PROVE  Ready(tasks'[j], records'[tasks'[j].alert], mailed'[tasks'[j].alert])
    BY <1>1 DEF AllReady
  <2>1. CASE j = i
    BY <1>1, <2>1
  <2>2. CASE j # i
    BY <1>1, <1>4, <2>2, NotUnderway
  <2>. QED
    BY <2>1, <2>2
<1>7. /\ tasks \in Seq(Task) /\ tasks' \in Seq(Task) /\ tasks'[i].alert = tasks[i].alert
      /\ DOMAIN tasks' = DOMAIN tasks /\ \A j \in DOMAIN tasks : j # i => tasks'[j] = tasks[j]
  BY <1>1 DEF IInv, Typed
<1>8. ASSUME NEW b \in Alert, NEW ends \in SUBSET Over
      PROVE  /\ Cardinality(Ended(tasks, b, ends)) \in Nat
             /\ Cardinality(Ended(tasks', b, ends)) =
                  Cardinality(Ended(tasks, b, ends)) + (IF b = a /\ u.at \in ends THEN 1 ELSE 0)
  <2>1. /\ Cardinality(Ended(tasks, b, ends)) \in Nat
        /\ b = tasks'[i].alert /\ tasks'[i].at \in ends
             => Cardinality(Ended(tasks', b, ends)) = Cardinality(Ended(tasks, b, ends)) + 1
        /\ ~(b = tasks'[i].alert /\ tasks'[i].at \in ends)
             => Cardinality(Ended(tasks', b, ends)) = Cardinality(Ended(tasks, b, ends))
    BY ONLY MoveCounts, <1>7, i \in DOMAIN tasks, tasks[i].at \notin Over, b \in Alert, ends \in SUBSET Over
  <2>. QED
    BY <1>1, <2>1
<1>10. ASSUME NEW b \in Alert
      PROVE  /\ Balanced(records'[b], mailed'[b], Bad(tasks', b), May(tasks', b))
             /\ Told(records'[b], mailed'[b], Processed(tasks', b))
  <2>1. Bad(tasks', b) = Bad(tasks, b) + (IF b = a /\ u.at = "error" THEN 1 ELSE 0) /\ Bad(tasks, b) \in Nat
    <3>1. {"error", "lost"} \in SUBSET Over
      BY DEF Over
    <3>. QED
      BY <1>8, <3>1 DEF Bad
  <2>2. Processed(tasks', b) = Processed(tasks, b) + (IF b = a /\ u.at = "processed" THEN 1 ELSE 0) /\ Processed(tasks, b) \in Nat
    <3>1. {"processed"} \in SUBSET Over
      BY DEF Over
    <3>. QED
      BY <1>8, <3>1 DEF Processed
  <2>3. May(tasks', b) = IF b = a /\ MaySent(u) THEN 1 ELSE 0
    <3>1. \A j \in DOMAIN tasks : j # i => ~MaySent(tasks'[j])
      BY <1>1, <1>4, NotUnderway
    <3>. QED
      BY <1>1, <3>1 DEF May
  <2>4. CASE b = a
    BY <2>1, <2>2, <2>3, <2>4
  <2>5. CASE b # a
    <3>1. May(tasks, b) \in {0, 1} /\ May(tasks', b) = 0
      BY <2>3, <2>5 DEF May
    <3>2. May(tasks, b) = 0
      <4>1. \A j \in DOMAIN tasks : j # i => ~MaySent(tasks[j])
        BY <1>4, NotUnderway
      <4>. QED
        BY <2>5, <4>1 DEF May
    <3>. QED
      BY <2>1, <2>2, <2>5, <3>1, <3>2 DEF IInv, Books
  <2>. QED
    BY <2>4, <2>5
<1>9. Books'
  BY <1>10 DEF Books
<1>. QED
  BY <1>2, <1>3, <1>5, <1>6, <1>9 DEF IInv

\* What the invariant says of the incident that moves.
LEMMA Mine ==
  ASSUME IInv, NEW i \in DOMAIN tasks, tasks[i].at \notin Over,
         Underway(tasks[i]) \/ TailSettled(i), NEW a, a = tasks[i].alert
  PROVE  /\ tasks[i] \in Task /\ a \in Alert
         /\ records[a] \in [Status -> Nat] /\ mailed[a] \in Nat
         /\ Bad(tasks, a) \in Nat /\ Processed(tasks, a) \in Nat
         /\ Ready(tasks[i], records[a], mailed[a])
         /\ Balanced(records[a], mailed[a], Bad(tasks, a), IF MaySent(tasks[i]) THEN 1 ELSE 0)
         /\ Told(records[a], mailed[a], Processed(tasks, a))
<1>1. tasks \in Seq(Task) /\ tasks[i] \in Task /\ a \in Alert
  <2>1. tasks \in Seq(Task) /\ tasks[i] \in Task
    BY DEF IInv, Typed
  <2>. QED
    BY <2>1 DEF Task
<1>2. records[a] \in [Status -> Nat] /\ mailed[a] \in Nat
  BY <1>1 DEF IInv, Typed, Rows, Mails
<1>3. Bad(tasks, a) \in Nat
  <2>1. Ended(tasks, a, {"error", "lost"}) \subseteq DOMAIN tasks
    BY DEF Ended
  <2>. QED
    BY <1>1, <2>1, FiniteTasks DEF Bad
<1>4. Processed(tasks, a) \in Nat
  <2>1. Ended(tasks, a, {"processed"}) \subseteq DOMAIN tasks
    BY DEF Ended
  <2>. QED
    BY <1>1, <2>1, FiniteTasks DEF Processed
<1>5. May(tasks, a) = IF MaySent(tasks[i]) THEN 1 ELSE 0
  <2>1. \A j \in DOMAIN tasks : j # i => ~Underway(tasks[j])
    BY Alone DEF IInv
  <2>2. \A j \in DOMAIN tasks : j # i => ~MaySent(tasks[j])
    BY <2>1, NotUnderway
  <2>. QED
    BY <2>2 DEF May
<1>6. Ready(tasks[i], records[a], mailed[a])
  BY DEF IInv, AllReady
<1>7. Balanced(records[a], mailed[a], Bad(tasks, a), May(tasks, a)) /\ Told(records[a], mailed[a], Processed(tasks, a))
  BY <1>1 DEF IInv, Books
<1>. QED
  BY <1>1, <1>2, <1>3, <1>4, <1>5, <1>6, <1>7

\* The same for a step that neither writes a row nor sends a mail.
LEMMA MoveSilently ==
  ASSUME IInv, NEW i \in DOMAIN tasks, tasks[i].at \notin Over,
         Underway(tasks[i]) \/ TailSettled(i),
         NEW u \in Task, u.alert = tasks[i].alert, u.at \notin {"tail", "lost", "processed"},
         ~MaySent(tasks[i]),
         tasks' = [tasks EXCEPT ![i] = u],
         pending' = IF u.at \in Over THEN pending - 1 ELSE pending,
         records' = records, mailed' = mailed,
         Ready(u, records[u.alert], mailed[u.alert])
  PROVE  IInv'
<1>. DEFINE a == tasks[i].alert
<1>1. /\ a \in Alert /\ records[a] \in [Status -> Nat] /\ mailed[a] \in Nat
      /\ Bad(tasks, a) \in Nat /\ Processed(tasks, a) \in Nat
      /\ Balanced(records[a], mailed[a], Bad(tasks, a), 0)
      /\ Told(records[a], mailed[a], Processed(tasks, a))
  BY Mine
<1>2. records' \in Rows /\ mailed' \in Mails
  BY DEF IInv, Typed
<1>3. Balanced(records[a], mailed[a], Bad(tasks, a) + (IF u.at = "error" THEN 1 ELSE 0),
               IF MaySent(u) THEN 1 ELSE 0)
  BY <1>1 DEF Balanced, Status
<1>4. Told(records[a], mailed[a], Processed(tasks, a) + (IF u.at = "processed" THEN 1 ELSE 0))
  BY <1>1
<1>. HIDE DEF a
<1>5. a = tasks[i].alert
  BY DEF a
<1>. QED
  BY <1>1, <1>2, <1>3, <1>4, <1>5, MoveKeeps

-----------------------------------------------------------------------------
(* The steps of an incident. *)

\* The incident at its next await, and with the row it will insert.
At(t, await) == [t EXCEPT !.at = await]
ForRow(t, status) == [t EXCEPT !.at = "insertRecord", !.status = status]

\* An incident at its next await is still an incident, and only its place (and status) has
\* changed.
LEMMA Moved ==
  ASSUME NEW t \in Task
  PROVE  /\ \A await \in Await \cup Over :
              /\ At(t, await) \in Task /\ At(t, await).alert = t.alert /\ At(t, await).at = await
              /\ At(t, await).step = t.step
         /\ \A status \in Status :
              /\ ForRow(t, status) \in Task /\ ForRow(t, status).alert = t.alert
              /\ ForRow(t, status).at = "insertRecord" /\ ForRow(t, status).status = status
BY DEF Task, At, ForRow, Await

\* One more line of the SMTP dialogue changes only the step, or the place with it.
LEMMA Spoke ==
  ASSUME NEW t \in Task, NEW n \in 0..Len(Dialogue)
  PROVE  /\ [t EXCEPT !.step = n] \in Task /\ [t EXCEPT !.step = n].alert = t.alert
         /\ [t EXCEPT !.step = n].at = t.at /\ [t EXCEPT !.step = n].step = n
         /\ [t EXCEPT !.at = "smtp", !.step = n] \in Task /\ [t EXCEPT !.at = "smtp", !.step = n].alert = t.alert
         /\ [t EXCEPT !.at = "smtp", !.step = n].at = "smtp" /\ [t EXCEPT !.at = "smtp", !.step = n].step = n
BY DEF Task, Await

\* What GoOn and ToRecord do to the list of incidents, in the words of the lemmas.
LEMMA Moves ==
  ASSUME tasks \in Seq(Task), NEW i \in DOMAIN tasks
  PROVE  /\ \A await : GoOn(i, await) => tasks' = [tasks EXCEPT ![i] = At(tasks[i], await)]
         /\ \A status : ToRecord(i, status) => tasks' = [tasks EXCEPT ![i] = ForRow(tasks[i], status)]
BY DEF GoOn, ToRecord, At, ForRow

\* The worker takes the next incident up only when the one before it has settled.
LEMMA StartKeeps ==
  ASSUME IInv, NEW i \in DOMAIN tasks, Start(i)
  PROVE  IInv'
<1>. DEFINE t == tasks[i]
<1>1. t \in Task /\ t.at = "tail" /\ TailSettled(i) /\ tasks \in Seq(Task)
  BY DEF IInv, Typed, Start
<1>2. t.at \notin Over /\ ~MaySent(t)
  BY <1>1 DEF Over, MaySent
<1>3. CASE GoOn(i, "hasSentRecord")
  <2>1. tasks' = [tasks EXCEPT ![i] = At(t, "hasSentRecord")]
    BY <1>1, <1>3, Moves
  <2>2. At(t, "hasSentRecord") \in Task /\ At(t, "hasSentRecord").alert = t.alert /\ At(t, "hasSentRecord").at = "hasSentRecord"
    BY <1>1, Moved DEF Await
  <2>3. "hasSentRecord" \notin Over /\ \A r, m : Ready(At(t, "hasSentRecord"), r, m)
    BY <2>2 DEF Over, Ready, Unsent, PastMessage
  <2>. QED
    BY <1>1, <1>2, <2>1, <2>2, <2>3, MoveSilently DEF Start
<1>4. CASE ToRecord(i, "suppressed")
  <2>1. tasks' = [tasks EXCEPT ![i] = ForRow(t, "suppressed")]
    BY <1>1, <1>4, Moves
  <2>2. /\ ForRow(t, "suppressed") \in Task /\ ForRow(t, "suppressed").alert = t.alert
        /\ ForRow(t, "suppressed").at = "insertRecord" /\ ForRow(t, "suppressed").status = "suppressed"
    BY <1>1, Moved DEF Status
  <2>3. "insertRecord" \notin Over /\ \A r, m : Ready(ForRow(t, "suppressed"), r, m)
    BY <2>2 DEF Over, Ready, Unsent, PastMessage
  <2>. QED
    BY <1>1, <1>2, <2>1, <2>2, <2>3, MoveSilently DEF Start
<1>. QED
  BY <1>3, <1>4 DEF Start

\* An error before the row: the incident is over and nothing was sent.
LEMMA ErrorKeeps ==
  ASSUME IInv, NEW i \in DOMAIN tasks, Underway(tasks[i]), ~MaySent(tasks[i]),
         Settle(i, "error"), records' = records, mailed' = mailed
  PROVE  IInv'
<1>. DEFINE t == tasks[i]
<1>1. t \in Task /\ tasks \in Seq(Task) /\ t.at \notin Over
  BY DEF IInv, Typed, Underway
<1>2. tasks' = [tasks EXCEPT ![i] = At(t, "error")] /\ pending' = pending - 1
  BY <1>1, Moves DEF Settle
<1>3. At(t, "error") \in Task /\ At(t, "error").alert = t.alert /\ At(t, "error").at = "error"
  BY <1>1, Moved DEF Over
<1>4. "error" \in Over /\ \A r, m : Ready(At(t, "error"), r, m)
  BY <1>3 DEF Over, Ready, Unsent, PastMessage
<1>. QED
  BY <1>1, <1>2, <1>3, <1>4, MoveSilently

\* The look-up leaves the records alone and moves its incident on.
LEMMA LookUpKeeps ==
  ASSUME IInv, NEW i \in DOMAIN tasks, LookUp(i)
  PROVE  IInv'
<1>. DEFINE t == tasks[i]
<1>1. t \in Task /\ t.at = "hasSentRecord" /\ tasks \in Seq(Task) /\ records' = records /\ mailed' = mailed
  BY DEF IInv, Typed, LookUp
<1>2. t.at \notin Over /\ ~MaySent(t) /\ Underway(t)
  BY <1>1 DEF Over, MaySent, Underway
<1>3. /\ Told(records[t.alert], mailed[t.alert], Processed(tasks, t.alert))
      /\ records[t.alert] \in [Status -> Nat] /\ mailed[t.alert] \in Nat
  BY <1>2, Mine
<1>4. CASE HasSentRecord(t.alert) /\ ToRecord(i, "duplicate") /\ pending' = pending
  <2>1. tasks' = [tasks EXCEPT ![i] = ForRow(t, "duplicate")]
    BY <1>1, <1>4, Moves
  <2>2. /\ ForRow(t, "duplicate") \in Task /\ ForRow(t, "duplicate").alert = t.alert
        /\ ForRow(t, "duplicate").at = "insertRecord" /\ ForRow(t, "duplicate").status = "duplicate"
    BY <1>1, Moved DEF Status
  <2>3. mailed[t.alert] >= 1
    BY <1>3, <1>4 DEF HasSentRecord, Told, Status
  <2>4. "insertRecord" \notin Over /\ Ready(ForRow(t, "duplicate"), records[t.alert], mailed[t.alert])
    BY <2>2, <2>3 DEF Over, Ready, Unsent, PastMessage
  <2>. QED
    BY <1>1, <1>2, <1>4, <2>1, <2>2, <2>4, MoveSilently
<1>5. CASE ~HasSentRecord(t.alert) /\ GoOn(i, "diagnosis") /\ pending' = pending
  <2>1. tasks' = [tasks EXCEPT ![i] = At(t, "diagnosis")]
    BY <1>1, <1>5, Moves
  <2>2. At(t, "diagnosis") \in Task /\ At(t, "diagnosis").alert = t.alert /\ At(t, "diagnosis").at = "diagnosis"
    BY <1>1, Moved DEF Await
  <2>3. records[t.alert]["sent"] = 0
    BY <1>3, <1>5 DEF HasSentRecord, Status
  <2>4. "diagnosis" \notin Over /\ Ready(At(t, "diagnosis"), records[t.alert], mailed[t.alert])
    BY <2>2, <2>3 DEF Over, Ready, PastMessage
  <2>. QED
    BY <1>1, <1>2, <1>5, <2>1, <2>2, <2>4, MoveSilently
<1>6. CASE Settle(i, "error")
  BY <1>1, <1>2, <1>6, ErrorKeeps
<1>. QED
  BY <1>4, <1>5, <1>6 DEF LookUp

\* The diagnosis moves its incident on, whether the model answers or not.
LEMMA DiagnoseKeeps ==
  ASSUME IInv, NEW i \in DOMAIN tasks, Diagnose(i)
  PROVE  IInv'
<1>. DEFINE t == tasks[i]
<1>1. t \in Task /\ t.at = "diagnosis" /\ tasks \in Seq(Task) /\ records' = records /\ mailed' = mailed
  BY DEF IInv, Typed, Diagnose
<1>2. t.at \notin Over /\ ~MaySent(t) /\ Underway(t) /\ Unsent(t)
  BY <1>1 DEF Over, MaySent, Underway, Unsent
<1>3. records[t.alert]["sent"] = 0
  BY <1>2, Mine DEF Ready
<1>4. CASE GoOn(i, "connect") /\ pending' = pending
  <2>1. tasks' = [tasks EXCEPT ![i] = At(t, "connect")]
    BY <1>1, <1>4, Moves
  <2>2. At(t, "connect") \in Task /\ At(t, "connect").alert = t.alert /\ At(t, "connect").at = "connect"
    BY <1>1, Moved DEF Await
  <2>3. "connect" \notin Over /\ Ready(At(t, "connect"), records[t.alert], mailed[t.alert])
    BY <1>3, <2>2 DEF Over, Ready, PastMessage
  <2>. QED
    BY <1>1, <1>2, <1>4, <2>1, <2>2, <2>3, MoveSilently
<1>5. CASE ToRecord(i, "suppressed") /\ pending' = pending
  <2>1. tasks' = [tasks EXCEPT ![i] = ForRow(t, "suppressed")]
    BY <1>1, <1>5, Moves
  <2>2. /\ ForRow(t, "suppressed") \in Task /\ ForRow(t, "suppressed").alert = t.alert
        /\ ForRow(t, "suppressed").at = "insertRecord" /\ ForRow(t, "suppressed").status = "suppressed"
    BY <1>1, Moved DEF Status
  <2>3. "insertRecord" \notin Over /\ Ready(ForRow(t, "suppressed"), records[t.alert], mailed[t.alert])
    BY <2>2 DEF Over, Ready, Unsent, PastMessage
  <2>. QED
    BY <1>1, <1>2, <1>5, <2>1, <2>2, <2>3, MoveSilently
<1>6. CASE Settle(i, "error")
  BY <1>1, <1>2, <1>6, ErrorKeeps
<1>. QED
  BY <1>4, <1>5, <1>6 DEF Diagnose

\* Opening the connection sends nothing yet.
LEMMA ConnectKeeps ==
  ASSUME IInv, NEW i \in DOMAIN tasks, Connect(i)
  PROVE  IInv'
<1>. DEFINE t == tasks[i]
<1>1. /\ t \in Task /\ t.at = "connect" /\ tasks \in Seq(Task)
      /\ records' = records /\ mailed' = mailed /\ pending' = pending
  BY DEF IInv, Typed, Connect
<1>2. t.at \notin Over /\ ~MaySent(t) /\ Underway(t) /\ Unsent(t)
  BY <1>1 DEF Over, MaySent, Underway, Unsent
<1>3. records[t.alert]["sent"] = 0
  BY <1>2, Mine DEF Ready
<1>4. CASE tasks' = [tasks EXCEPT ![i].at = "smtp", ![i].step = 1]
  <2>. DEFINE u == [t EXCEPT !.at = "smtp", !.step = 1]
  <2>1. tasks' = [tasks EXCEPT ![i] = u]
    BY <1>1, <1>4
  <2>2. u \in Task /\ u.alert = t.alert /\ u.at = "smtp" /\ u.step = 1
    <3>1. 1 \in 0..Len(Dialogue)
      BY DialogueFacts
    <3>. QED
      BY <1>1, <3>1, Spoke
  <2>3. "smtp" \notin Over /\ Ready(u, records[t.alert], mailed[t.alert])
    BY <1>3, <2>2, DialogueFacts DEF Over, Ready, PastMessage
  <2>. HIDE DEF u
  <2>. QED
    BY <1>1, <1>2, <2>1, <2>2, <2>3, MoveSilently
<1>5. CASE ToRecord(i, "failed")
  <2>1. tasks' = [tasks EXCEPT ![i] = ForRow(t, "failed")]
    BY <1>1, <1>5, Moves
  <2>2. /\ ForRow(t, "failed") \in Task /\ ForRow(t, "failed").alert = t.alert
        /\ ForRow(t, "failed").at = "insertRecord" /\ ForRow(t, "failed").status = "failed"
    BY <1>1, Moved DEF Status
  <2>3. "insertRecord" \notin Over /\ Ready(ForRow(t, "failed"), records[t.alert], mailed[t.alert])
    BY <1>3, <2>2 DEF Over, Ready, PastMessage
  <2>. QED
    BY <1>1, <1>2, <2>1, <2>2, <2>3, MoveSilently
<1>. QED
  BY <1>4, <1>5 DEF Connect

\* A mail more, or none, for the alert of i.
LEMMA Mailing ==
  ASSUME mailed \in Mails, NEW i \in DOMAIN tasks, tasks[i].alert \in Alert
  PROVE  LET a == tasks[i].alert
         IN /\ Took(i) => /\ mailed' \in Mails /\ mailed'[a] = mailed[a] + 1
                          /\ \A b \in Alert \ {a} : mailed'[b] = mailed[b]
            /\ UNCHANGED mailed => mailed' \in Mails /\ mailed'[a] = mailed[a]
BY DEF Took, Mails

\* Talk, whatever the server answers.
LEMMA TalkKeeps ==
  ASSUME IInv, NEW i \in DOMAIN tasks, Talk(i)
  PROVE  IInv'
<1>. DEFINE t == tasks[i]
            a == tasks[i].alert
            here == Dialogue[t.step]
<1>1. /\ t \in Task /\ t.at = "smtp" /\ tasks \in Seq(Task)
      /\ records' = records /\ pending' = pending /\ records \in Rows /\ mailed \in Mails
  BY DEF IInv, Typed, Talk
<1>2. t.at \notin Over /\ Underway(t) /\ Unsent(t)
  BY <1>1 DEF Over, Underway, Unsent
<1>3. /\ a \in Alert /\ records[a] \in [Status -> Nat] /\ mailed[a] \in Nat
      /\ Bad(tasks, a) \in Nat /\ Processed(tasks, a) \in Nat
      /\ Ready(t, records[a], mailed[a])
      /\ Balanced(records[a], mailed[a], Bad(tasks, a), IF MaySent(t) THEN 1 ELSE 0)
      /\ Told(records[a], mailed[a], Processed(tasks, a))
  BY <1>2, Mine
<1>4. /\ records[a]["sent"] = 0 /\ t.step \in 1..Len(Dialogue)
      /\ t.step = Len(Dialogue) => mailed[a] >= 1
  BY <1>1, <1>2, <1>3 DEF Ready, PastMessage
<1>5. /\ MaySent(t) <=> t.step = Len(Dialogue)
      /\ here = "message" <=> t.step = Len(Dialogue) - 1
      /\ Len(Dialogue) \in Nat /\ Len(Dialogue) >= 3
  BY <1>1, <1>4, DialogueFacts DEF MaySent
\* What is left to show of the next incident u and the mails m of its alert.
<1>6. ASSUME NEW u \in Task, u.alert = a, u.at \in {"smtp", "stalled", "insertRecord"},
             tasks' = [tasks EXCEPT ![i] = u],
             Took(i) \/ UNCHANGED mailed,
             Ready(u, records[a], mailed'[a]),
             mailed'[a] <= records[a]["failed"] + Bad(tasks, a) + (IF MaySent(u) THEN 1 ELSE 0)
      PROVE  IInv'
  <2>1. /\ mailed' \in Mails /\ \A b \in Alert \ {a} : mailed'[b] = mailed[b]
        /\ mailed'[a] \in Nat /\ mailed'[a] >= mailed[a]
    BY <1>1, <1>3, <1>6, Mailing DEF Mails
  <2>2. u.at \notin Over /\ u.at \notin {"tail", "lost"}
    BY <1>6 DEF Over
  <2>3. Balanced(records[a], mailed'[a], Bad(tasks, a) + (IF u.at = "error" THEN 1 ELSE 0), IF MaySent(u) THEN 1 ELSE 0)
    BY <1>3, <1>4, <1>6, <2>1, <2>2 DEF Balanced, Over, Status
  <2>4. Told(records[a], mailed'[a], Processed(tasks, a) + (IF u.at = "processed" THEN 1 ELSE 0))
    BY <1>3, <2>1, <2>2 DEF Told, Over, Status
  <2>. HIDE DEF a, t
  <2>5. a = tasks[i].alert /\ t = tasks[i]
    BY DEF a, t
  <2>. QED
    BY <1>1, <1>2, <1>3, <1>6, <2>1, <2>2, <2>3, <2>4, <2>5, MoveKeeps
\* The books before the step.
<1>7. mailed[a] <= records[a]["failed"] + Bad(tasks, a) + (IF t.step = Len(Dialogue) THEN 1 ELSE 0)
  BY <1>3, <1>4, <1>5 DEF Balanced, Status
<1>8. Took(i) => mailed'[a] = mailed[a] + 1
  BY <1>1, <1>3, Mailing
<1>9. UNCHANGED mailed => mailed'[a] = mailed[a]
  OBVIOUS
<1>10. records[a]["failed"] \in Nat
  BY <1>3 DEF Status
<1>11. CASE /\ IF here = "message" THEN Took(i) ELSE UNCHANGED mailed
            /\ t.step = Len(Dialogue) /\ ToRecord(i, "sent")
  <2>1. tasks' = [tasks EXCEPT ![i] = ForRow(t, "sent")]
    BY <1>1, <1>11, Moves
  <2>2. /\ ForRow(t, "sent") \in Task /\ ForRow(t, "sent").alert = a
        /\ ForRow(t, "sent").at = "insertRecord" /\ ForRow(t, "sent").status = "sent"
    BY <1>1, Moved DEF Status
  <2>3. UNCHANGED mailed
    BY <1>5, <1>11
  <2>4. Ready(ForRow(t, "sent"), records[a], mailed'[a]) /\ MaySent(ForRow(t, "sent"))
    BY <1>4, <1>9, <1>11, <2>2, <2>3 DEF Ready, MaySent
  <2>. QED
    BY <1>6, <1>7, <1>9, <1>11, <2>1, <2>2, <2>3, <2>4
<1>12. CASE /\ IF here = "message" THEN Took(i) ELSE UNCHANGED mailed
            /\ t.step # Len(Dialogue) /\ tasks' = [tasks EXCEPT ![i].step = @ + 1]
  <2>. DEFINE u == [t EXCEPT !.step = @ + 1]
  <2>1. tasks' = [tasks EXCEPT ![i] = u]
    BY <1>1, <1>12
  <2>2. u \in Task /\ u.alert = a /\ u.at = "smtp" /\ u.step = t.step + 1
    <3>1. t.step + 1 \in 0..Len(Dialogue)
      BY <1>4, <1>5, <1>12
    <3>. QED
      BY <1>1, <3>1, Spoke
  <2>. HIDE DEF u
  <2>3. CASE here = "message"
    <3>1. mailed'[a] = mailed[a] + 1 /\ u.step = Len(Dialogue)
      BY <1>5, <1>8, <1>12, <2>2, <2>3
    <3>2. Ready(u, records[a], mailed'[a]) /\ MaySent(u)
      BY <1>3, <1>4, <1>5, <2>2, <3>1 DEF Ready, MaySent
    <3>3. mailed'[a] <= records[a]["failed"] + Bad(tasks, a) + 1
      BY <1>3, <1>7, <1>10, <1>12, <3>1
    <3>. QED
      BY <1>6, <1>12, <2>1, <2>2, <2>3, <3>2, <3>3
  <2>4. CASE here # "message"
    <3>1. UNCHANGED mailed /\ mailed'[a] = mailed[a] /\ u.step \in 1..Len(Dialogue) /\ u.step # Len(Dialogue)
      BY <1>4, <1>5, <1>12, <2>2, <2>4
    <3>2. Ready(u, records[a], mailed'[a]) /\ ~MaySent(u)
      BY <1>4, <2>2, <3>1 DEF Ready, PastMessage, MaySent
    <3>. QED
      BY <1>6, <1>7, <1>12, <2>1, <2>2, <3>1, <3>2
  <2>. QED
    BY <2>3, <2>4
\* The mail may have gone out at the message, and only there.
<1>13. ASSUME MayTake(i)
       PROVE  /\ Took(i) \/ UNCHANGED mailed
              /\ mailed'[a] <= records[a]["failed"] + Bad(tasks, a) + 1
  <2>1. CASE UNCHANGED mailed
    BY <1>3, <1>7, <1>9, <1>10, <2>1
  <2>2. CASE here = "message" /\ Took(i)
    BY <1>3, <1>5, <1>7, <1>8, <1>10, <2>2
  <2>. QED
    BY <1>13, <2>1, <2>2 DEF MayTake
<1>14. CASE ToRecord(i, "failed") /\ MayTake(i)
  <2>1. tasks' = [tasks EXCEPT ![i] = ForRow(t, "failed")]
    BY <1>1, <1>14, Moves
  <2>2. /\ ForRow(t, "failed") \in Task /\ ForRow(t, "failed").alert = a
        /\ ForRow(t, "failed").at = "insertRecord" /\ ForRow(t, "failed").status = "failed"
    BY <1>1, Moved DEF Status
  <2>3. Ready(ForRow(t, "failed"), records[a], mailed'[a]) /\ MaySent(ForRow(t, "failed"))
    BY <1>4, <2>2 DEF Ready, MaySent, PastMessage
  <2>. QED
    BY <1>6, <1>13, <1>14, <2>1, <2>2, <2>3
<1>15. CASE GoOn(i, "stalled") /\ MayTake(i)
  <2>1. tasks' = [tasks EXCEPT ![i] = At(t, "stalled")]
    BY <1>1, <1>15, Moves
  <2>2. At(t, "stalled") \in Task /\ At(t, "stalled").alert = a /\ At(t, "stalled").at = "stalled"
    BY <1>1, Moved DEF Await
  <2>3. Ready(At(t, "stalled"), records[a], mailed'[a]) /\ MaySent(At(t, "stalled"))
    BY <1>4, <2>2 DEF Ready, MaySent, PastMessage
  <2>. QED
    BY <1>6, <1>13, <1>15, <2>1, <2>2, <2>3
<1>. QED
  BY <1>11, <1>12, <1>14, <1>15 DEF Talk, Broken

\* A row more for the alert of i.
LEMMA Adding ==
  ASSUME records \in Rows, NEW i \in DOMAIN tasks, tasks[i].alert \in Alert, tasks[i].status \in Status, Added(i)
  PROVE  LET a == tasks[i].alert
         IN /\ records' \in Rows
            /\ \A b \in Alert \ {a} : records'[b] = records[b]
            /\ records'[a][tasks[i].status] = records[a][tasks[i].status] + 1
            /\ \A s \in Status \ {tasks[i].status} : records'[a][s] = records[a][s]
BY DEF Added, Rows

\* The row is inserted for an incident whose message has the fate the row tells.
LEMMA InsertRecordKeeps ==
  ASSUME IInv, NEW i \in DOMAIN tasks, InsertRecord(i)
  PROVE  IInv'
<1>. DEFINE t == tasks[i]
            a == tasks[i].alert
            r == records[a]
            next == records'[a]
<1>1. /\ t \in Task /\ t.at = "insertRecord" /\ tasks \in Seq(Task)
      /\ mailed' = mailed /\ records \in Rows /\ mailed \in Mails
  BY DEF IInv, Typed, InsertRecord
<1>2. t.at \notin Over /\ Underway(t) /\ t.status \in Status
  BY <1>1 DEF Over, Underway, Task
<1>3. /\ a \in Alert /\ r \in [Status -> Nat] /\ mailed[a] \in Nat
      /\ Bad(tasks, a) \in Nat /\ Processed(tasks, a) \in Nat
      /\ Ready(t, r, mailed[a])
      /\ Balanced(r, mailed[a], Bad(tasks, a), IF MaySent(t) THEN 1 ELSE 0)
      /\ Told(r, mailed[a], Processed(tasks, a))
  BY <1>2, Mine
<1>4. /\ r["sent"] \in Nat /\ r["failed"] \in Nat /\ r["suppressed"] \in Nat /\ r["duplicate"] \in Nat
  BY <1>3 DEF Status
<1>5. /\ t.status = "sent" => r["sent"] = 0 /\ mailed[a] >= 1
      /\ t.status = "duplicate" => mailed[a] >= 1
      /\ MaySent(t) <=> t.status \in {"sent", "failed"}
  BY <1>1, <1>3 DEF Ready, Unsent, PastMessage, MaySent
<1>6. /\ r["sent"] <= 1 /\ r["sent"] <= mailed[a]
      /\ r["duplicate"] > 0 => mailed[a] > 0
      /\ mailed[a] <= r["sent"] + r["failed"] + Bad(tasks, a) + (IF t.status \in {"sent", "failed"} THEN 1 ELSE 0)
      /\ Processed(tasks, a) <= r["sent"] + r["failed"] + r["suppressed"] + r["duplicate"]
  BY <1>3, <1>5 DEF Balanced, Told
<1>7. Added(i) => /\ records' \in Rows /\ \A b \in Alert \ {a} : records'[b] = records[b]
                  /\ next[t.status] = r[t.status] + 1
                  /\ \A s \in Status \ {t.status} : next[s] = r[s]
  BY <1>1, <1>2, <1>3, Adding
<1>8. Added(i) => /\ Balanced(next, mailed[a], Bad(tasks, a), 0)
                  /\ Told(next, mailed[a], Processed(tasks, a) + 1)
  <2>. SUFFICES ASSUME Added(i)
                PROVE  /\ Balanced(next, mailed[a], Bad(tasks, a), 0)
                       /\ Told(next, mailed[a], Processed(tasks, a) + 1)
    OBVIOUS
  <2>1. next[t.status] = r[t.status] + 1 /\ \A s \in Status \ {t.status} : next[s] = r[s]
    BY <1>7
  <2>. HIDE DEF next, r, a
  <2>2. CASE t.status = "sent"
    <3>1. next["sent"] = 1 /\ next["failed"] = r["failed"] /\ next["suppressed"] = r["suppressed"] /\ next["duplicate"] = r["duplicate"]
      BY <1>5, <2>1, <2>2 DEF Status
    <3>. QED
      BY <1>3, <1>4, <1>5, <1>6, <2>2, <3>1 DEF Balanced, Told
  <2>3. CASE t.status = "failed"
    <3>1. next["sent"] = r["sent"] /\ next["failed"] = r["failed"] + 1 /\ next["suppressed"] = r["suppressed"] /\ next["duplicate"] = r["duplicate"]
      BY <2>1, <2>3 DEF Status
    <3>. QED
      BY <1>3, <1>4, <1>6, <2>3, <3>1 DEF Balanced, Told
  <2>4. CASE t.status = "suppressed"
    <3>1. next["sent"] = r["sent"] /\ next["failed"] = r["failed"] /\ next["suppressed"] = r["suppressed"] + 1 /\ next["duplicate"] = r["duplicate"]
      BY <2>1, <2>4 DEF Status
    <3>. QED
      BY <1>3, <1>4, <1>6, <2>4, <3>1 DEF Balanced, Told
  <2>5. CASE t.status = "duplicate"
    <3>1. next["sent"] = r["sent"] /\ next["failed"] = r["failed"] /\ next["suppressed"] = r["suppressed"] /\ next["duplicate"] = r["duplicate"] + 1
      BY <2>1, <2>5 DEF Status
    <3>. QED
      BY <1>3, <1>4, <1>5, <1>6, <2>5, <3>1 DEF Balanced, Told
  <2>. QED
    BY <1>2, <2>2, <2>3, <2>4, <2>5 DEF Status
\* However it ends, what is left to show is that the books are kept.
<1>9. ASSUME NEW end \in {"processed", "error"}, Settle(i, end),
             records' \in Rows, \A b \in Alert \ {a} : records'[b] = records[b],
             Balanced(next, mailed[a], Bad(tasks, a) + (IF end = "error" THEN 1 ELSE 0), 0),
             Told(next, mailed[a], Processed(tasks, a) + (IF end = "processed" THEN 1 ELSE 0))
      PROVE  IInv'
  <2>. DEFINE u == At(t, end)
  <2>1. tasks' = [tasks EXCEPT ![i] = u] /\ pending' = pending - 1
    BY <1>1, <1>9, Moves DEF Settle
  <2>2. end \in Over /\ end \notin {"tail", "lost"}
    BY <1>9 DEF Over
  <2>3. u \in Task /\ u.alert = a /\ u.at = end
    BY <1>1, <2>2, Moved
  <2>4. Ready(u, next, mailed[a]) /\ ~MaySent(u)
    BY <1>9, <2>3 DEF Ready, Unsent, PastMessage, MaySent
  <2>. HIDE DEF u, a, t
  <2>5. a = tasks[i].alert /\ t = tasks[i]
    BY DEF a, t
  <2>. QED
    BY <1>1, <1>2, <1>3, <1>9, <2>1, <2>2, <2>3, <2>4, <2>5, MoveKeeps
<1>10. CASE Added(i) /\ Settle(i, "processed")
  BY <1>3, <1>7, <1>8, <1>9, <1>10
<1>11. CASE Added(i) /\ Settle(i, "error")
  <2>1. Balanced(next, mailed[a], Bad(tasks, a) + 1, 0) /\ Told(next, mailed[a], Processed(tasks, a))
    <3>1. next \in [Status -> Nat]
      BY <1>3, <1>7, <1>11 DEF Rows
    <3>. HIDE DEF next, r, a
    <3>. QED
      BY <1>3, <1>8, <1>11, <3>1 DEF Balanced, Told, Status
  <2>. QED
    BY <1>3, <1>7, <1>9, <1>11, <2>1
<1>12. CASE UNCHANGED records /\ Settle(i, "error")
  <2>1. next = r
    BY <1>12
  <2>2. Balanced(r, mailed[a], Bad(tasks, a) + 1, 0) /\ Told(r, mailed[a], Processed(tasks, a))
    BY <1>3, <1>4, <1>6 DEF Balanced, Told
  <2>. QED
    BY <1>1, <1>3, <1>9, <1>12, <2>1, <2>2
<1>. QED
  BY <1>10, <1>11, <1>12 DEF InsertRecord

-----------------------------------------------------------------------------
(* The webhook and the crash. *)

\* What a webhook appends.
LEMMA Appended ==
  ASSUME Typed, NEW batch \in Payload, Receive(batch)
  PROVE  /\ Room(batch) \in Nat /\ pending + Room(batch) \in 0..QueueMaxSize
         /\ tasks' \in Seq(Task)
         /\ DOMAIN tasks = 1..Len(tasks) /\ DOMAIN tasks' = 1..(Len(tasks) + Room(batch)) /\ Len(tasks) \in Nat
         /\ \A j \in DOMAIN tasks : tasks'[j] = tasks[j]
         /\ \A j \in DOMAIN tasks' \ DOMAIN tasks : tasks'[j].at = "tail"
<1>. DEFINE new == [n \in 1..Room(batch) |-> NewTask(batch[n])]
<1>1. batch \in Seq(Alert) /\ Len(batch) \in Nat /\ \A n \in 1..Len(batch) : batch[n] \in Alert
  <2>1. PICK n \in 1..MaxPayload : batch \in [1..n -> Alert]
    BY DEF Payload
  <2>2. n \in Nat
    BY <2>1
  <2>3. batch \in Seq(Alert)
    BY <2>1, <2>2
  <2>. QED
    BY <2>3
<1>2. pending \in Nat /\ pending <= QueueMaxSize /\ tasks \in Seq(Task) /\ Len(tasks) \in Nat
  BY QueueMaxSizeIsNatural DEF Typed
<1>3. Room(batch) \in Nat /\ Room(batch) <= Len(batch) /\ pending + Room(batch) \in 0..QueueMaxSize
  BY <1>1, <1>2, QueueMaxSizeIsNatural DEF Room
<1>4. \A a \in Alert : NewTask(a) \in Task /\ NewTask(a).at = "tail"
  <2>1. 0 \in 0..Len(Dialogue)
    BY DialogueFacts
  <2>. QED
    BY <2>1 DEF NewTask, Task, Await, Status
<1>5. \A n \in 1..Room(batch) : new[n] \in Task /\ new[n].at = "tail"
  BY <1>1, <1>3, <1>4
<1>6. new \in Seq(Task) /\ Len(new) = Room(batch)
  BY <1>3, <1>5
<1>7. tasks' = tasks \o new
  BY DEF Receive
<1>. HIDE DEF new
<1>8. /\ tasks \o new \in Seq(Task) /\ Len(tasks \o new) = Len(tasks) + Len(new)
      /\ \A j \in 1..Len(tasks) + Len(new) :
           (tasks \o new)[j] = IF j <= Len(tasks) THEN tasks[j] ELSE new[j - Len(tasks)]
  BY <1>2, <1>6, ConcatProperties
<1>9. DOMAIN tasks = 1..Len(tasks) /\ DOMAIN tasks' = 1..(Len(tasks) + Room(batch)) /\ tasks' \in Seq(Task)
  BY <1>2, <1>6, <1>7, <1>8
<1>10. \A j \in DOMAIN tasks : tasks'[j] = tasks[j]
  BY <1>2, <1>3, <1>6, <1>7, <1>8, <1>9
<1>11. \A j \in DOMAIN tasks' \ DOMAIN tasks : tasks'[j].at = "tail"
  <2>. SUFFICES ASSUME NEW j \in DOMAIN tasks' \ DOMAIN tasks
                PROVE  tasks'[j].at = "tail"
    OBVIOUS
  <2>1. j \in 1..Len(tasks) + Len(new) /\ j > Len(tasks) /\ j - Len(tasks) \in 1..Room(batch)
    BY <1>2, <1>3, <1>6, <1>9
  <2>. QED
    BY <1>5, <1>7, <1>8, <2>1
<1>. QED
  BY <1>2, <1>3, <1>9, <1>10, <1>11

\* The webhook adds what fits in the queue, and counts the rest as dropped.
LEMMA ReceiveKeeps ==
  ASSUME IInv, NEW batch \in Payload, Receive(batch)
  PROVE  IInv'
<1>. DEFINE room == Room(batch)
            Open == {j \in DOMAIN tasks : tasks[j].at \notin Over}
            fresh == (Len(tasks) + 1)..(Len(tasks) + room)
<1>1. /\ room \in Nat /\ pending + room \in 0..QueueMaxSize /\ tasks' \in Seq(Task)
      /\ DOMAIN tasks = 1..Len(tasks) /\ DOMAIN tasks' = 1..(Len(tasks) + room) /\ Len(tasks) \in Nat
      /\ \A j \in DOMAIN tasks : tasks'[j] = tasks[j]
      /\ \A j \in DOMAIN tasks' \ DOMAIN tasks : tasks'[j].at = "tail"
  BY Appended DEF IInv
<1>2. pending' = pending + room /\ records' = records /\ mailed' = mailed
  BY DEF Receive
<1>. HIDE DEF room
<1>3. Typed'
  BY <1>1, <1>2 DEF IInv, Typed
<1>4. \A j \in DOMAIN tasks' \ DOMAIN tasks : tasks'[j].at \notin Over /\ ~Underway(tasks'[j])
  BY <1>1 DEF Over, Underway
<1>5. DOMAIN tasks \subseteq DOMAIN tasks'
  BY <1>1
<1>6. PendingIsBacklog'
  <2>1. Open' = Open \cup fresh /\ Open \cap fresh = {}
    <3>1. fresh = DOMAIN tasks' \ DOMAIN tasks
      BY <1>1
    <3>. HIDE DEF fresh
    <3>. QED
      BY <1>1, <1>4, <1>5, <3>1
  <2>2. IsFiniteSet(fresh) /\ Cardinality(fresh) = room
    <3>. DEFINE first == Len(tasks) + 1
                last == Len(tasks) + room
    <3>1. first \in Int /\ last \in Int /\ (IF first > last THEN 0 ELSE last - first + 1) = room
      BY <1>1
    <3>. HIDE DEF first, last
    <3>2. IsFiniteSet(first..last) /\ Cardinality(first..last) = room
      BY <3>1, FS_Interval
    <3>. QED
      BY <3>2 DEF first, last
  <2>3. IsFiniteSet(Open) /\ Cardinality(Open) \in Nat /\ pending = Cardinality(Open)
    BY FiniteTasks DEF IInv, Typed, PendingIsBacklog
  <2>. HIDE DEF Open, fresh
  <2>4. Cardinality(Open \cup fresh) = Cardinality(Open) + Cardinality(fresh) - Cardinality({})
    BY <2>1, <2>2, <2>3, FS_Union
  <2>5. pending' = Cardinality(Open')
    BY <1>1, <1>2, <2>1, <2>2, <2>3, <2>4, FS_EmptySet
  <2>. QED
    BY <2>5 DEF PendingIsBacklog, Open
<1>7. OneAtATime'
  <2>. SUFFICES ASSUME NEW i \in DOMAIN tasks', NEW j \in DOMAIN tasks', i < j, Underway(tasks'[j])
                PROVE  tasks'[i].at \in Over
    BY DEF OneAtATime
  <2>1. j \in DOMAIN tasks /\ i \in DOMAIN tasks
    BY <1>1, <1>4
  <2>. QED
    BY <1>1, <2>1 DEF IInv, OneAtATime
<1>8. AllReady'
  <2>. SUFFICES ASSUME NEW j \in DOMAIN tasks'
                PROVE  Ready(tasks'[j], records[tasks'[j].alert], mailed[tasks'[j].alert])
    BY <1>2 DEF AllReady
  <2>1. CASE j \in DOMAIN tasks
    BY <1>1, <2>1 DEF IInv, AllReady
  <2>2. CASE j \notin DOMAIN tasks
    BY <1>4, <2>2, NotUnderway
  <2>. QED
    BY <2>1, <2>2
<1>9. Books'
  <2>. SUFFICES ASSUME NEW a \in Alert
                PROVE  /\ Balanced(records[a], mailed[a], Bad(tasks', a), May(tasks', a))
                       /\ Told(records[a], mailed[a], Processed(tasks', a))
    BY <1>2 DEF Books
  <2>1. \A ends \in SUBSET Over : Ended(tasks', a, ends) = Ended(tasks, a, ends)
    BY <1>1, <1>4, <1>5 DEF Ended
  <2>2. {"error", "lost"} \in SUBSET Over /\ {"processed"} \in SUBSET Over
    BY DEF Over
  <2>3. Bad(tasks', a) = Bad(tasks, a) /\ Processed(tasks', a) = Processed(tasks, a)
    BY <2>1, <2>2 DEF Bad, Processed
  <2>4. \A j \in DOMAIN tasks' \ DOMAIN tasks : ~MaySent(tasks'[j])
    BY <1>4, NotUnderway
  <2>5. May(tasks', a) = May(tasks, a)
    BY <1>1, <1>5, <2>4 DEF May
  <2>. QED
    BY <2>3, <2>5 DEF IInv, Books
<1>. QED
  BY <1>3, <1>6, <1>7, <1>8, <1>9 DEF IInv

\* A crash loses the incidents of the process and keeps the records and the mail.
LEMMA CrashKeeps ==
  ASSUME IInv, Crash
  PROVE  IInv'
<1>1. tasks \in Seq(Task) /\ records \in Rows /\ mailed \in Mails /\ Len(tasks) \in Nat /\ DOMAIN tasks = 1..Len(tasks)
  BY DEF IInv, Typed
<1>2. records' = records /\ mailed' = mailed /\ pending' = 0
  BY DEF Crash
<1>3. tasks' = [j \in DOMAIN tasks |-> IF tasks[j].at \in Over THEN tasks[j] ELSE At(tasks[j], "lost")]
  BY DEF Crash, At
<1>4. /\ DOMAIN tasks' = DOMAIN tasks
      /\ \A j \in DOMAIN tasks : tasks[j].at \in Over => tasks'[j] = tasks[j]
      /\ \A j \in DOMAIN tasks : tasks[j].at \notin Over => tasks'[j].at = "lost" /\ tasks'[j].alert = tasks[j].alert
      /\ \A j \in DOMAIN tasks : tasks'[j] \in Task /\ tasks'[j].at \in Over
  <2>1. \A j \in DOMAIN tasks : tasks[j] \in Task
    BY <1>1
  <2>2. \A j \in DOMAIN tasks :
          At(tasks[j], "lost") \in Task /\ At(tasks[j], "lost").at = "lost" /\ At(tasks[j], "lost").alert = tasks[j].alert
    BY <2>1, Moved DEF Over
  <2>3. "lost" \in Over
    BY DEF Over
  <2>. QED
    BY <1>3, <2>1, <2>2, <2>3
<1>5. Typed'
  <2>1. tasks' \in Seq(Task)
    BY <1>1, <1>3, <1>4
  <2>. QED
    BY <1>1, <1>2, <2>1, QueueMaxSizeIsNatural DEF Typed
<1>6. PendingIsBacklog'
  <2>1. {j \in DOMAIN tasks' : tasks'[j].at \notin Over} = {}
    BY <1>4
  <2>. QED
    BY <1>2, <2>1, FS_EmptySet DEF PendingIsBacklog
<1>7. \A j \in DOMAIN tasks' : ~Underway(tasks'[j])
  BY <1>4 DEF Underway
<1>8. OneAtATime'
  BY <1>7 DEF OneAtATime
<1>9. AllReady'
  BY <1>7, NotUnderway DEF AllReady
<1>10. Books'
  <2>. SUFFICES ASSUME NEW a \in Alert
                PROVE  /\ Balanced(records[a], mailed[a], Bad(tasks', a), May(tasks', a))
                       /\ Told(records[a], mailed[a], Processed(tasks', a))
    BY <1>2 DEF Books
  <2>. DEFINE bad(s) == Ended(s, a, {"error", "lost"})
  <2>1. Balanced(records[a], mailed[a], Bad(tasks, a), May(tasks, a)) /\ Told(records[a], mailed[a], Processed(tasks, a))
    BY DEF IInv, Books
  <2>2. records[a] \in [Status -> Nat] /\ mailed[a] \in Nat
    BY <1>1 DEF Rows, Mails
  <2>3. Processed(tasks', a) = Processed(tasks, a)
    <3>1. Ended(tasks', a, {"processed"}) = Ended(tasks, a, {"processed"})
      BY <1>4 DEF Ended, Over
    <3>. QED
      BY <3>1 DEF Processed
  <2>4. May(tasks', a) = 0
    BY <1>7, NotUnderway DEF May
  <2>5. bad(tasks) \subseteq bad(tasks') /\ bad(tasks') \subseteq DOMAIN tasks
    BY <1>4 DEF Ended, Over
  <2>6. /\ IsFiniteSet(bad(tasks)) /\ Cardinality(bad(tasks)) \in Nat
        /\ IsFiniteSet(bad(tasks')) /\ Cardinality(bad(tasks')) \in Nat
    <3>1. bad(tasks) \subseteq DOMAIN tasks
      BY DEF Ended
    <3>. HIDE DEF bad
    <3>. QED
      BY <1>1, <2>5, <3>1, FiniteTasks
  \* The one whose mail may be out is now among the lost.
  <2>7. Cardinality(bad(tasks')) >= Cardinality(bad(tasks)) + May(tasks, a)
    <3>1. CASE \E i \in DOMAIN tasks : tasks[i].alert = a /\ MaySent(tasks[i])
      <4>1. PICK i \in DOMAIN tasks : tasks[i].alert = a /\ MaySent(tasks[i])
        BY <3>1
      <4>2. tasks[i].at \notin Over
        BY <4>1 DEF MaySent, Over
      <4>3. i \notin bad(tasks) /\ i \in bad(tasks')
        BY <1>4, <4>1, <4>2 DEF Ended, Over
      <4>4. May(tasks, a) = 1
        BY <3>1 DEF May
      <4>. HIDE DEF bad
      <4>5. Cardinality(bad(tasks) \cup {i}) = Cardinality(bad(tasks)) + 1
        BY <2>6, <4>3, FS_AddElement
      <4>6. bad(tasks) \cup {i} \in SUBSET bad(tasks')
        BY <2>5, <4>3
      <4>7. Cardinality(bad(tasks) \cup {i}) <= Cardinality(bad(tasks'))
        BY <2>6, <4>6, FS_Subset
      <4>. QED
        BY <2>6, <4>4, <4>5, <4>7
    <3>2. CASE ~\E i \in DOMAIN tasks : tasks[i].alert = a /\ MaySent(tasks[i])
      <4>1. May(tasks, a) = 0
        BY <3>2 DEF May
      <4>. HIDE DEF bad
      <4>2. Cardinality(bad(tasks)) <= Cardinality(bad(tasks'))
        BY <2>5, <2>6, FS_Subset
      <4>. QED
        BY <2>6, <4>1, <4>2
    <3>. QED
      BY <3>1, <3>2
  <2>8. Bad(tasks, a) = Cardinality(bad(tasks)) /\ Bad(tasks', a) = Cardinality(bad(tasks')) /\ May(tasks, a) \in {0, 1}
    BY DEF Bad, May
  <2>. HIDE DEF bad
  <2>9. Balanced(records[a], mailed[a], Bad(tasks', a), 0)
    BY <2>1, <2>2, <2>6, <2>7, <2>8 DEF Balanced, Status
  <2>. QED
    BY <2>1, <2>3, <2>4, <2>9
<1>. QED
  BY <1>5, <1>6, <1>8, <1>9, <1>10 DEF IInv

-----------------------------------------------------------------------------
(* The whole. *)

\* The empty notifier has the invariant.
LEMMA InitHolds == Init => IInv
<1>. SUFFICES ASSUME Init PROVE IInv
  OBVIOUS
<1>1. DOMAIN tasks = {} /\ tasks \in Seq(Task)
  BY DEF Init
<1>2. Typed
  BY <1>1, QueueMaxSizeIsNatural DEF Init, Typed, Rows, Mails
<1>3. PendingIsBacklog
  <2>1. {i \in DOMAIN tasks : tasks[i].at \notin Over} = {}
    BY <1>1
  <2>. QED
    BY <2>1, FS_EmptySet DEF Init, PendingIsBacklog
<1>4. OneAtATime /\ AllReady
  BY <1>1 DEF OneAtATime, AllReady
<1>5. Books
  <2>. SUFFICES ASSUME NEW a \in Alert
                PROVE  /\ Balanced(records[a], mailed[a], Bad(tasks, a), May(tasks, a))
                       /\ Told(records[a], mailed[a], Processed(tasks, a))
    BY DEF Books
  <2>1. \A ends : Ended(tasks, a, ends) = {}
    BY <1>1 DEF Ended
  <2>2. Bad(tasks, a) = 0 /\ Processed(tasks, a) = 0
    BY <2>1, FS_EmptySet DEF Bad, Processed
  <2>3. May(tasks, a) = 0
    BY <1>1 DEF May
  <2>4. mailed[a] = 0 /\ \A s \in Status : records[a][s] = 0
    BY DEF Init
  <2>. QED
    BY <2>2, <2>3, <2>4 DEF Balanced, Told, Status
<1>. QED
  BY <1>2, <1>3, <1>4, <1>5 DEF IInv

\* Every step of the notifier keeps the invariant.
LEMMA NextKeeps == IInv /\ [Next]_vars => IInv'
<1>. SUFFICES ASSUME IInv, [Next]_vars PROVE IInv'
  OBVIOUS
<1>1. CASE \E batch \in Payload : Receive(batch)
  BY <1>1, ReceiveKeeps
<1>2. ASSUME NEW i \in 1..MaxTasks, Step(i)
      PROVE  IInv'
  <2>1. i \in DOMAIN tasks
    BY <1>2 DEF Step
  <2>. QED
    BY <1>2, <2>1, StartKeeps, LookUpKeeps, DiagnoseKeeps, ConnectKeeps, TalkKeeps, InsertRecordKeeps DEF Step
<1>3. CASE Crash
  BY <1>3, CrashKeeps
<1>4. CASE UNCHANGED vars
  BY <1>4 DEF vars, IInv, Typed, PendingIsBacklog, OneAtATime, AllReady, Books
<1>. QED
  BY <1>1, <1>2, <1>3, <1>4 DEF Next

\* The invariant holds throughout: the theorems below read it off.
LEMMA Invariant == Spec => []IInv
BY InitHolds, NextKeeps, PTL DEF Spec

\* Whatever is sent to the queue, its counter stays between zero and the size
\* of the queue, and an incident is at a place its code has.
THEOREM AlwaysTyped == Spec => []TypeOK
<1>1. IInv => TypeOK
  <2>. SUFFICES ASSUME IInv PROVE TypeOK
    OBVIOUS
  <2>1. \A i \in DOMAIN tasks : tasks[i] \in Task
    BY DEF IInv, Typed
  <2>. QED
    BY <2>1 DEF IInv, Typed, TypeOK, Task, Rows, Mails
<1>. QED
  BY <1>1, Invariant, PTL

\* AlertmanagerNotificationQueueService: pending is the number of accepted
\* incidents that are not over, however they end.
THEOREM PendingIsTheBacklog == Spec => []PendingIsBacklog
<1>1. IInv => PendingIsBacklog
  BY DEF IInv
<1>. QED
  BY <1>1, Invariant, PTL

\* EmailNotifierService sends a second report of an alert only when an earlier
\* one is recorded as failed, or ended without a record.
THEOREM NoSecondMailWithoutFailure == Spec => []SecondMailNeedsFailure
<1>1. IInv => SecondMailNeedsFailure
  <2>. SUFFICES ASSUME IInv, NEW a \in Alert
                PROVE  mailed[a] <= 1 + records[a]["failed"] + Bad(tasks, a)
    BY DEF SecondMailNeedsFailure, Bad, Ended, TasksOf
  <2>1. Balanced(records[a], mailed[a], Bad(tasks, a), May(tasks, a))
    BY DEF IInv, Books
  <2>2. records[a]["sent"] \in Nat /\ records[a]["failed"] \in Nat /\ mailed[a] \in Nat
    BY DEF IInv, Typed, Rows, Mails, Status
  <2>3. Bad(tasks, a) \in Nat
    <3>1. Ended(tasks, a, {"error", "lost"}) \subseteq DOMAIN tasks /\ tasks \in Seq(Task)
      BY DEF Ended, IInv, Typed
    <3>. QED
      BY <3>1, FiniteTasks DEF Bad
  <2>4. CASE May(tasks, a) = 0
    BY <2>1, <2>2, <2>3, <2>4 DEF Balanced
  <2>5. CASE May(tasks, a) # 0
    <3>1. PICK i \in DOMAIN tasks : tasks[i].alert = a /\ MaySent(tasks[i])
      BY <2>5 DEF May
    <3>2. Unsent(tasks[i])
      BY <3>1 DEF MaySent, Unsent
    <3>3. records[a]["sent"] = 0 /\ May(tasks, a) = 1
      BY <2>5, <3>1, <3>2 DEF IInv, AllReady, Ready, May
    <3>. QED
      BY <2>1, <2>2, <2>3, <3>3 DEF Balanced
  <2>. QED
    BY <2>4, <2>5
<1>. QED
  BY <1>1, Invariant, PTL

\* email_delivery_records: a processed incident left a row, and no row tells
\* of a report that did not go out.
THEOREM RecordsTellTheTruth == Spec => []ProcessedLeavesRecord
<1>1. IInv => ProcessedLeavesRecord
  BY DEF IInv, Books, Told, ProcessedLeavesRecord, Processed, Ended, TasksOf
<1>. QED
  BY <1>1, Invariant, PTL

\* hasSentRecord is still right when the report goes out minutes later.
THEOREM NeverMailedAfterSent == Spec => NoMailAfterSent
<1>1. IInv /\ [Next]_vars => [\A a \in Alert : mailed'[a] # mailed[a] => records[a]["sent"] = 0]_vars
  <2>. SUFFICES ASSUME IInv, Next, NEW a \in Alert, mailed'[a] # mailed[a]
                PROVE  records[a]["sent"] = 0
    BY DEF vars
  <2>1. PICK i \in 1..MaxTasks : Talk(i) /\ i \in DOMAIN tasks
    BY DEF Next, Step, Receive, Crash, Start, LookUp, Diagnose, Connect, InsertRecord
  <2>2. tasks[i].alert = a
    BY <2>1 DEF Talk, MayTake, Took, IInv, Typed, Mails
  <2>3. Unsent(tasks[i])
    BY <2>1 DEF Talk, Unsent
  <2>. QED
    BY <2>1, <2>2, <2>3 DEF IInv, AllReady, Ready
<1>. QED
  BY <1>1, Invariant, PTL DEF Spec, NoMailAfterSent
-----------------------------------------------------------------------------
(* Progress: what of EndsUnlessStalled does not need fairness.             *)

\* How far an incident has come.
Progress(t) ==
  CASE t.at = "tail" -> 0
    [] t.at = "hasSentRecord" -> 1
    [] t.at = "diagnosis" -> 2
    [] t.at = "connect" -> 3
    [] t.at = "smtp" -> 3 + t.step
    [] t.at \in {"stalled", "insertRecord"} -> 4 + Len(Dialogue)
    [] OTHER -> 5 + Len(Dialogue)

\* An accepted incident keeps its place in the order and its alert, and moves,
\* if at all, forward.
OnlyForward ==
  \A i \in DOMAIN tasks :
    /\ i \in DOMAIN tasks' /\ tasks'[i].alert = tasks[i].alert
    /\ tasks'[i] # tasks[i] => Progress(tasks[i]) < Progress(tasks'[i])

\* Incidents are taken up in the order of the webhooks.
InOrder ==
  \A i, j \in DOMAIN tasks : i < j /\ tasks[j].at # "tail" => tasks[i].at \in Over

\* The backlog is one incident that is being worked on, or whose turn has
\* come, and behind it those that wait.
OneAhead ==
  \A i \in DOMAIN tasks :
    tasks[i].at \notin Over =>
      \E first \in 1..i :
        /\ tasks[first].at \notin Over /\ TailSettled(first)
        /\ \A j \in DOMAIN tasks : j > first => tasks[j].at = "tail"

\* The places one by one.
LEMMA Places ==
  ASSUME NEW t \in Task
  PROVE  /\ t.at = "tail" => Progress(t) = 0
         /\ t.at = "hasSentRecord" => Progress(t) = 1
         /\ t.at = "diagnosis" => Progress(t) = 2
         /\ t.at = "connect" => Progress(t) = 3
         /\ t.at = "smtp" => Progress(t) = 3 + t.step
         /\ t.at \in {"stalled", "insertRecord"} => Progress(t) = 4 + Len(Dialogue)
         /\ t.at \in Over => Progress(t) = 5 + Len(Dialogue)
         /\ t.step \in 0..Len(Dialogue) /\ Len(Dialogue) \in Nat /\ Len(Dialogue) >= 3
<1>1. t.step \in 0..Len(Dialogue) /\ Len(Dialogue) \in Nat /\ Len(Dialogue) >= 3
  BY DialogueFacts DEF Task
<1>. QED
  BY <1>1 DEF Progress, Over

\* An incident that is not over is before those that are.
LEMMA BeforeTheEnd ==
  ASSUME NEW t \in Task, t.at \notin Over
  PROVE  Progress(t) < 5 + Len(Dialogue)
BY Places DEF Task, Await

\* A step that moves one incident forward, and takes up none out of turn.
LEMMA MoveForward ==
  ASSUME IInv, InOrder, NEW i \in DOMAIN tasks, NEW u \in Task, u.alert = tasks[i].alert,
         tasks' = [tasks EXCEPT ![i] = u],
         Progress(tasks[i]) < Progress(u),
         tasks[i].at \notin Over,
         tasks[i].at # "tail" \/ TailSettled(i)
  PROVE  OnlyForward /\ InOrder'
<1>1. /\ DOMAIN tasks' = DOMAIN tasks /\ tasks'[i] = u
      /\ \A j \in DOMAIN tasks : j # i => tasks'[j] = tasks[j]
      /\ DOMAIN tasks = 1..Len(tasks) /\ Len(tasks) \in Nat
  BY Replaced DEF IInv, Typed
<1>2. OnlyForward
  BY <1>1 DEF OnlyForward
<1>3. \A j \in DOMAIN tasks : j < i => tasks[j].at \in Over
  BY <1>1 DEF InOrder, TailSettled
<1>4. \A j \in DOMAIN tasks : i < j => tasks[j].at = "tail"
  BY DEF InOrder
<1>5. InOrder'
  BY <1>1, <1>3, <1>4 DEF InOrder
<1>. QED
  BY <1>2, <1>5

\* The steps of an incident.
LEMMA StepForward ==
  ASSUME IInv, InOrder, NEW i \in DOMAIN tasks, Step(i)
  PROVE  OnlyForward /\ InOrder'
<1>. DEFINE t == tasks[i]
<1>1. t \in Task /\ tasks \in Seq(Task) /\ t.at \in Await \cup Over
  <2>1. t \in Task /\ tasks \in Seq(Task)
    BY DEF IInv, Typed
  <2>. QED
    BY <2>1 DEF Task
<1>2. /\ \A await : GoOn(i, await) => tasks' = [tasks EXCEPT ![i] = At(t, await)]
      /\ \A status : ToRecord(i, status) => tasks' = [tasks EXCEPT ![i] = ForRow(t, status)]
  BY <1>1, Moves
<1>3. t.at \notin Over
  BY DEF Step, Start, LookUp, Diagnose, Connect, Talk, InsertRecord, Over
<1>4. t.at # "tail" \/ TailSettled(i)
  BY DEF Step, Start, LookUp, Diagnose, Connect, Talk, InsertRecord
<1>5. ASSUME NEW status \in Status, ToRecord(i, status), t.at \notin {"insertRecord", "stalled"}
      PROVE  OnlyForward /\ InOrder'
  <2>. DEFINE u == ForRow(t, status)
  <2>1. u \in Task /\ u.alert = t.alert /\ u.at = "insertRecord" /\ tasks' = [tasks EXCEPT ![i] = u]
    BY <1>1, <1>2, <1>5, Moved
  <2>. HIDE DEF u
  <2>2. Progress(u) = 4 + Len(Dialogue)
    BY <2>1, Places
  <2>3. Progress(t) < Progress(u)
    BY <1>1, <1>3, <1>5, <2>2, Places DEF Await
  <2>. QED
    BY <1>3, <1>4, <2>1, <2>3, MoveForward
<1>6. ASSUME NEW await \in Await \cup Over, GoOn(i, await),
             \A u \in Task : u.at = await /\ u.step = t.step => Progress(t) < Progress(u)
      PROVE  OnlyForward /\ InOrder'
  <2>. DEFINE u == At(t, await)
  <2>1. u \in Task /\ u.alert = t.alert /\ u.at = await /\ u.step = t.step /\ tasks' = [tasks EXCEPT ![i] = u]
    BY <1>1, <1>2, <1>6, Moved
  <2>. HIDE DEF u
  <2>2. Progress(t) < Progress(u)
    BY <1>6, <2>1
  <2>. QED
    BY <1>3, <1>4, <2>1, <2>2, MoveForward
<1>7. ASSUME NEW end \in Over, Settle(i, end) PROVE OnlyForward /\ InOrder'
  <2>1. \A u \in Task : u.at = end => Progress(t) < Progress(u)
    BY <1>1, <1>3, Places, BeforeTheEnd
  <2>. QED
    BY <1>6, <1>7, <2>1 DEF Settle
<1>8. ASSUME NEW n \in 1..Len(Dialogue), tasks' = [tasks EXCEPT ![i] = [t EXCEPT !.at = "smtp", !.step = n]],
             t.at = "connect" \/ (t.at = "smtp" /\ t.step < n)
      PROVE  OnlyForward /\ InOrder'
  <2>. DEFINE u == [t EXCEPT !.at = "smtp", !.step = n]
  <2>1. u \in Task /\ u.alert = t.alert /\ u.at = "smtp" /\ u.step = n
    <3>1. n \in 0..Len(Dialogue)
      BY DialogueFacts
    <3>. QED
      BY <1>1, <3>1, Spoke
  <2>. HIDE DEF u
  <2>2. Progress(t) < Progress(u)
    BY <1>1, <1>8, <2>1, Places
  <2>. QED
    BY <1>3, <1>4, <1>8, <2>1, <2>2, MoveForward DEF u
<1>9. CASE Start(i)
  <2>1. \A u \in Task : u.at = "hasSentRecord" => Progress(t) < Progress(u)
    BY <1>1, <1>9, Places DEF Start
  <2>. QED
    BY <1>5, <1>6, <1>9, <2>1 DEF Start, Await, Status
<1>10. CASE LookUp(i)
  <2>1. \A u \in Task : u.at = "diagnosis" => Progress(t) < Progress(u)
    BY <1>1, <1>10, Places DEF LookUp
  <2>. QED
    BY <1>5, <1>6, <1>7, <1>10, <2>1 DEF LookUp, Await, Status, Over
<1>11. CASE Diagnose(i)
  <2>1. \A u \in Task : u.at = "connect" => Progress(t) < Progress(u)
    BY <1>1, <1>11, Places DEF Diagnose
  <2>. QED
    BY <1>5, <1>6, <1>7, <1>11, <2>1 DEF Diagnose, Await, Status, Over
<1>12. CASE Connect(i)
  <2>1. 1 \in 1..Len(Dialogue)
    BY DialogueFacts
  <2>2. CASE tasks' = [tasks EXCEPT ![i].at = "smtp", ![i].step = 1]
    <3>1. tasks' = [tasks EXCEPT ![i] = [t EXCEPT !.at = "smtp", !.step = 1]]
      BY <1>1, <2>2
    <3>. QED
      BY <1>8, <1>12, <2>1, <3>1 DEF Connect
  <2>. QED
    BY <1>5, <1>12, <2>2 DEF Connect, Status
<1>13. CASE Talk(i)
  <2>1. t.at = "smtp" /\ t.step \in 1..Len(Dialogue) /\ Len(Dialogue) \in Nat
    BY <1>13, DialogueFacts DEF Talk, IInv, AllReady, Ready
  <2>2. CASE t.step # Len(Dialogue) /\ tasks' = [tasks EXCEPT ![i].step = @ + 1]
    <3>1. t.step + 1 \in 1..Len(Dialogue)
      BY <2>1, <2>2
    <3>2. [t EXCEPT !.step = t.step + 1] = [t EXCEPT !.at = "smtp", !.step = t.step + 1]
      BY <1>1, <2>1 DEF Task
    <3>3. tasks' = [tasks EXCEPT ![i] = [t EXCEPT !.at = "smtp", !.step = t.step + 1]]
      BY <1>1, <2>2, <3>2
    <3>4. t.step < t.step + 1
      BY <2>1
    <3>. QED
      BY <1>8, <2>1, <3>1, <3>3, <3>4
  <2>3. \A u \in Task : u.at = "stalled" => Progress(t) < Progress(u)
    BY <1>1, <2>1, Places
  <2>. QED
    BY <1>5, <1>6, <1>13, <2>1, <2>2, <2>3 DEF Talk, Broken, Await, Status
<1>14. CASE InsertRecord(i)
  BY <1>7, <1>14 DEF InsertRecord, Over
<1>. QED
  BY <1>9, <1>10, <1>11, <1>12, <1>13, <1>14 DEF Step

\* Every step of the notifier.
LEMMA NextForward ==
  ASSUME IInv, InOrder, [Next]_vars
  PROVE  OnlyForward /\ InOrder'
<1>1. CASE \E batch \in Payload : Receive(batch)
  <2>1. PICK batch \in Payload : Receive(batch)
    BY <1>1
  <2>2. /\ Room(batch) \in Nat
        /\ DOMAIN tasks = 1..Len(tasks) /\ DOMAIN tasks' = 1..(Len(tasks) + Room(batch)) /\ Len(tasks) \in Nat
        /\ \A j \in DOMAIN tasks : tasks'[j] = tasks[j]
        /\ \A j \in DOMAIN tasks' \ DOMAIN tasks : tasks'[j].at = "tail"
    BY <2>1, Appended DEF IInv
  <2>3. OnlyForward
    BY <2>2 DEF OnlyForward
  <2>4. InOrder'
    BY <2>2 DEF InOrder
  <2>. QED
    BY <2>3, <2>4
<1>2. ASSUME NEW i \in 1..MaxTasks, Step(i)
      PROVE  OnlyForward /\ InOrder'
  BY <1>2, StepForward DEF Step
<1>3. CASE Crash
  <2>1. \A j \in DOMAIN tasks : tasks[j] \in Task
    BY DEF IInv, Typed
  <2>2. "lost" \in Over
    BY DEF Over
  <2>3. /\ DOMAIN tasks' = DOMAIN tasks
        /\ \A j \in DOMAIN tasks : tasks[j].at \in Over => tasks'[j] = tasks[j]
        /\ \A j \in DOMAIN tasks : tasks[j].at \notin Over => tasks'[j] = At(tasks[j], "lost")
    BY <1>3 DEF Crash, At
  <2>4. \A j \in DOMAIN tasks : tasks[j].at \notin Over =>
          tasks'[j] \in Task /\ tasks'[j].at = "lost" /\ tasks'[j].alert = tasks[j].alert
    BY <2>1, <2>2, <2>3, Moved
  <2>5. OnlyForward
    <3>. SUFFICES ASSUME NEW j \in DOMAIN tasks, tasks[j].at \notin Over
                  PROVE  Progress(tasks[j]) < Progress(tasks'[j])
      BY <2>3, <2>4 DEF OnlyForward
    <3>1. Progress(tasks'[j]) = 5 + Len(Dialogue)
      BY <2>2, <2>4, Places
    <3>. QED
      BY <2>1, <3>1, BeforeTheEnd
  <2>6. InOrder'
    BY <2>2, <2>3, <2>4 DEF InOrder
  <2>. QED
    BY <2>5, <2>6
<1>4. CASE UNCHANGED vars
  BY <1>4 DEF vars, OnlyForward, InOrder
<1>. QED
  BY <1>1, <1>2, <1>3, <1>4 DEF Next

\* No incident, no order.
LEMMA InitInOrder == Init => InOrder
BY DEF Init, InOrder

\* AlertmanagerNotificationQueueService: nothing that is accepted is forgotten,
\* taken up twice or sent back: an incident stays in the list and goes from
\* await to await, one reply of the mail server at a time, to its end, which is
\* for good.
THEOREM IncidentsGoForward == Spec => [][OnlyForward]_vars
<1>1. IInv /\ InOrder /\ [Next]_vars => OnlyForward /\ InOrder'
  BY NextForward
<1>. QED
  BY <1>1, Invariant, InitInOrder, PTL DEF Spec

\* The promise chain of enqueue is first in, first out, with one incident at
\* its head that waits for nobody: whatever is not over waits for that one, and
\* it is at work or free to start.
THEOREM TheHeadNeverWaits == Spec => []OneAhead
<1>1. IInv /\ InOrder => OneAhead
  <2>. SUFFICES ASSUME IInv, InOrder, NEW i \in DOMAIN tasks, tasks[i].at \notin Over
                PROVE  \E first \in 1..i :
                         /\ tasks[first].at \notin Over /\ TailSettled(first)
                         /\ \A j \in DOMAIN tasks : j > first => tasks[j].at = "tail"
    BY DEF OneAhead
  <2>1. DOMAIN tasks = 1..Len(tasks) /\ Len(tasks) \in Nat
    BY DEF IInv, Typed
  <2>. DEFINE open == {j \in 1..i : tasks[j].at \notin Over}
  <2>2. open \in SUBSET Nat /\ i \in open
    BY <2>1
  <2>3. PICK first \in open : \A j \in open : first <= j
    BY <2>2, LeastNumber
  <2>4. TailSettled(first)
    BY <2>1, <2>3 DEF TailSettled
  <2>5. \A j \in DOMAIN tasks : j > first => tasks[j].at = "tail"
    BY <2>1, <2>3 DEF InOrder
  <2>. QED
    BY <2>3, <2>4, <2>5
<1>2. IInv /\ InOrder /\ [Next]_vars => InOrder'
  BY NextForward
<1>. QED
  BY <1>1, <1>2, Invariant, InitInOrder, PTL DEF Spec
=============================================================================
