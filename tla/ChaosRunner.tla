---------------------------- MODULE ChaosRunner ----------------------------
(***************************************************************************)
(* The chaos runner of monitoring/demo/server.js: runs wait in a queue, one*)
(* at a time is executed by runChaos, and two kinds of HTTP handlers work  *)
(* beside it, cancelling one run or recovering from all of them.  A handler*)
(* awaits the recovery of the targets, and so does runChaos, so a run that *)
(* was cancelled may still be inside a step while the next one has begun.  *)
(*                                                                         *)
(* One step of the model is what runs between two awaits, where the        *)
(* handlers may come in although some awaits return at once.  A scenario is*)
(* the kinds of its steps:                                                 *)
(*   "break"   docker stop or kill, disk fill: not abortable               *)
(*   "repair"  docker start, disk clean-up: not abortable                  *)
(*   "delay", "undelay"  tc qdisc replace and del: not abortable           *)
(*   "stress"  child processes that burn CPU, memory or DB sessions        *)
(*   "probe"   one HTTP request or telemetry query: not abortable          *)
(*   "wait"    load, or polling Prometheus: ends on abort                  *)
(*   "cap"     polling with blockOnTimeout                                 *)
(* What the recovery does to the targets is one command.                   *)
(***************************************************************************)
EXTENDS Naturals, FiniteSets, SequencesExt

CONSTANTS
  Run,        \* crypto.randomUUID() of each run, in a behaviour of at most that many
  Scenario, Steps, \* CHAOS_SCENARIOS and the kinds of their steps
  MaxCancels, \* bound: runs that somebody cancels in a behaviour
  None

Kind == {"break", "repair", "delay", "undelay", "stress", "probe", "wait", "cap"}

\* What a scenario leaves to be recovered: a container that is stopped or whose
\* disk is full, or the delay on the backend's network.
Target == {"container", "netem"}

ASSUME StepsAreKinds == Steps \in [Scenario -> Seq(Kind) \ {<<>>}]
ASSUME NoneIsNoRun == None \notin Run

\* Only host-high-memory has steps with blockOnTimeout, and it stops nothing.
ASSUME CapsBreakNothing ==
  \A s \in Scenario : \A i, j \in DOMAIN Steps[s] :
    Steps[s][i] = "cap" => Steps[s][j] \notin {"break", "delay"}

VARIABLES
  chaosRuns,        \* the keys of the Map
  run,              \* the run objects, with the await their runChaos is at
  chaosQueue,
  activeChaosRunId,
  broken,           \* the targets that are stopped, full or delayed
  recoveryFailed,   \* those a recovery has reported with ok = false
  cancel,           \* where the cancel handler of each run is
  recover           \* where the global recovery handler is

vars == <<chaosRuns, run, chaosQueue, activeChaosRunId, broken, recoveryFailed, cancel, recover>>

Terminal == {"pass", "fail", "blocked_by_safety_cap", "cancelled"}
Handler == {"idle", "repair", "settle", "done"}

\* "struck": the docker command has taken effect and not yet returned.
Object ==
  [scenario : Scenario \cup {None}, status : {"none", "queued", "running"} \cup Terminal,
   finished : BOOLEAN, aborted : BOOLEAN, step : Nat,
   at : {"none", "step", "struck", "repair", "settle", "done"},
   verdict : Terminal, children : BOOLEAN]

NoRun ==
  [scenario |-> None, status |-> "none", finished |-> FALSE, aborted |-> FALSE, step |-> 0,
   at |-> "none", verdict |-> "pass", children |-> FALSE]

KindOf(o) == Steps[o.scenario][o.step]

-----------------------------------------------------------------------------
(* Run objects. *)

\* executeChaosStep up to its await; a stress step spawns at once.
EnterStep(o, n) ==
  [o EXCEPT !.step = n, !.at = "step", !.children = @ \/ Steps[o.scenario][n] = "stress"]

\* Faults: a run is finished again by whoever comes second; whoever finishes
\* clears the active run.
NeverFinished(o) == FALSE
NoActive(r) == None

AlreadyFinished(o) == o.finished

\* A fault: the next run is not started.
StartNobody(known, rs, q, active) ==
  /\ run' = rs
  /\ chaosQueue' = q
  /\ activeChaosRunId' = active

\* startNextChaosRun on the Map's keys, the runs, the queue and the active run:
\* what is not there or not queued any more is passed over.
StartNext(known, rs, q, active) ==
  LET startable == {i \in DOMAIN q : q[i] \in known /\ rs[q[i]].status = "queued"}
  IN \/ /\ active # None
        /\ run' = rs
        /\ chaosQueue' = q
        /\ activeChaosRunId' = active
     \/ /\ active = None /\ startable = {}
        /\ run' = rs
        /\ chaosQueue' = <<>>
        /\ activeChaosRunId' = None
     \/ \E i \in startable :
          /\ active = None /\ \A j \in startable : i <= j
          /\ run' = [rs EXCEPT ![q[i]] = EnterStep([@ EXCEPT !.status = "running"], 1)]
          /\ chaosQueue' = SubSeq(q, i + 1, Len(q))
          /\ activeChaosRunId' = q[i]

ActiveAfter(r) == IF activeChaosRunId = r THEN None ELSE activeChaosRunId

\* Faults: only a run that was started gets the time it finished at; its
\* processes are left to the recovery.
ClosedIfStarted(o, status) ==
  [o EXCEPT !.status = status, !.finished = (o.step > 0), !.children = FALSE]
ClosedOnly(o, status) == [o EXCEPT !.status = status, !.finished = TRUE]

Closed(o, status) ==
  [o EXCEPT !.status = status, !.finished = TRUE, !.children = FALSE]

\* finishChaosRun, the run objects being rs and the queue q.
Finish(r, status, rs, q) ==
  IF AlreadyFinished(rs[r])
  THEN /\ run' = rs
       /\ chaosQueue' = q
       /\ UNCHANGED activeChaosRunId
  ELSE StartNext(chaosRuns, [rs EXCEPT ![r] = Closed(@, status)], q, ActiveAfter(r))

-----------------------------------------------------------------------------
(* runChaos. *)

\* The steps that are one docker command.
Command == {"break", "repair", "delay", "undelay"}

\* What is broken once a command of that kind has taken effect.
Struck(kind) ==
  CASE kind = "break"   -> broken \cup {"container"}
    [] kind = "repair"  -> broken \ {"container"}
    [] kind = "delay"   -> broken \cup {"netem"}
    [] kind = "undelay" -> broken \ {"netem"}

\* The docker command of the step takes effect.
Strike(r) ==
  /\ run[r].at = "step"
  /\ KindOf(run[r]) \in Command
  /\ broken' = Struck(KindOf(run[r]))
  /\ run' = [run EXCEPT ![r].at = "struck"]
  /\ UNCHANGED <<chaosRuns, chaosQueue, activeChaosRunId, recoveryFailed, cancel, recover>>

\* A step that throws counts as cancelled when the run was aborted.
Thrown(o) == IF o.aborted THEN "cancelled" ELSE "fail"

Results(o) ==
  CASE KindOf(o) = "stress"            -> {"pass"}
    [] o.at = "struck"                 -> {"pass", Thrown(o)}
    [] o.at = "step" /\ KindOf(o) \in Command -> {Thrown(o)}
    [] KindOf(o) = "probe"             -> {"pass", "fail", Thrown(o)}
    [] KindOf(o) = "wait"              -> {"pass", Thrown(o)}
    [] KindOf(o) = "cap"               -> {"pass", IF o.aborted THEN "cancelled" ELSE "blocked"}

\* A fault: the run fails without recovery.
FailAtOnce(result) == FALSE

StopsEarly(o) == o.aborted

RecoversAfter(result) == result = "fail"

ToRecovery(r, verdict) ==
  /\ run' = [run EXCEPT ![r].at = "repair", ![r].verdict = verdict]
  /\ UNCHANGED <<chaosQueue, activeChaosRunId>>

\* runChaos returns: what it worked on is not read again.
Over(r) == [run EXCEPT ![r].at = "done", ![r].step = 0, ![r].scenario = None, ![r].verdict = "pass"]

\* The step is over: on to the next one, to the recovery, or to the end.
StepEnds(r, result) ==
  /\ run[r].at \in {"step", "struck"}
  /\ result \in Results(run[r])
  /\ \/ /\ result = "blocked"
        /\ Finish(r, "blocked_by_safety_cap", Over(r), chaosQueue)
     \/ /\ result = "fail" /\ RecoversAfter(result)
        /\ ToRecovery(r, "fail")
     \/ /\ result = "fail" /\ ~RecoversAfter(result)
        /\ Finish(r, "fail", Over(r), chaosQueue)
     \/ /\ result \in {"pass", "cancelled"} /\ run[r].step = Len(Steps[run[r].scenario])
        /\ ToRecovery(r, "pass")
     \/ /\ result \in {"pass", "cancelled"} /\ run[r].step < Len(Steps[run[r].scenario])
        /\ IF StopsEarly(run[r])
           THEN Finish(r, "cancelled", Over(r), chaosQueue)
           ELSE /\ run' = [run EXCEPT ![r] = EnterStep(@, run[r].step + 1)]
                /\ UNCHANGED <<chaosQueue, activeChaosRunId>>
  /\ UNCHANGED <<chaosRuns, broken, recoveryFailed, cancel, recover>>

\* A netem clean-up that fails is taken for one that had no qdisc to clean,
\* and reported with ok = true.
Reported(refused) == refused \ {"netem"}

\* recoverChaosTargets: docker may refuse, which is only written down.
RecoverTargets ==
  \E refused \in SUBSET Target :
    /\ broken' = broken \cap refused
    /\ recoveryFailed' = recoveryFailed \cup Reported(refused)

Repair(r) ==
  /\ run[r].at = "repair"
  /\ RecoverTargets
  /\ run' = [run EXCEPT ![r].at = "settle", ![r].children = FALSE]
  /\ UNCHANGED <<chaosRuns, chaosQueue, activeChaosRunId, cancel, recover>>

End(r) ==
  /\ run[r].at = "settle"
  /\ Finish(r, run[r].verdict, Over(r), chaosQueue)
  /\ UNCHANGED <<chaosRuns, broken, recoveryFailed, cancel, recover>>

-----------------------------------------------------------------------------
(* The handlers. *)

\* POST /qa/chaos/runs, and each run of POST /qa/chaos/run-batch.  Runs that
\* finished long ago are forgotten first.
Enqueue(r, s) ==
  /\ run[r].status = "none"
  /\ \E old \in SUBSET {o \in chaosRuns : run[o].finished} :
       chaosRuns' = (chaosRuns \ old) \cup {r}
  /\ StartNext(chaosRuns', [run EXCEPT ![r] = [NoRun EXCEPT !.scenario = s, !.status = "queued"]],
               Append(chaosQueue, r), activeChaosRunId)
  /\ UNCHANGED <<broken, recoveryFailed, cancel, recover>>

\* A fault: the cancelled run stays in the queue.
QueueKept(r) == chaosQueue

QueueWithout(r) == RemoveFirst(chaosQueue, r)

\* POST /qa/chaos/runs/:runId/cancel, once for each run at most.
Cancel(r) ==
  /\ r \in chaosRuns
  /\ cancel[r] = "idle"
  /\ Cardinality({o \in Run : cancel[o] # "idle"}) < MaxCancels
  /\ LET aborted == [run EXCEPT ![r].aborted = TRUE]
     IN IF run[r].status = "queued"
        THEN /\ Finish(r, "cancelled", aborted, QueueWithout(r))
             /\ cancel' = [cancel EXCEPT ![r] = "done"]
        ELSE /\ run' = aborted
             /\ cancel' = [cancel EXCEPT ![r] = "repair"]
             /\ UNCHANGED <<chaosQueue, activeChaosRunId>>
  /\ UNCHANGED <<chaosRuns, broken, recoveryFailed, recover>>

CancelRepairs(r) ==
  /\ cancel[r] = "repair"
  /\ cancel' = [cancel EXCEPT ![r] = "settle"]
  /\ RecoverTargets
  /\ run' = [run EXCEPT ![r].children = FALSE]
  /\ UNCHANGED <<chaosRuns, chaosQueue, activeChaosRunId, recover>>

CancelEnds(r) ==
  /\ cancel[r] = "settle"
  /\ cancel' = [cancel EXCEPT ![r] = "done"]
  /\ Finish(r, "cancelled", run, chaosQueue)
  /\ UNCHANGED <<chaosRuns, broken, recoveryFailed, recover>>

\* POST /qa/chaos/recover, once in a behaviour: every run is cancelled before
\* the targets are recovered, and none is started.
Recover ==
  /\ recover = "idle"
  /\ recover' = "repair"
  /\ LET hit == {r \in chaosRuns : run[r].status \in {"queued", "running"}}
         queued == {r \in hit : run[r].status = "queued"}
     IN /\ run' = [r \in Run |->
                     IF r \in hit
                     THEN Closed([run[r] EXCEPT !.aborted = TRUE], "cancelled")
                     ELSE run[r]]
        /\ chaosQueue' = FoldSet(LAMBDA r, q : RemoveFirst(q, r), chaosQueue, queued)
        /\ activeChaosRunId' = IF activeChaosRunId \in hit THEN None ELSE activeChaosRunId
  /\ UNCHANGED <<chaosRuns, broken, recoveryFailed, cancel>>

RecoverEnds ==
  /\ recover = "repair"
  /\ recover' = "done"
  /\ RecoverTargets
  /\ UNCHANGED <<chaosRuns, run, chaosQueue, activeChaosRunId, cancel>>

-----------------------------------------------------------------------------
Init ==
  /\ chaosRuns = {}
  /\ run = [r \in Run |-> NoRun]
  /\ chaosQueue = <<>>
  /\ activeChaosRunId = None
  /\ broken = {}
  /\ recoveryFailed = {}
  /\ cancel = [r \in Run |-> "idle"]
  /\ recover = "idle"

Work(r) ==
  \/ \E result \in {"pass", "fail", "blocked", "cancelled"} : StepEnds(r, result)
  \/ Repair(r) \/ End(r)

Next ==
  \/ \E r \in Run :
       \/ \E s \in Scenario : Enqueue(r, s)
       \/ Strike(r) \/ Work(r)
       \/ Cancel(r) \/ CancelRepairs(r) \/ CancelEnds(r)
  \/ Recover \/ RecoverEnds

Spec == Init /\ [][Next]_vars

\* Every command, request and poll has a timeout, its own or the one fetch has
\* when none is given, so whatever runChaos awaits comes back; nobody has to
\* send a request, and no command has to work.
FairSpec == Spec /\ \A r \in Run : WF_vars(Work(r))

-----------------------------------------------------------------------------
(* Correctness. *)

\* Types, and run objects that have a finishing time exactly when their status
\* is a final one.
TypeOK ==
  /\ chaosRuns \subseteq Run
  /\ run \in [Run -> Object]
  /\ \A r \in Run : run[r].finished <=> run[r].status \in Terminal
  /\ chaosQueue \in Seq(Run)
  /\ activeChaosRunId \in Run \cup {None}
  /\ broken \subseteq Target
  /\ recoveryFailed \subseteq Target
  /\ cancel \in [Run -> Handler]
  /\ recover \in Handler

\* Through cancels, recoveries and runs that finish late, one run at most is
\* running and it is the one activeChaosRunId names.
OneRunAtATime == \A r \in Run : run[r].status = "running" <=> activeChaosRunId = r

\* The queue holds the runs that say they are queued, each once, and none that
\* was forgotten; and nothing waits in it while the runner is idle: no path
\* forgets to start the next run.
QueueIsWaiting ==
  /\ {chaosQueue[i] : i \in DOMAIN chaosQueue} = {r \in chaosRuns : run[r].status = "queued"}
  /\ \A i, j \in DOMAIN chaosQueue : chaosQueue[i] = chaosQueue[j] => i = j
  /\ chaosQueue # <<>> => activeChaosRunId # None

\* The first to finish a run decides: runChaos, the cancel handler or the
\* recovery, whichever comes second, changes nothing.
FinishedIsFinal ==
  [][\A r \in Run : run[r].finished => run'[r].finished /\ run'[r].status = run[r].status]_vars

\* A finished run has no load processes left, and never gets new ones.
NoLoadAfterFinish == \A r \in Run : run[r].finished => ~run[r].children

\* A container is left stopped or full by an idle runner only after someone
\* cancelled a run, or after a recovery of it that failed and says so.  Of the
\* delay only the recoveries that work can be told: one that fails says nothing.
BrokenOnlyByCancel ==
  activeChaosRunId = None /\ "container" \in broken =>
    "container" \in recoveryFailed \/ \E r \in Run : run[r].aborted

\* Every run that was accepted finishes, with or without a cancel.
EveryRunEnds == \A r \in Run : run[r].status = "queued" ~> run[r].finished
=============================================================================
