------------------------- MODULE ChaosRunnerProofs -------------------------
(***************************************************************************)
(* What holds of ChaosRunner for every number of runs, every set of        *)
(* scenarios and every number of cancels: first of the runs alone, for     *)
(* which startNextChaosRun may find anything in the queue, because it looks*)
(* at the Map and at the status itself; then of the queue and the targets. *)
(***************************************************************************)
EXTENDS ChaosRunner, FoldLemmas, SequenceTheorems

\* A run object that is closed as a whole: finished with a final status and
\* without processes, and if its loop still runs, aborted.
Sound(o) ==
  /\ o \in Object
  /\ o.finished <=> o.status \in Terminal
  /\ o.finished => ~o.children
  /\ o.status = "queued" => o.scenario \in Scenario /\ o.at = "none"
  /\ o.at \in {"step", "struck"} =>
       /\ o.scenario \in Scenario
       /\ o.step \in 1..Len(Steps[o.scenario])
       /\ o.finished => o.aborted

\* The active run is the one that is running.
Owned(rs, active) ==
  /\ active \in Run \cup {None}
  /\ \A r \in Run : rs[r].status = "running" <=> active = r

AllSound(rs) == rs \in [Run -> Object] /\ \A r \in Run : Sound(rs[r])

\* Nobody finishes a run a second time, and an abort is never taken back.
Kept(rs, new) ==
  \A r \in Run :
    /\ rs[r].finished => new[r].finished /\ new[r].status = rs[r].status
    /\ rs[r].status # "none" => new[r].status # "none"
    /\ rs[r].status # "none" /\ rs[r].aborted => new[r].aborted

\* A handler that works on a run has aborted it.
Aborting ==
  /\ cancel \in [Run -> Handler]
  /\ \A r \in chaosRuns : run[r].status # "none"
  /\ \A r \in Run : cancel[r] \in {"repair", "settle"} => run[r].status # "none" /\ run[r].aborted

\* The inductive invariant.
RunsInv ==
  /\ chaosRuns \subseteq Run
  /\ AllSound(run)
  /\ Owned(run, activeChaosRunId)
  /\ Aborting

-----------------------------------------------------------------------------
(* The helpers. *)

\* executeChaosStep changes where the run is and what processes it has.
LEMMA FieldsOfStep ==
  ASSUME NEW o \in Object, NEW n \in Nat
  PROVE  LET new == EnterStep(o, n)
         IN /\ new \in Object
            /\ new.status = o.status /\ new.finished = o.finished
            /\ new.scenario = o.scenario /\ new.step = n
            /\ new.at = "step" /\ new.aborted = o.aborted
<1>. DEFINE spawned == o.children \/ Steps[o.scenario][n] = "stress"
<1>1. spawned \in BOOLEAN
  OBVIOUS
<1>2. EnterStep(o, n) = [o EXCEPT !.step = n, !.at = "step", !.children = spawned]
  BY DEF EnterStep
<1>. HIDE DEF spawned
<1>. QED
  BY <1>1, <1>2 DEF Object

\* A queued run that enters its first step is sound and not finished.
LEMMA FirstStepSound ==
  ASSUME NEW o, Sound(o), o.status = "queued"
  PROVE  LET new == EnterStep([o EXCEPT !.status = "running"], 1)
         IN /\ Sound(new) /\ new.status = "running" /\ new.aborted = o.aborted
            /\ ~o.finished
<1>1. /\ o \in Object
      /\ ~o.finished
      /\ o.scenario \in Scenario
  BY DEF Sound, Terminal
<1>2. Steps[o.scenario] \in Seq(Kind) \ {<<>>}
  BY <1>1, StepsAreKinds
<1>3. 1 \in 1..Len(Steps[o.scenario])
  BY <1>2
<1>. DEFINE new == EnterStep([o EXCEPT !.status = "running"], 1)
<1>4. /\ new \in Object
      /\ new.status = "running"
      /\ new.finished = o.finished
      /\ new.scenario = o.scenario
      /\ new.step = 1
      /\ new.aborted = o.aborted
  BY <1>1 DEF EnterStep, Object
<1>5. Sound(new)
  BY <1>1, <1>3, <1>4 DEF Sound, Terminal
<1>. QED
  BY <1>1, <1>4, <1>5

\* startNextChaosRun: at most one run starts, and only if none was running.
LEMMA StartNextKeeps ==
  ASSUME NEW known, known \subseteq Run,
         NEW rs, AllSound(rs),
         NEW q, NEW active, Owned(rs, active),
         StartNext(known, rs, q, active)
  PROVE  AllSound(run') /\ Owned(run', activeChaosRunId') /\ Kept(rs, run')
<1>1. CASE run' = rs /\ activeChaosRunId' = active
  BY <1>1 DEF Kept
<1>2. ASSUME NEW i \in DOMAIN q, q[i] \in known, rs[q[i]].status = "queued", active = None,
             run' = [rs EXCEPT ![q[i]] = EnterStep([@ EXCEPT !.status = "running"], 1)],
             activeChaosRunId' = q[i]
      PROVE  AllSound(run') /\ Owned(run', activeChaosRunId') /\ Kept(rs, run')
  <2>. DEFINE r == q[i]
              new == EnterStep([rs[r] EXCEPT !.status = "running"], 1)
  <2>1. r \in Run /\ rs \in [Run -> Object] /\ Sound(rs[r])
    BY <1>2 DEF AllSound
  <2>2. Sound(new) /\ new.status = "running" /\ new.aborted = rs[r].aborted /\ ~rs[r].finished
    BY <1>2, <2>1, FirstStepSound
  <2>3. run' = [rs EXCEPT ![r] = new]
    BY <1>2
  <2>. HIDE DEF r, new
  <2>4. run'[r] = new /\ \A s \in Run \ {r} : run'[s] = rs[s]
    BY <2>1, <2>3
  <2>5. AllSound(run')
    <3>1. new \in Object
      BY <2>2 DEF Sound
    <3>2. run' \in [Run -> Object]
      BY <2>1, <2>3, <3>1
    <3>. QED
      BY <2>2, <2>4, <3>2 DEF AllSound
  <2>6. Owned(run', activeChaosRunId')
    <3>1. \A s \in Run : rs[s].status # "running"
      BY <1>2, NoneIsNoRun DEF Owned
    <3>2. activeChaosRunId' = r
      BY <1>2 DEF r
    <3>. QED
      BY <2>1, <2>2, <2>4, <3>1, <3>2 DEF Owned
  <2>7. Kept(rs, run')
    BY <2>2, <2>4 DEF Kept
  <2>. QED
    BY <2>5, <2>6, <2>7
<1>. QED
  BY <1>1, <1>2 DEF StartNext

\* finishChaosRun, for the loop and for the handlers.
LEMMA FinishKeeps ==
  ASSUME RunsInv, NEW r \in Run, NEW status \in Terminal,
         NEW rs, AllSound(rs), Owned(rs, activeChaosRunId),
         rs[r].at \in {"step", "struck"} => rs[r].aborted,
         NEW q, Finish(r, status, rs, q)
  PROVE  AllSound(run') /\ Owned(run', activeChaosRunId') /\ Kept(rs, run')
<1>1. CASE rs[r].finished
  BY <1>1 DEF Finish, AlreadyFinished, Kept
<1>2. CASE ~rs[r].finished
  <2>. DEFINE new == [rs EXCEPT ![r] = Closed(@, status)]
              active == ActiveAfter(r)
  <2>1. StartNext(chaosRuns, new, q, active)
    BY <1>2 DEF Finish, AlreadyFinished
  <2>2. rs \in [Run -> Object] /\ Sound(rs[r]) /\ rs[r] \in Object
    BY DEF AllSound
  <2>3. Closed(rs[r], status) \in Object /\ Sound(Closed(rs[r], status))
    <3>1. /\ Closed(rs[r], status) \in Object
          /\ Closed(rs[r], status).status = status
          /\ Closed(rs[r], status).finished
          /\ ~Closed(rs[r], status).children
          /\ Closed(rs[r], status).at = rs[r].at
          /\ Closed(rs[r], status).step = rs[r].step
          /\ Closed(rs[r], status).scenario = rs[r].scenario
          /\ Closed(rs[r], status).aborted = rs[r].aborted
      BY <2>2 DEF Closed, Object
    <3>. QED
      BY <2>2, <3>1 DEF Sound, Terminal
  <2>4. new[r] = Closed(rs[r], status) /\ \A s \in Run \ {r} : new[s] = rs[s]
    BY <2>2
  <2>5. AllSound(new)
    <3>1. new \in [Run -> Object]
      BY <2>2, <2>3
    <3>. QED
      BY <2>3, <2>4, <3>1 DEF AllSound
  <2>6. Owned(new, active)
    <3>1. new[r].status = status /\ status # "running"
      BY <2>2, <2>4 DEF Closed, Object, Terminal
    <3>. HIDE DEF new
    <3>. QED
      BY <2>4, <3>1, NoneIsNoRun DEF Owned, ActiveAfter
  <2>7. Kept(rs, new)
    <3>1. new[r].aborted = rs[r].aborted /\ new[r].status # "none"
      BY <2>2, <2>4 DEF Closed, Object, Terminal
    <3>. HIDE DEF new
    <3>. QED
      BY <1>2, <2>4, <3>1 DEF Kept
  <2>. HIDE DEF new, active
  <2>8. AllSound(run') /\ Owned(run', activeChaosRunId') /\ Kept(new, run')
    BY <2>1, <2>5, <2>6, StartNextKeeps DEF RunsInv
  <2>. QED
    BY <2>7, <2>8 DEF Kept
<1>. QED
  BY <1>1, <1>2

\* A step that leaves the status of the one run it works on.
LEMMA SameStatusKeeps ==
  ASSUME RunsInv, NEW r \in Run, NEW new, Sound(new),
         new.status = run[r].status, run[r].aborted => new.aborted
  PROVE  LET rs == [run EXCEPT ![r] = new]
         IN AllSound(rs) /\ Owned(rs, activeChaosRunId) /\ Kept(run, rs) /\ rs[r] = new
<1>. DEFINE rs == [run EXCEPT ![r] = new]
<1>1. run \in [Run -> Object] /\ Sound(run[r])
  BY DEF RunsInv, AllSound
<1>2. rs[r] = new /\ \A s \in Run \ {r} : rs[s] = run[s]
  BY <1>1
<1>3. rs \in [Run -> Object]
  BY <1>1 DEF Sound
<1>. HIDE DEF rs
<1>4. AllSound(rs)
  BY <1>2, <1>3 DEF RunsInv, AllSound
<1>5. Owned(rs, activeChaosRunId)
  BY <1>2 DEF RunsInv, Owned
<1>6. Kept(run, rs)
  BY <1>1, <1>2 DEF Kept, Sound
<1>. QED
  BY <1>2, <1>4, <1>5, <1>6 DEF rs

\* The same of a step that does nothing else to the runs.
LEMMA OneRunChanges ==
  ASSUME RunsInv, NEW r \in Run, NEW new, Sound(new),
         new.status = run[r].status, run[r].aborted => new.aborted,
         run' = [run EXCEPT ![r] = new], UNCHANGED activeChaosRunId
  PROVE  AllSound(run') /\ Owned(run', activeChaosRunId') /\ Kept(run, run')
BY SameStatusKeeps

\* What every step of the program leaves true.
Step == RunsInv' /\ Kept(run, run')

\* A step of the loop leaves the Map and the handlers alone.
LEMMA LoopStep ==
  ASSUME RunsInv, UNCHANGED <<chaosRuns, cancel>>,
         AllSound(run'), Owned(run', activeChaosRunId'), Kept(run, run')
  PROVE  Step
BY DEF Step, RunsInv, AllSound, Owned, Aborting, Kept

\* runChaos returns.
LEMMA OverKeeps ==
  ASSUME RunsInv, NEW r \in Run, run[r].at # "none"
  PROVE  /\ AllSound(Over(r)) /\ Owned(Over(r), activeChaosRunId) /\ Kept(run, Over(r))
         /\ Over(r)[r].at = "done"
<1>. DEFINE new == [run[r] EXCEPT !.at = "done", !.step = 0, !.scenario = None, !.verdict = "pass"]
<1>1. run \in [Run -> Object] /\ run[r] \in Object /\ Sound(run[r])
  BY DEF RunsInv, AllSound
<1>2. Over(r) = [run EXCEPT ![r] = new]
  BY <1>1 DEF Over
<1>3. /\ new \in Object
      /\ new.at = "done"
      /\ new.status = run[r].status
      /\ new.finished = run[r].finished
      /\ new.children = run[r].children
      /\ new.aborted = run[r].aborted
  BY <1>1 DEF Object, Terminal
<1>. HIDE DEF new
<1>4. Sound(new)
  BY <1>1, <1>3 DEF Sound
<1>5. LET rs == [run EXCEPT ![r] = new]
      IN AllSound(rs) /\ Owned(rs, activeChaosRunId) /\ Kept(run, rs) /\ rs[r] = new
  BY <1>3, <1>4, SameStatusKeeps
<1>. QED
  BY <1>2, <1>3, <1>5

-----------------------------------------------------------------------------
(* The steps. *)

\* A step that touches no run.
LEMMA NothingChanges ==
  ASSUME RunsInv, UNCHANGED <<chaosRuns, run, activeChaosRunId, cancel>>
  PROVE  Step
<1>1. AllSound(run') /\ Owned(run', activeChaosRunId') /\ Kept(run, run')
  BY DEF RunsInv, AllSound, Owned, Kept
<1>. QED
  BY <1>1, LoopStep

\* POST /qa/chaos/runs: the new run was not there before.
LEMMA EnqueueStep ==
  ASSUME RunsInv, NEW r \in Run, NEW s \in Scenario, Enqueue(r, s)
  PROVE  Step
<1>. DEFINE new == [NoRun EXCEPT !.scenario = s, !.status = "queued"]
            rs == [run EXCEPT ![r] = new]
<1>1. /\ run \in [Run -> Object] /\ Sound(run[r])
      /\ run[r].status = "none" /\ ~run[r].finished
  BY DEF RunsInv, AllSound, Enqueue, Sound, Terminal
<1>2. chaosRuns' \subseteq Run
  BY DEF RunsInv, Enqueue
<1>3. new \in Object /\ Sound(new) /\ new.status = "queued"
  BY DEF NoRun, Object, Terminal, Sound
<1>4. StartNext(chaosRuns', rs, Append(chaosQueue, r), activeChaosRunId)
  BY DEF Enqueue
<1>. HIDE DEF new
<1>5. rs[r] = new /\ \A o \in Run \ {r} : rs[o] = run[o]
  BY <1>1
<1>6. AllSound(rs)
  BY <1>1, <1>3, <1>5 DEF RunsInv, AllSound
<1>7. Owned(rs, activeChaosRunId)
  BY <1>1, <1>3, <1>5 DEF RunsInv, Owned
<1>8. Kept(run, rs)
  BY <1>1, <1>5 DEF Kept
<1>. HIDE DEF rs
<1>9. AllSound(run') /\ Owned(run', activeChaosRunId') /\ Kept(rs, run')
  BY <1>2, <1>4, <1>6, <1>7, StartNextKeeps
<1>10. Kept(run, run') /\ run'[r].status # "none"
  <2>1. rs[r].status = "queued"
    BY <1>3, <1>5 DEF rs
  <2>. QED
    BY <1>8, <1>9, <2>1 DEF Kept
<1>11. Aborting'
  <2>1. chaosRuns' \subseteq chaosRuns \cup {r} /\ UNCHANGED cancel
    BY DEF Enqueue
  <2>. QED
    BY <1>1, <1>10, <2>1 DEF RunsInv, Aborting, Kept
<1>. QED
  BY <1>2, <1>9, <1>10, <1>11 DEF Step, RunsInv

\* The docker command takes effect: the run goes on as before.
LEMMA StrikeStep ==
  ASSUME RunsInv, NEW r \in Run, Strike(r)
  PROVE  Step
<1>. DEFINE new == [run[r] EXCEPT !.at = "struck"]
<1>1. run \in [Run -> Object] /\ run[r] \in Object /\ Sound(run[r]) /\ run[r].at = "step"
  BY DEF RunsInv, AllSound, Strike
<1>2. /\ new \in Object /\ new.at = "struck"
      /\ new.status = run[r].status /\ new.finished = run[r].finished
      /\ new.children = run[r].children /\ new.scenario = run[r].scenario
      /\ new.step = run[r].step /\ new.aborted = run[r].aborted
  BY <1>1 DEF Object
<1>3. run' = [run EXCEPT ![r] = new]
  BY <1>1 DEF Strike
<1>. HIDE DEF new
<1>4. Sound(new)
  BY <1>1, <1>2 DEF Sound
<1>5. UNCHANGED <<chaosRuns, cancel, activeChaosRunId>>
  BY DEF Strike
<1>. QED
  BY <1>2, <1>3, <1>4, <1>5, OneRunChanges, LoopStep

\* The loop goes on to its recovery.
LEMMA ToRecoveryStep ==
  ASSUME RunsInv, NEW r \in Run, NEW verdict \in Terminal,
         run[r].at \in {"step", "struck"}, ToRecovery(r, verdict),
         UNCHANGED <<chaosRuns, cancel>>
  PROVE  Step
<1>. DEFINE new == [run[r] EXCEPT !.at = "repair", !.verdict = verdict]
<1>1. run \in [Run -> Object] /\ run[r] \in Object /\ Sound(run[r])
  BY DEF RunsInv, AllSound
<1>2. /\ new \in Object /\ new.at = "repair"
      /\ new.status = run[r].status /\ new.finished = run[r].finished
      /\ new.children = run[r].children /\ new.aborted = run[r].aborted
  BY <1>1 DEF Object
<1>3. run' = [run EXCEPT ![r] = new]
  BY <1>1 DEF ToRecovery
<1>. HIDE DEF new
<1>4. Sound(new)
  BY <1>1, <1>2 DEF Sound
<1>5. UNCHANGED <<chaosRuns, cancel, activeChaosRunId>>
  BY DEF ToRecovery
<1>. QED
  BY <1>2, <1>3, <1>4, <1>5, OneRunChanges, LoopStep

\* The loop finishes its run and returns.
LEMMA OverStep ==
  ASSUME RunsInv, NEW r \in Run, NEW status \in Terminal, run[r].at # "none",
         Finish(r, status, Over(r), chaosQueue), UNCHANGED <<chaosRuns, cancel>>
  PROVE  Step
<1>1. /\ AllSound(Over(r)) /\ Owned(Over(r), activeChaosRunId) /\ Kept(run, Over(r))
      /\ Over(r)[r].at = "done"
  BY OverKeeps
<1>2. AllSound(run') /\ Owned(run', activeChaosRunId') /\ Kept(Over(r), run')
  BY <1>1, FinishKeeps
<1>3. Kept(run, run')
  BY <1>1, <1>2 DEF Kept
<1>. QED
  BY <1>2, <1>3, LoopStep

\* A step that is over.  Its run is given another one only if nobody has
\* aborted it, and then nobody has finished it either.
LEMMA StepEndsStep ==
  ASSUME RunsInv, NEW r \in Run, NEW result, StepEnds(r, result)
  PROVE  Step
<1>1. run \in [Run -> Object] /\ run[r] \in Object /\ Sound(run[r])
  BY DEF RunsInv, AllSound
<1>2. run[r].at \in {"step", "struck"} /\ UNCHANGED <<chaosRuns, cancel>>
  BY DEF StepEnds
<1>3. CASE \E status \in Terminal : Finish(r, status, Over(r), chaosQueue)
  BY <1>2, <1>3, OverStep
<1>4. CASE \E verdict \in {"pass", "fail"} : ToRecovery(r, verdict)
  BY <1>2, <1>4, ToRecoveryStep DEF Terminal
<1>5. CASE /\ run[r].step < Len(Steps[run[r].scenario])
           /\ ~run[r].aborted
           /\ run' = [run EXCEPT ![r] = EnterStep(@, run[r].step + 1)]
           /\ UNCHANGED activeChaosRunId
  <2>. DEFINE new == EnterStep(run[r], run[r].step + 1)
  <2>1. run' = [run EXCEPT ![r] = new]
    BY <1>5
  <2>2. ~run[r].finished /\ run[r].scenario \in Scenario /\ run[r].step \in Nat
    BY <1>1, <1>2, <1>5 DEF Sound, Object
  <2>3. run[r].step + 1 \in 1..Len(Steps[run[r].scenario])
    BY <1>5, <2>2, StepsAreKinds
  <2>4. /\ new \in Object
        /\ new.status = run[r].status /\ new.finished = run[r].finished
        /\ new.scenario = run[r].scenario /\ new.step = run[r].step + 1
        /\ new.at = "step" /\ new.aborted = run[r].aborted
    <3>1. run[r].step + 1 \in Nat
      BY <2>2
    <3>. QED
      BY <1>1, <3>1, FieldsOfStep
  <2>. HIDE DEF new
  <2>5. Sound(new)
    BY <1>1, <1>2, <2>2, <2>3, <2>4 DEF Sound
  <2>. QED
    BY <1>2, <1>5, <2>1, <2>4, <2>5, SameStatusKeeps, LoopStep
<1>. QED
  BY <1>3, <1>4, <1>5 DEF StepEnds, StopsEarly, Terminal

\* The recovery that runChaos awaits releases the processes of its run.
LEMMA RepairStep ==
  ASSUME RunsInv, NEW r \in Run, Repair(r)
  PROVE  Step
<1>. DEFINE new == [run[r] EXCEPT !.at = "settle", !.children = FALSE]
<1>1. run \in [Run -> Object] /\ run[r] \in Object /\ Sound(run[r]) /\ run[r].at = "repair"
  BY DEF RunsInv, AllSound, Repair
<1>2. /\ new \in Object /\ new.at = "settle" /\ ~new.children
      /\ new.status = run[r].status /\ new.finished = run[r].finished
      /\ new.aborted = run[r].aborted
  BY <1>1 DEF Object
<1>3. run' = [run EXCEPT ![r] = new]
  BY <1>1 DEF Repair
<1>. HIDE DEF new
<1>4. Sound(new)
  BY <1>1, <1>2 DEF Sound
<1>5. UNCHANGED <<chaosRuns, cancel, activeChaosRunId>>
  BY DEF Repair
<1>. QED
  BY <1>2, <1>3, <1>4, <1>5, OneRunChanges, LoopStep

\* The recovery is over: the run passes or fails.
LEMMA EndStep ==
  ASSUME RunsInv, NEW r \in Run, End(r)
  PROVE  Step
<1>1. run[r].verdict \in Terminal /\ run[r].at # "none" /\ UNCHANGED <<chaosRuns, cancel>>
  BY DEF RunsInv, AllSound, Object, End
<1>. QED
  BY <1>1, OverStep DEF End

\* A cancel aborts the run; one that is queued is finished by the handler.
LEMMA CancelStep ==
  ASSUME RunsInv, NEW r \in Run, Cancel(r)
  PROVE  Step
<1>. DEFINE new == [run[r] EXCEPT !.aborted = TRUE]
            rs == [run EXCEPT ![r] = new]
<1>1. run \in [Run -> Object] /\ run[r] \in Object /\ Sound(run[r]) /\ UNCHANGED chaosRuns
  BY DEF RunsInv, AllSound, Cancel
<1>2. /\ new \in Object /\ new.aborted
      /\ new.status = run[r].status /\ new.finished = run[r].finished
      /\ new.children = run[r].children /\ new.scenario = run[r].scenario
      /\ new.step = run[r].step /\ new.at = run[r].at
  BY <1>1 DEF Object
<1>3. [run EXCEPT ![r].aborted = TRUE] = rs
  BY <1>1
<1>. HIDE DEF new
<1>4. Sound(new)
  BY <1>1, <1>2 DEF Sound
<1>5. AllSound(rs) /\ Owned(rs, activeChaosRunId) /\ Kept(run, rs) /\ rs[r] = new
  BY <1>2, <1>4, SameStatusKeeps
<1>. HIDE DEF rs
<1>6. AllSound(run') /\ Owned(run', activeChaosRunId') /\ Kept(rs, run')
  <2>1. CASE Finish(r, "cancelled", rs, QueueWithout(r))
    BY <1>2, <1>5, <2>1, FinishKeeps DEF Terminal
  <2>2. CASE run' = rs /\ UNCHANGED activeChaosRunId
    BY <1>5, <2>2 DEF Kept
  <2>. QED
    BY <1>3, <2>1, <2>2 DEF Cancel
<1>7. Kept(run, run') /\ run'[r].status # "none" /\ run'[r].aborted
  <2>1. run[r].status # "none"
    BY DEF RunsInv, Aborting, Cancel
  <2>. QED
    BY <1>2, <1>5, <1>6, <2>1 DEF Kept
<1>8. Aborting'
  <2>1. cancel' \in [Run -> Handler] /\ \A s \in Run \ {r} : cancel'[s] = cancel[s]
    BY DEF RunsInv, Aborting, Cancel, Handler
  <2>. QED
    BY <1>1, <1>7, <2>1 DEF RunsInv, Aborting, Kept
<1>. QED
  BY <1>1, <1>6, <1>7, <1>8 DEF Step, RunsInv

\* The handler has recovered the targets and released the processes.
LEMMA CancelRepairsStep ==
  ASSUME RunsInv, NEW r \in Run, CancelRepairs(r)
  PROVE  Step
<1>. DEFINE new == [run[r] EXCEPT !.children = FALSE]
<1>1. run \in [Run -> Object] /\ run[r] \in Object /\ Sound(run[r])
  BY DEF RunsInv, AllSound
<1>2. /\ new \in Object /\ ~new.children
      /\ new.status = run[r].status /\ new.finished = run[r].finished
      /\ new.aborted = run[r].aborted /\ new.scenario = run[r].scenario
      /\ new.step = run[r].step /\ new.at = run[r].at
  BY <1>1 DEF Object
<1>3. run' = [run EXCEPT ![r] = new]
  BY <1>1 DEF CancelRepairs
<1>. HIDE DEF new
<1>4. Sound(new)
  BY <1>1, <1>2 DEF Sound
<1>5. AllSound(run') /\ Owned(run', activeChaosRunId') /\ Kept(run, run')
  <2>1. UNCHANGED activeChaosRunId
    BY DEF CancelRepairs
  <2>. QED
    BY <1>2, <1>3, <1>4, <2>1, OneRunChanges
<1>6. Aborting'
  <2>1. /\ cancel' \in [Run -> Handler] /\ cancel[r] = "repair" /\ UNCHANGED chaosRuns
        /\ \A s \in Run \ {r} : cancel'[s] = cancel[s]
    BY DEF RunsInv, Aborting, CancelRepairs, Handler
  <2>. QED
    BY <1>5, <2>1 DEF RunsInv, Aborting, Kept
<1>. QED
  BY <1>5, <1>6 DEF CancelRepairs, Step, RunsInv

\* The handler finishes the run it has aborted, if nobody has yet.
LEMMA CancelEndsStep ==
  ASSUME RunsInv, NEW r \in Run, CancelEnds(r)
  PROVE  Step
<1>1. run[r].aborted
  BY DEF RunsInv, Aborting, CancelEnds
<1>2. AllSound(run') /\ Owned(run', activeChaosRunId') /\ Kept(run, run')
  BY <1>1, FinishKeeps DEF RunsInv, CancelEnds, Terminal
<1>3. Aborting'
  <2>1. /\ cancel' \in [Run -> Handler] /\ cancel'[r] = "done" /\ UNCHANGED chaosRuns
        /\ \A s \in Run \ {r} : cancel'[s] = cancel[s]
    BY DEF RunsInv, Aborting, CancelEnds, Handler
  <2>. QED
    BY <1>2, <2>1 DEF RunsInv, Aborting, Kept
<1>. QED
  BY <1>2, <1>3 DEF CancelEnds, Step, RunsInv

\* The global recovery finishes every run that is queued or running.
LEMMA RecoverStep ==
  ASSUME RunsInv, Recover
  PROVE  Step
<1>. DEFINE hit == {r \in chaosRuns : run[r].status \in {"queued", "running"}}
            closed(r) == Closed([run[r] EXCEPT !.aborted = TRUE], "cancelled")
<1>1. /\ run \in [Run -> Object]
      /\ \A r \in Run : run[r] \in Object /\ Sound(run[r])
  BY DEF RunsInv, AllSound
<1>2. /\ run' = [r \in Run |-> IF r \in hit THEN closed(r) ELSE run[r]]
      /\ activeChaosRunId' = IF activeChaosRunId \in hit THEN None ELSE activeChaosRunId
      /\ UNCHANGED <<chaosRuns, cancel>>
  BY DEF Recover
<1>3. ASSUME NEW r \in Run
      PROVE  /\ closed(r) \in Object /\ closed(r).status = "cancelled"
             /\ closed(r).finished /\ closed(r).aborted /\ ~closed(r).children
             /\ closed(r).at = run[r].at /\ closed(r).step = run[r].step
             /\ closed(r).scenario = run[r].scenario
  BY <1>1, <1>3 DEF Closed, Object, Terminal
<1>. HIDE DEF closed
<1>4. \A r \in Run : Sound(closed(r))
  BY <1>1, <1>3 DEF Sound, Terminal
<1>5. \A r \in Run : run'[r] = IF r \in hit THEN closed(r) ELSE run[r]
  BY <1>2
<1>6. \A r \in hit : ~run[r].finished
  BY <1>1 DEF RunsInv, Sound, Terminal
<1>7. AllSound(run')
  <2>1. run' \in [Run -> Object]
    BY <1>1, <1>2, <1>3
  <2>. QED
    BY <1>1, <1>4, <1>5, <2>1 DEF AllSound
<1>8. Owned(run', activeChaosRunId')
  BY <1>2, <1>3, <1>5, NoneIsNoRun DEF RunsInv, Owned
<1>9. Kept(run, run')
  BY <1>3, <1>5, <1>6 DEF Kept
<1>. QED
  BY <1>2, <1>7, <1>8, <1>9, LoopStep

\* No step of the program breaks the invariant or finishes a run twice.
LEMMA NextStep ==
  ASSUME RunsInv, [Next]_vars
  PROVE  Step
<1>1. ASSUME NEW r \in Run, NEW s \in Scenario, Enqueue(r, s) PROVE Step
  BY <1>1, EnqueueStep
<1>2. ASSUME NEW r \in Run, Strike(r) PROVE Step
  BY <1>2, StrikeStep
<1>3. ASSUME NEW r \in Run, NEW result, StepEnds(r, result) PROVE Step
  BY <1>3, StepEndsStep
<1>4. ASSUME NEW r \in Run, Repair(r) \/ End(r) PROVE Step
  BY <1>4, RepairStep, EndStep
<1>5. ASSUME NEW r \in Run, Cancel(r) \/ CancelRepairs(r) \/ CancelEnds(r) PROVE Step
  BY <1>5, CancelStep, CancelRepairsStep, CancelEndsStep
<1>6. CASE Recover
  BY <1>6, RecoverStep
<1>7. CASE RecoverEnds \/ UNCHANGED vars
  BY <1>7, NothingChanges DEF RecoverEnds, vars
<1>. QED
  BY <1>1, <1>2, <1>3, <1>4, <1>5, <1>6, <1>7 DEF Next, Work

\* Nothing has been enqueued yet.
LEMMA InitRuns == Init => RunsInv
<1>1. NoRun \in Object /\ Sound(NoRun) /\ NoRun.status = "none"
  BY DEF NoRun, Object, Sound, Terminal
<1>. QED
  BY <1>1, NoneIsNoRun DEF Init, RunsInv, AllSound, Owned, Aborting, Handler

-----------------------------------------------------------------------------
\* The runs stay in order, however cancels, the global recovery, runs that
\* finish late and runs that start overlap.
THEOREM AlwaysRunsInv == Spec => []RunsInv
<1>1. RunsInv /\ [Next]_vars => RunsInv'
  BY NextStep DEF Step
<1>. QED
  BY <1>1, InitRuns, PTL DEF Spec

\* One run at most is running, and it is the active one.
THEOREM RunsExclude == Spec => []OneRunAtATime
<1>1. RunsInv => OneRunAtATime
  BY DEF RunsInv, Owned, OneRunAtATime
<1>. QED
  BY <1>1, AlwaysRunsInv, PTL

\* A finished run has no processes left, also when its loop goes on.
THEOREM FinishedIsQuiet == Spec => []NoLoadAfterFinish
<1>1. RunsInv => NoLoadAfterFinish
  BY DEF RunsInv, AllSound, Sound, NoLoadAfterFinish
<1>. QED
  BY <1>1, AlwaysRunsInv, PTL

\* Loop, cancel handler and recovery: the first to finish a run decides.
THEOREM FirstFinishWins == Spec => FinishedIsFinal
<1>1. RunsInv /\ [Next]_vars =>
        [\A r \in Run : run[r].finished => run'[r].finished /\ run'[r].status = run[r].status]_vars
  BY NextStep DEF Step, Kept
<1>. QED
  BY <1>1, AlwaysRunsInv, PTL DEF Spec, FinishedIsFinal

-----------------------------------------------------------------------------
(* The queue. *)

\* A queue of runs without repetitions, and what is in it.
Distinct(q) == q \in Seq(Run) /\ \A i, j \in DOMAIN q : q[i] = q[j] => i = j
Members(q) == {q[i] : i \in DOMAIN q}
\* indexOf and splice take out the run.
LEMMA RemoveFirstRemoves ==
  ASSUME NEW q, Distinct(q), NEW r \in Run
  PROVE  Distinct(RemoveFirst(q, r)) /\ Members(RemoveFirst(q, r)) = Members(q) \ {r}
<1>1. CASE ~\E i \in 1..Len(q) : q[i] = r
  <2>1. RemoveFirst(q, r) = q
    BY <1>1 DEF RemoveFirst
  <2>2. r \notin Members(q)
    BY <1>1 DEF Members, Distinct
  <2> QED
    BY <2>1, <2>2
<1>2. CASE \E i \in 1..Len(q) : q[i] = r
  <2>1. PICK k \in 1..Len(q) : q[k] = r
    BY <1>2
  <2>2. {i \in 1..Len(q) : q[i] = r} = {k}
    BY <2>1 DEF Distinct
  <2>3. SelectInSeq(q, LAMBDA v : v = r) = k
    <3>1. Min({k}) = k
      BY DEF Min
    <3> QED
      BY <2>2, <3>1 DEF SelectInSeq
  <2> DEFINE a == SubSeq(q, 1, k - 1)
             b == SubSeq(q, k + 1, Len(q))
  <2>4. RemoveFirst(q, r) = a \o b
    BY <1>2, <2>3 DEF RemoveFirst, RemoveAt
  <2>5. q \in Seq(Run) /\ Len(q) \in Nat /\ k \in Nat /\ k >= 1 /\ k <= Len(q)
    BY <2>1 DEF Distinct
  <2>6. /\ a \in Seq(Run) /\ Len(a) = k - 1 /\ \A i \in 1..(k - 1) : a[i] = q[i]
        /\ b \in Seq(Run) /\ Len(b) = Len(q) - k /\ \A i \in 1..(Len(q) - k) : b[i] = q[k + i]
    BY <2>5
  <2> HIDE DEF a, b
  <2>7. /\ a \o b \in Seq(Run) /\ Len(a \o b) = Len(q) - 1
        /\ \A i \in 1..(Len(q) - 1) : (a \o b)[i] = IF i < k THEN q[i] ELSE q[i + 1]
    <3>1. /\ a \o b \in Seq(Run) /\ Len(a \o b) = Len(a) + Len(b)
          /\ \A i \in 1..(Len(a) + Len(b)) : (a \o b)[i] = IF i <= Len(a) THEN a[i] ELSE b[i - Len(a)]
      BY <2>6, ConcatProperties
    <3>2. \A i \in 1..(Len(q) - 1) : (a \o b)[i] = IF i <= k - 1 THEN a[i] ELSE b[i - (k - 1)]
      BY <2>5, <2>6, <3>1
    <3>3. \A i \in 1..(Len(q) - 1) : (a \o b)[i] = IF i < k THEN q[i] ELSE q[i + 1]
      BY <2>5, <2>6, <3>2
    <3> QED
      BY <2>5, <2>6, <3>1, <3>3
  <2> DEFINE c == a \o b
  <2> HIDE DEF c
  <2>8. /\ c \in Seq(Run) /\ DOMAIN c = 1..(Len(q) - 1) /\ DOMAIN q = 1..Len(q)
        /\ \A i \in DOMAIN c : c[i] = IF i < k THEN q[i] ELSE q[i + 1]
    <3>1. c \in Seq(Run) /\ Len(c) = Len(q) - 1
      BY <2>7 DEF c
    <3>2. DOMAIN c = 1..(Len(q) - 1) /\ DOMAIN q = 1..Len(q)
      BY <2>5, <3>1
    <3> QED
      BY <2>7, <3>1, <3>2 DEF c
  <2>9. Distinct(c)
    BY <2>5, <2>8 DEF Distinct
  <2>10. Members(c) \subseteq Members(q) \ {r}
    BY <2>1, <2>5, <2>8 DEF Distinct, Members
  <2>11. ASSUME NEW x \in Members(q) \ {r} PROVE x \in Members(c)
    <3>1. PICK i \in DOMAIN q : q[i] = x
      BY DEF Members
    <3>2. i # k
      BY <2>1, <2>11, <3>1
    <3>3. CASE i < k
      BY <2>5, <2>8, <3>1, <3>3 DEF Members
    <3>4. CASE i > k
      <4>1. i - 1 \in DOMAIN c /\ c[i - 1] = q[i]
        BY <2>5, <2>8, <3>4
      <4> QED
        BY <3>1, <4>1 DEF Members
    <3> QED
      BY <2>5, <2>8, <3>2, <3>3, <3>4
  <2> QED
    BY <2>4, <2>9, <2>10, <2>11 DEF c
<1> QED
  BY <1>1, <1>2

\* The recovery takes out one run after the other.
LEMMA FoldRemoves ==
  ASSUME NEW q, Distinct(q), NEW S \in SUBSET Run, IsFiniteSet(S)
  PROVE  LET w == FoldSet(LAMBDA r, s : RemoveFirst(s, r), q, S)
         IN Distinct(w) /\ Members(w) = Members(q) \ S
<1> DEFINE V == {w \in Seq(Run) : Distinct(w)}
           h == [p \in S \X V |-> RemoveFirst(p[2], p[1])]
           Removes(F) == F = [s \in SUBSET S |-> IF s = {} THEN q ELSE RemoveFirst(F[Rest(s)], First(s))]
           iter == CHOOSE F : Removes(F)
           T == {s \in SUBSET S : Distinct(iter[s]) /\ Members(iter[s]) = Members(q) \ s}
<1>1. q \in V /\ \A w \in V : Distinct(w)
  BY DEF Distinct
<1>2. h \in [S \X V -> V]
  <2>1. ASSUME NEW p \in S \X V PROVE RemoveFirst(p[2], p[1]) \in V
    <3>1. p[1] \in Run /\ Distinct(p[2])
      OBVIOUS
    <3>2. Distinct(RemoveFirst(p[2], p[1]))
      BY <3>1, RemoveFirstRemoves
    <3> QED
      BY <3>2 DEF Distinct
  <2> QED
    BY <2>1
<1>3. Removes(iter)
  <2>1. PICK F \in [SUBSET S -> V] : IsFold(F, S, q, h)
    BY <1>1, <1>2, FoldExists
  <2>2. ASSUME NEW s \in SUBSET S, s # {}
        PROVE  h[<<First(s), F[Rest(s)]>>] = RemoveFirst(F[Rest(s)], First(s))
    <3>1. First(s) \in S /\ Rest(s) \in SUBSET S
      BY <2>2, RestIsSmaller
    <3>2. F[Rest(s)] \in V
      BY <2>1, <3>1
    <3> QED
      BY <3>1, <3>2
  <2> HIDE DEF V, h
  <2>3. Removes(F)
    BY <2>1, <2>2 DEF IsFold
  <2> QED
    BY <2>3
<1>4. {} \in T
  BY <1>3
<1>5. ASSUME NEW s \in SUBSET S, s # {}, Rest(s) \in T PROVE s \in T
  <2>1. iter[s] = RemoveFirst(iter[Rest(s)], First(s))
    BY <1>3, <1>5
  <2> HIDE DEF iter
  <2>2. Distinct(iter[Rest(s)]) /\ Members(iter[Rest(s)]) = Members(q) \ Rest(s) /\ First(s) \in s
    BY <1>5, RestIsSmaller
  <2>3. Distinct(iter[s]) /\ Members(iter[s]) = (Members(q) \ Rest(s)) \ {First(s)}
    BY <2>1, <2>2, RemoveFirstRemoves
  <2> QED
    BY <2>2, <2>3 DEF Rest
<1>6. S \in T
  <2> HIDE DEF iter
  <2>1. T \in SUBSET (SUBSET S)
    OBVIOUS
  <2> HIDE DEF T
  <2> QED
    BY <1>4, <1>5, <2>1, FoldInduction
<1>7. FoldSet(LAMBDA r, s : RemoveFirst(s, r), q, S) = iter[S]
  BY DEF FoldSet, MapThenFoldSet, First, Rest
<1> QED
  BY <1>6, <1>7

\* shift takes out the run that has waited longest.
LEMMA ShiftRemoves ==
  ASSUME NEW q, Distinct(q), q # <<>>
  PROVE  LET w == SubSeq(q, 2, Len(q))
         IN q[1] \in Run /\ Distinct(w) /\ Members(w) = Members(q) \ {q[1]}
<1> DEFINE w == SubSeq(q, 2, Len(q))
<1>1. q \in Seq(Run) /\ Len(q) \in Nat /\ Len(q) >= 1 /\ DOMAIN q = 1..Len(q)
  BY DEF Distinct
<1>2. /\ w \in Seq(Run) /\ Len(w) = Len(q) - 1
      /\ \A i \in 1..(Len(q) - 1) : w[i] = q[i + 1]
  BY <1>1
<1>3. DOMAIN w = 1..(Len(q) - 1)
  BY <1>1, <1>2
<1> HIDE DEF w
<1>4. Distinct(w)
  <2>1. ASSUME NEW i \in DOMAIN w, NEW j \in DOMAIN w, w[i] = w[j] PROVE i = j
    <3>1. q[i + 1] = q[j + 1] /\ i + 1 \in DOMAIN q /\ j + 1 \in DOMAIN q
      BY <1>1, <1>2, <1>3, <2>1
    <3> QED
      BY <1>3, <3>1 DEF Distinct
  <2> QED
    BY <1>2, <2>1 DEF Distinct
<1>5. Members(w) \subseteq Members(q) \ {q[1]}
  BY <1>1, <1>2, <1>3 DEF Distinct, Members
<1>6. ASSUME NEW x \in Members(q) \ {q[1]} PROVE x \in Members(w)
  <2>1. PICK i \in DOMAIN q : q[i] = x
    BY DEF Members
  <2>2. i # 1
    BY <1>6, <2>1
  <2>3. i - 1 \in DOMAIN w /\ w[i - 1] = x
    BY <1>1, <1>2, <1>3, <2>1, <2>2
  <2> QED
    BY <2>3 DEF Members
<1>7. q[1] \in Run
  BY <1>1
<1> QED
  BY <1>4, <1>5, <1>6, <1>7 DEF w

\* push puts a new run at the end.
LEMMA PushAdds ==
  ASSUME NEW q, Distinct(q), NEW r \in Run, r \notin Members(q)
  PROVE  Distinct(Append(q, r)) /\ Members(Append(q, r)) = Members(q) \cup {r}
<1> DEFINE w == Append(q, r)
<1>1. q \in Seq(Run) /\ Len(q) \in Nat /\ DOMAIN q = 1..Len(q)
  BY DEF Distinct
<1>2. /\ w \in Seq(Run) /\ Len(w) = Len(q) + 1 /\ w[Len(q) + 1] = r
      /\ \A i \in 1..Len(q) : w[i] = q[i]
  BY <1>1
<1>3. DOMAIN w = 1..(Len(q) + 1)
  BY <1>1, <1>2
<1> HIDE DEF w
<1>4. \A i \in 1..Len(q) : w[i] # r
  BY <1>1, <1>2 DEF Members
<1>5. Distinct(w)
  BY <1>1, <1>2, <1>3, <1>4 DEF Distinct
<1>6. Members(w) \subseteq Members(q) \cup {r}
  BY <1>1, <1>2, <1>3 DEF Members
<1>7. Members(q) \subseteq Members(w)
  <2>1. ASSUME NEW i \in DOMAIN q PROVE q[i] \in Members(w)
    <3>1. i \in DOMAIN w /\ w[i] = q[i]
      BY <1>1, <1>2, <1>3
    <3> QED
      BY <3>1 DEF Members
  <2> QED
    BY <2>1 DEF Members
<1>8. r \in Members(w)
  <2>1. Len(q) + 1 \in DOMAIN w
    BY <1>1, <1>3
  <2> QED
    BY <1>2, <2>1 DEF Members
<1> QED
  BY <1>5, <1>6, <1>7, <1>8 DEF w

\* The queue is the runs that wait, and the runner is not idle when it is not
\* empty.
Waiting(known, rs, q) == Distinct(q) /\ Members(q) = {r \in known : rs[r].status = "queued"}
Serves(q, active) == q # <<>> => active # None

\* Only a run that nobody has aborted is worked on while it is running; one
\* that is not known yet is untouched.
Busy(o) ==
  /\ o.at \in {"step", "struck", "repair", "settle"} /\ ~o.aborted => o.status = "running"
  /\ o.status = "none" => o.at = "none" /\ ~o.aborted
AllBusy(rs) == \A r \in Run : Busy(rs[r])

\* Nobody is put into the queue a second time.
NotRequeued(rs, new) ==
  \A r \in Run : rs[r].status \notin {"none", "queued"} => new[r].status # "queued"

\* startNextChaosRun takes the first of the queue, and only then.
LEMMA StartNextServes ==
  ASSUME NEW known, known \subseteq Run,
         NEW rs \in [Run -> Object], AllBusy(rs),
         NEW q, Waiting(known, rs, q), NEW active, active \in Run \cup {None},
         StartNext(known, rs, q, active)
  PROVE  /\ AllBusy(run') /\ NotRequeued(rs, run')
         /\ Waiting(known, run', chaosQueue') /\ Serves(chaosQueue', activeChaosRunId')
         /\ active # None => run' = rs /\ activeChaosRunId' = active
<1> DEFINE startable == {i \in DOMAIN q : q[i] \in known /\ rs[q[i]].status = "queued"}
<1>1. startable = DOMAIN q
  BY DEF Waiting, Members
<1>2. CASE active # None /\ run' = rs /\ chaosQueue' = q /\ activeChaosRunId' = active
  BY <1>2 DEF NotRequeued, Serves
<1>3. CASE active = None /\ startable = {} /\ run' = rs /\ chaosQueue' = <<>> /\ activeChaosRunId' = None
  <2>1. q = <<>>
    BY <1>1, <1>3 DEF Waiting, Distinct
  <2> QED
    BY <1>3, <2>1 DEF NotRequeued, Serves
<1>4. ASSUME NEW i \in startable, active = None, \A j \in startable : i <= j,
             run' = [rs EXCEPT ![q[i]] = EnterStep([@ EXCEPT !.status = "running"], 1)],
             chaosQueue' = SubSeq(q, i + 1, Len(q)),
             activeChaosRunId' = q[i]
      PROVE  /\ AllBusy(run') /\ NotRequeued(rs, run')
             /\ Waiting(known, run', chaosQueue') /\ Serves(chaosQueue', activeChaosRunId')
  <2>1. i = 1 /\ q # <<>>
    <3>1. q \in Seq(Run) /\ i \in DOMAIN q /\ 1 \in DOMAIN q
      BY DEF Waiting, Distinct
    <3>2. i <= 1
      BY <1>1, <1>4, <3>1
    <3> QED
      BY <3>1, <3>2
  <2> DEFINE r == q[1]
             new == EnterStep([rs[r] EXCEPT !.status = "running"], 1)
  <2>2. r \in Run /\ Distinct(chaosQueue') /\ Members(chaosQueue') = Members(q) \ {r}
    BY <1>4, <2>1, ShiftRemoves DEF Waiting
  <2>3. new.status = "running" /\ new.at = "step" /\ new.aborted = rs[r].aborted
    BY <2>2 DEF EnterStep, Object
  <2>4. run' = [rs EXCEPT ![r] = new] /\ activeChaosRunId' = r
    BY <1>4, <2>1
  <2> HIDE DEF r, new
  <2>5. run'[r] = new /\ \A s \in Run \ {r} : run'[s] = rs[s]
    BY <2>2, <2>4
  <2>6. AllBusy(run')
    BY <2>3, <2>5 DEF AllBusy, Busy
  <2>7. NotRequeued(rs, run')
    BY <2>3, <2>5 DEF NotRequeued
  <2>8. Waiting(known, run', chaosQueue')
    <3>1. {s \in known : run'[s].status = "queued"} = {s \in known : rs[s].status = "queued"} \ {r}
      BY <2>3, <2>5
    <3> QED
      BY <2>2, <3>1 DEF Waiting
  <2>9. Serves(chaosQueue', activeChaosRunId')
    BY <2>2, <2>4, NoneIsNoRun DEF Serves
  <2> QED
    BY <2>6, <2>7, <2>8, <2>9
<1> QED
  BY <1>2, <1>3, <1>4 DEF StartNext

\* finishChaosRun: the run that is finished waits no longer, and the next one
\* starts.
LEMMA FinishServes ==
  ASSUME RunsInv, NEW r \in Run, NEW status \in Terminal,
         NEW rs \in [Run -> Object], AllBusy(rs),
         rs[r].at \in {"step", "struck", "repair", "settle"} => rs[r].aborted,
         rs[r].status # "none",
         NEW q, Distinct(q), Members(q) = {o \in chaosRuns \ {r} : rs[o].status = "queued"},
         rs[r].finished => rs[r].status # "queued" /\ Serves(q, activeChaosRunId),
         Finish(r, status, rs, q)
  PROVE  /\ AllBusy(run') /\ NotRequeued(rs, run')
         /\ Waiting(chaosRuns, run', chaosQueue') /\ Serves(chaosQueue', activeChaosRunId')
<1>1. CASE rs[r].finished
  <2>1. run' = rs /\ chaosQueue' = q /\ activeChaosRunId' = activeChaosRunId
    BY <1>1 DEF Finish, AlreadyFinished
  <2>2. Members(q) = {o \in chaosRuns : rs[o].status = "queued"}
    BY <1>1
  <2> QED
    BY <1>1, <2>1, <2>2 DEF Waiting, NotRequeued
<1>2. CASE ~rs[r].finished
  <2> DEFINE new == [rs EXCEPT ![r] = Closed(@, status)]
             active == ActiveAfter(r)
  <2>1. StartNext(chaosRuns, new, q, active)
    BY <1>2 DEF Finish, AlreadyFinished
  <2>2. /\ Closed(rs[r], status) \in Object
        /\ Closed(rs[r], status).status = status
        /\ Closed(rs[r], status).at = rs[r].at
        /\ Closed(rs[r], status).aborted = rs[r].aborted
    BY DEF Closed, Object
  <2>3. new \in [Run -> Object]
    BY <2>2
  <2>4. new[r] = Closed(rs[r], status) /\ \A s \in Run \ {r} : new[s] = rs[s]
    OBVIOUS
  <2> HIDE DEF new
  <2>5. status \notin {"none", "queued", "running"}
    BY DEF Terminal
  <2>6. AllBusy(new)
    BY <2>2, <2>4, <2>5 DEF AllBusy, Busy
  <2>7. Waiting(chaosRuns, new, q)
    <3>1. {o \in chaosRuns : new[o].status = "queued"} = {o \in chaosRuns \ {r} : rs[o].status = "queued"}
      BY <2>2, <2>4, <2>5 DEF RunsInv
    <3> QED
      BY <3>1 DEF Waiting
  <2>8. active \in Run \cup {None} /\ chaosRuns \subseteq Run
    BY DEF RunsInv, Owned, ActiveAfter
  <2> HIDE DEF active
  <2>9. /\ AllBusy(run') /\ NotRequeued(new, run')
        /\ Waiting(chaosRuns, run', chaosQueue') /\ Serves(chaosQueue', activeChaosRunId')
    BY <2>1, <2>3, <2>6, <2>7, <2>8, StartNextServes
  <2>10. NotRequeued(rs, run')
    BY <2>2, <2>4, <2>5, <2>9 DEF NotRequeued
  <2> QED
    BY <2>9, <2>10
<1> QED
  BY <1>1, <1>2

-----------------------------------------------------------------------------
(* The queue and the targets, step by step. *)

Untouched(rs) == \A r \in Run : ~rs[r].aborted

\* The scenario stops or fills a container.
Breaks(s) == \E j \in DOMAIN Steps[s] : Steps[s][j] = "break"

\* The run will be followed by a recovery.
ToRecover(rs, active) ==
  \E r \in Run :
    /\ active = r
    /\ \/ rs[r].at = "repair"
       \/ rs[r].at \in {"step", "struck"} /\ Breaks(rs[r].scenario)

\* As long as no run was aborted and no recovery of the containers was reported
\* as failed, one that is stopped or full is going to be recovered by the active
\* run.
TargetInv ==
  "container" \in broken \ recoveryFailed /\ Untouched(run) => ToRecover(run, activeChaosRunId)

\* A handler that works on a run has found it running.
Handling == \A r \in Run : cancel[r] \in {"repair", "settle"} => run[r].status # "queued"

\* The inductive invariant, with the queue and the targets.
RunnerInv ==
  /\ RunsInv
  /\ AllBusy(run)
  /\ Handling
  /\ IsFiniteSet(chaosRuns)
  /\ Waiting(chaosRuns, run, chaosQueue)
  /\ Serves(chaosQueue, activeChaosRunId)
  /\ broken \subseteq Target /\ recoveryFailed \subseteq Target /\ recover \in Handler
  /\ TargetInv

\* What a step leaves true of the runs and the queue.
Served ==
  /\ AllBusy(run') /\ NotRequeued(run, run')
  /\ Waiting(chaosRuns', run', chaosQueue') /\ Serves(chaosQueue', activeChaosRunId')

\* A run that is untouched after a step was untouched before.
LEMMA AbortsStay ==
  ASSUME RunnerInv, [Next]_vars, Untouched(run')
  PROVE  Untouched(run)
<1>1. Kept(run, run')
  BY NextStep DEF RunnerInv, Step
<1> QED
  BY <1>1 DEF RunnerInv, AllBusy, Busy, Kept, Untouched

\* A run that goes on where it is, or to where its recovery is.
LEMMA GoOnServes ==
  ASSUME RunnerInv, NEW r \in Run, NEW new \in Object,
         new.status = run[r].status, run[r].status # "none", run[r].aborted => new.aborted,
         new.at \in {"step", "struck", "repair", "settle"} =>
           run[r].at \in {"step", "struck", "repair", "settle"},
         run' = [run EXCEPT ![r] = new], UNCHANGED <<chaosRuns, chaosQueue, activeChaosRunId>>
  PROVE  Served
<1>1. run \in [Run -> Object] /\ chaosRuns \subseteq Run
  BY DEF RunnerInv, RunsInv, AllSound
<1>2. run'[r] = new /\ \A s \in Run \ {r} : run'[s] = run[s]
  BY <1>1
<1>3. AllBusy(run')
  BY <1>2 DEF RunnerInv, AllBusy, Busy
<1>4. \A s \in Run : run'[s].status = run[s].status
  BY <1>2
<1>5. Waiting(chaosRuns', run', chaosQueue')
  <2>1. {s \in chaosRuns : run'[s].status = "queued"} = {s \in chaosRuns : run[s].status = "queued"}
    BY <1>1, <1>4
  <2> QED
    BY <2>1 DEF RunnerInv, Waiting
<1> QED
  BY <1>3, <1>4, <1>5 DEF RunnerInv, Served, NotRequeued

\* POST /qa/chaos/runs, which forgets runs that are finished.
LEMMA EnqueueServes ==
  ASSUME RunnerInv, NEW r \in Run, NEW s \in Scenario, Enqueue(r, s)
  PROVE  /\ AllBusy(run') /\ Waiting(chaosRuns', run', chaosQueue')
         /\ Serves(chaosQueue', activeChaosRunId') /\ IsFiniteSet(chaosRuns')
         /\ \A o \in Run \ {r} : run[o].status \notin {"none", "queued"} => run'[o].status # "queued"
         /\ activeChaosRunId # None =>
              /\ activeChaosRunId' = activeChaosRunId
              /\ \A o \in Run \ {r} : run'[o] = run[o]
<1> DEFINE new == [NoRun EXCEPT !.scenario = s, !.status = "queued"]
           rs == [run EXCEPT ![r] = new]
<1>1. /\ run \in [Run -> Object] /\ run[r].status = "none" /\ chaosRuns \subseteq Run
      /\ \A o \in Run : Sound(run[o])
  BY DEF RunnerInv, RunsInv, AllSound, Enqueue
<1>2. PICK old \in SUBSET {o \in chaosRuns : run[o].finished} : chaosRuns' = (chaosRuns \ old) \cup {r}
  BY DEF Enqueue
<1>3. chaosRuns' \subseteq Run /\ IsFiniteSet(chaosRuns')
  <2>1. IsFiniteSet(chaosRuns \ old)
    BY FS_Subset DEF RunnerInv
  <2> QED
    BY <1>1, <1>2, <2>1, FS_AddElement
<1>4. new \in Object /\ new.status = "queued" /\ new.at = "none"
  BY DEF NoRun, Object, Terminal
<1>5. StartNext(chaosRuns', rs, Append(chaosQueue, r), activeChaosRunId)
  BY DEF Enqueue
<1> HIDE DEF new
<1>6. rs \in [Run -> Object] /\ rs[r] = new /\ \A o \in Run \ {r} : rs[o] = run[o]
  BY <1>1, <1>4
<1> HIDE DEF rs
<1>7. AllBusy(rs)
  BY <1>4, <1>6 DEF RunnerInv, AllBusy, Busy
<1>8. Waiting(chaosRuns', rs, Append(chaosQueue, r))
  <2>1. r \notin Members(chaosQueue)
    BY <1>1 DEF RunnerInv, Waiting
  <2>2. Distinct(Append(chaosQueue, r)) /\ Members(Append(chaosQueue, r)) = Members(chaosQueue) \cup {r}
    BY <2>1, PushAdds DEF RunnerInv, Waiting
  <2>3. \A o \in old : run[o].status # "queued"
    BY <1>1 DEF Sound, Terminal
  <2>4. {o \in chaosRuns' : rs[o].status = "queued"} = {o \in chaosRuns : run[o].status = "queued"} \cup {r}
    BY <1>1, <1>2, <1>4, <1>6, <2>3
  <2> QED
    BY <2>2, <2>4 DEF RunnerInv, Waiting
<1>9. activeChaosRunId \in Run \cup {None}
  BY DEF RunnerInv, RunsInv, Owned
<1>10. /\ AllBusy(run') /\ NotRequeued(rs, run')
       /\ Waiting(chaosRuns', run', chaosQueue') /\ Serves(chaosQueue', activeChaosRunId')
       /\ activeChaosRunId # None => run' = rs /\ activeChaosRunId' = activeChaosRunId
  BY <1>3, <1>5, <1>6, <1>7, <1>8, <1>9, StartNextServes
<1> QED
  BY <1>3, <1>6, <1>10 DEF NotRequeued

\* The loop finishes its run and returns.
LEMMA OverServes ==
  ASSUME RunnerInv, NEW r \in Run, NEW status \in Terminal,
         run[r].at \in {"step", "struck", "settle"},
         Finish(r, status, Over(r), chaosQueue), UNCHANGED chaosRuns
  PROVE  Served
<1> DEFINE rs == Over(r)
<1>1. /\ run \in [Run -> Object] /\ run[r] \in Object /\ chaosRuns \subseteq Run
      /\ Sound(run[r]) /\ RunsInv
  BY DEF RunnerInv, RunsInv, AllSound
<1>2. /\ rs \in [Run -> Object] /\ rs[r].at = "done" /\ rs[r].status = run[r].status
      /\ rs[r].finished = run[r].finished
      /\ \A s \in Run \ {r} : rs[s] = run[s]
  BY <1>1 DEF Over, Object, Terminal
<1> HIDE DEF rs
<1>3. run[r].status \notin {"none", "queued"}
  BY <1>1 DEF RunnerInv, AllBusy, Busy, Sound
<1>4. AllBusy(rs)
  BY <1>2, <1>3 DEF RunnerInv, AllBusy, Busy
<1>5. Distinct(chaosQueue) /\ Members(chaosQueue) = {o \in chaosRuns \ {r} : rs[o].status = "queued"}
  <2>1. {o \in chaosRuns \ {r} : rs[o].status = "queued"} = {o \in chaosRuns : run[o].status = "queued"}
    BY <1>1, <1>2, <1>3
  <2> QED
    BY <2>1 DEF RunnerInv, Waiting
<1>6. Finish(r, status, rs, chaosQueue)
  BY DEF rs
<1>7. /\ AllBusy(run') /\ NotRequeued(rs, run')
      /\ Waiting(chaosRuns, run', chaosQueue') /\ Serves(chaosQueue', activeChaosRunId')
  BY <1>1, <1>2, <1>3, <1>4, <1>5, <1>6, FinishServes DEF RunnerInv
<1>8. NotRequeued(run, run')
  BY <1>2, <1>3, <1>7 DEF NotRequeued
<1> QED
  BY <1>7, <1>8 DEF Served

\* A step that is over: the loop goes on, recovers or returns.
LEMMA StepEndsServes ==
  ASSUME RunnerInv, NEW r \in Run, NEW result, StepEnds(r, result)
  PROVE  Served
<1>1. /\ run \in [Run -> Object] /\ run[r] \in Object /\ Sound(run[r])
      /\ run[r].at \in {"step", "struck"} /\ UNCHANGED chaosRuns
  BY DEF RunnerInv, RunsInv, AllSound, StepEnds
<1>2. run[r].status # "none"
  BY <1>1 DEF RunnerInv, AllBusy, Busy
<1>3. CASE \E status \in Terminal : Finish(r, status, Over(r), chaosQueue)
  BY <1>1, <1>3, OverServes
<1>4. CASE \E verdict \in {"pass", "fail"} : ToRecovery(r, verdict)
  <2>1. PICK verdict \in {"pass", "fail"} : ToRecovery(r, verdict)
    BY <1>4
  <2> DEFINE new == [run[r] EXCEPT !.at = "repair", !.verdict = verdict]
  <2>2. /\ new \in Object /\ new.status = run[r].status /\ new.aborted = run[r].aborted
        /\ new.at = "repair" /\ run' = [run EXCEPT ![r] = new]
        /\ UNCHANGED <<chaosQueue, activeChaosRunId>>
    BY <1>1, <2>1 DEF ToRecovery, Object, Terminal
  <2> HIDE DEF new
  <2> QED
    BY <1>1, <1>2, <2>2, GoOnServes
<1>5. CASE /\ run' = [run EXCEPT ![r] = EnterStep(@, run[r].step + 1)]
           /\ UNCHANGED <<chaosQueue, activeChaosRunId>>
  <2> DEFINE new == EnterStep(run[r], run[r].step + 1)
  <2>1. run[r].step + 1 \in Nat
    BY <1>1 DEF Object
  <2>2. new \in Object /\ new.status = run[r].status /\ new.aborted = run[r].aborted
    BY <1>1, <2>1, FieldsOfStep
  <2>3. run' = [run EXCEPT ![r] = new]
    BY <1>5
  <2> HIDE DEF new
  <2> QED
    BY <1>1, <1>2, <1>5, <2>2, <2>3, GoOnServes
<1> QED
  BY <1>3, <1>4, <1>5 DEF StepEnds, StopsEarly, Terminal

\* The other steps of the loop.
LEMMA LoopServes ==
  ASSUME RunnerInv, NEW r \in Run, Strike(r) \/ Repair(r) \/ End(r)
  PROVE  Served
<1>1. run \in [Run -> Object] /\ run[r] \in Object
  BY DEF RunnerInv, RunsInv, AllSound
<1>2. run[r].status # "none"
  BY DEF RunnerInv, AllBusy, Busy, Strike, Repair, End
<1>3. CASE Strike(r)
  <2> DEFINE new == [run[r] EXCEPT !.at = "struck"]
  <2>1. /\ new \in Object /\ new.status = run[r].status /\ new.aborted = run[r].aborted
        /\ run' = [run EXCEPT ![r] = new] /\ run[r].at = "step"
        /\ UNCHANGED <<chaosRuns, chaosQueue, activeChaosRunId>>
    BY <1>1, <1>3 DEF Strike, Object
  <2> HIDE DEF new
  <2> QED
    BY <1>2, <2>1, GoOnServes
<1>4. CASE Repair(r)
  <2> DEFINE new == [run[r] EXCEPT !.at = "settle", !.children = FALSE]
  <2>1. /\ new \in Object /\ new.status = run[r].status /\ new.aborted = run[r].aborted
        /\ run' = [run EXCEPT ![r] = new] /\ run[r].at = "repair"
        /\ UNCHANGED <<chaosRuns, chaosQueue, activeChaosRunId>>
    BY <1>1, <1>4 DEF Repair, Object
  <2> HIDE DEF new
  <2> QED
    BY <1>2, <2>1, GoOnServes
<1>5. CASE End(r)
  <2>1. run[r].verdict \in Terminal
    BY <1>1 DEF Object
  <2> QED
    BY <1>5, <2>1, OverServes DEF End
<1> QED
  BY <1>3, <1>4, <1>5

\* A cancel takes a run that waits out of the queue.
LEMMA CancelServes ==
  ASSUME RunnerInv, NEW r \in Run, Cancel(r)
  PROVE  /\ Served /\ ~Untouched(run')
         /\ cancel'[r] = "repair" => run'[r].status # "queued"
<1> DEFINE new == [run[r] EXCEPT !.aborted = TRUE]
           rs == [run EXCEPT ![r] = new]
<1>1. /\ run \in [Run -> Object] /\ run[r] \in Object /\ Sound(run[r]) /\ chaosRuns \subseteq Run
      /\ run[r].status # "none" /\ UNCHANGED chaosRuns /\ r \in chaosRuns
  BY DEF RunnerInv, RunsInv, AllSound, Aborting, Cancel
<1>2. /\ new \in Object /\ new.aborted /\ new.status = run[r].status
      /\ new.finished = run[r].finished /\ new.at = run[r].at
      /\ new.scenario = run[r].scenario /\ new.step = run[r].step /\ new.children = run[r].children
  BY <1>1 DEF Object
<1>3. [run EXCEPT ![r].aborted = TRUE] = rs
  BY <1>1
<1> HIDE DEF new
<1>4. rs \in [Run -> Object] /\ rs[r] = new /\ \A s \in Run \ {r} : rs[s] = run[s]
  BY <1>1, <1>2
<1>5. CASE /\ run[r].status = "queued"
           /\ Finish(r, "cancelled", rs, QueueWithout(r))
           /\ cancel' = [cancel EXCEPT ![r] = "done"]
  <2>1. Sound(new)
    BY <1>1, <1>2 DEF Sound
  <2>2. AllSound(rs) /\ Owned(rs, activeChaosRunId)
    <3>1. /\ AllSound([run EXCEPT ![r] = new])
          /\ Owned([run EXCEPT ![r] = new], activeChaosRunId)
      BY <1>2, <2>1, SameStatusKeeps DEF RunnerInv
    <3> QED
      BY <3>1
  <2> HIDE DEF rs
  <2>3. Distinct(QueueWithout(r)) /\ Members(QueueWithout(r)) = Members(chaosQueue) \ {r}
    BY RemoveFirstRemoves DEF RunnerInv, Waiting, QueueWithout
  <2>4. Members(QueueWithout(r)) = {o \in chaosRuns \ {r} : rs[o].status = "queued"}
    <3>1. {o \in chaosRuns \ {r} : rs[o].status = "queued"} = {o \in chaosRuns : run[o].status = "queued"} \ {r}
      BY <1>1, <1>4
    <3> QED
      BY <2>3, <3>1 DEF RunnerInv, Waiting
  <2>5. AllBusy(rs)
    BY <1>1, <1>2, <1>4 DEF RunnerInv, AllBusy, Busy
  <2>6. ~rs[r].finished
    BY <1>1, <1>2, <1>4, <1>5 DEF Sound, Terminal
  <2>7. /\ AllBusy(run') /\ NotRequeued(rs, run')
        /\ Waiting(chaosRuns, run', chaosQueue') /\ Serves(chaosQueue', activeChaosRunId')
    BY <1>1, <1>2, <1>4, <1>5, <2>3, <2>4, <2>5, <2>6, FinishServes DEF RunnerInv, Terminal
  <2>8. NotRequeued(run, run')
    BY <1>2, <1>4, <2>7 DEF NotRequeued
  <2>9. Kept(rs, run')
    BY <1>2, <1>4, <1>5, <2>2, FinishKeeps DEF RunnerInv, Terminal
  <2>10. run'[r].aborted
    BY <1>1, <1>2, <1>4, <2>9 DEF Kept
  <2>11. cancel'[r] = "done"
    BY <1>5 DEF RunnerInv, RunsInv, Aborting
  <2> QED
    BY <1>1, <2>7, <2>8, <2>10, <2>11 DEF Served, Untouched
<1>6. CASE run[r].status # "queued" /\ run' = rs /\ UNCHANGED <<chaosQueue, activeChaosRunId>>
  <2>1. Served
    BY <1>1, <1>2, <1>6, GoOnServes
  <2> QED
    BY <1>2, <1>4, <1>6, <2>1 DEF Untouched
<1> QED
  BY <1>3, <1>5, <1>6 DEF Cancel

\* The handler that has recovered, and the one that finishes its run.
LEMMA HandlerServes ==
  ASSUME RunnerInv, NEW r \in Run, CancelRepairs(r) \/ CancelEnds(r)
  PROVE  Served
<1>1. /\ run \in [Run -> Object] /\ run[r] \in Object /\ Sound(run[r]) /\ chaosRuns \subseteq Run
      /\ run[r].status \notin {"none", "queued"} /\ run[r].aborted
  BY DEF RunnerInv, RunsInv, AllSound, Aborting, Handling, CancelRepairs, CancelEnds
<1>2. CASE CancelRepairs(r)
  <2> DEFINE new == [run[r] EXCEPT !.children = FALSE]
  <2>1. /\ new \in Object /\ new.status = run[r].status /\ new.aborted = run[r].aborted
        /\ new.at = run[r].at /\ run' = [run EXCEPT ![r] = new]
        /\ UNCHANGED <<chaosRuns, chaosQueue, activeChaosRunId>>
    BY <1>1, <1>2 DEF CancelRepairs, Object
  <2> HIDE DEF new
  <2> QED
    BY <1>1, <2>1, GoOnServes
<1>3. CASE CancelEnds(r)
  <2>1. Distinct(chaosQueue) /\ Members(chaosQueue) = {o \in chaosRuns \ {r} : run[o].status = "queued"}
    <3>1. {o \in chaosRuns \ {r} : run[o].status = "queued"} = {o \in chaosRuns : run[o].status = "queued"}
      BY <1>1
    <3> QED
      BY <3>1 DEF RunnerInv, Waiting
  <2>2. Finish(r, "cancelled", run, chaosQueue) /\ UNCHANGED chaosRuns
    BY <1>3 DEF CancelEnds
  <2>3. /\ AllBusy(run') /\ NotRequeued(run, run')
        /\ Waiting(chaosRuns, run', chaosQueue') /\ Serves(chaosQueue', activeChaosRunId')
    BY <1>1, <2>1, <2>2, FinishServes DEF RunnerInv, Terminal
  <2> QED
    BY <2>2, <2>3 DEF Served
<1> QED
  BY <1>2, <1>3

\* The global recovery leaves an empty queue.
LEMMA RecoverServes ==
  ASSUME RunnerInv, Recover
  PROVE  Served
<1> DEFINE hit == {r \in chaosRuns : run[r].status \in {"queued", "running"}}
           queued == {r \in hit : run[r].status = "queued"}
           closed(r) == Closed([run[r] EXCEPT !.aborted = TRUE], "cancelled")
<1>1. /\ run \in [Run -> Object] /\ chaosRuns \subseteq Run /\ UNCHANGED chaosRuns
      /\ run' = [r \in Run |-> IF r \in hit THEN closed(r) ELSE run[r]]
      /\ chaosQueue' = FoldSet(LAMBDA r, q : RemoveFirst(q, r), chaosQueue, queued)
  BY DEF RunnerInv, RunsInv, AllSound, Recover
<1>2. \A r \in Run : closed(r).status = "cancelled" /\ closed(r).aborted
  BY <1>1 DEF Closed, Object
<1> HIDE DEF closed
<1>3. \A r \in Run : run'[r] = IF r \in hit THEN closed(r) ELSE run[r]
  BY <1>1
<1>4. AllBusy(run') /\ NotRequeued(run, run')
  BY <1>2, <1>3 DEF RunnerInv, AllBusy, Busy, NotRequeued
<1>5. queued \in SUBSET Run /\ IsFiniteSet(queued)
  BY <1>1, FS_Subset DEF RunnerInv
<1>6. Members(chaosQueue) = queued
  BY DEF RunnerInv, Waiting
<1> HIDE DEF queued
<1>7. Distinct(chaosQueue') /\ Members(chaosQueue') = Members(chaosQueue) \ queued
  BY <1>1, <1>5, FoldRemoves DEF RunnerInv, Waiting
<1>8. Members(chaosQueue') = {}
  BY <1>6, <1>7
<1>9. chaosQueue' = <<>>
  BY <1>7, <1>8 DEF Distinct, Members
<1>10. {r \in chaosRuns' : run'[r].status = "queued"} = {}
  BY <1>1, <1>2, <1>3
<1>11. Waiting(chaosRuns', run', chaosQueue') /\ Serves(chaosQueue', activeChaosRunId')
  BY <1>7, <1>8, <1>9, <1>10 DEF Waiting, Serves
<1> QED
  BY <1>4, <1>11 DEF Served

\* Every step serves the queue.
LEMMA NextServes ==
  ASSUME RunnerInv, [Next]_vars
  PROVE  /\ AllBusy(run') /\ Waiting(chaosRuns', run', chaosQueue')
         /\ Serves(chaosQueue', activeChaosRunId') /\ IsFiniteSet(chaosRuns') /\ Handling'
<1> DEFINE Goal == /\ AllBusy(run') /\ Waiting(chaosRuns', run', chaosQueue')
                   /\ Serves(chaosQueue', activeChaosRunId') /\ IsFiniteSet(chaosRuns') /\ Handling'
<1>1. \A o \in Run : cancel[o] \in {"repair", "settle"} => run[o].status \notin {"none", "queued"}
  BY DEF RunnerInv, RunsInv, Aborting, Handling
<1>2. cancel \in [Run -> Handler]
  BY DEF RunnerInv, RunsInv, Aborting
<1>3. ASSUME Served, UNCHANGED <<chaosRuns, cancel>> PROVE Goal
  BY <1>1, <1>3 DEF Served, RunnerInv, Handling, NotRequeued
<1>4. ASSUME NEW r \in Run, NEW s \in Scenario, Enqueue(r, s) PROVE Goal
  <2>1. cancel' = cancel /\ run[r].status = "none"
    BY <1>4 DEF Enqueue
  <2>2. Handling'
    BY <1>1, <1>4, <2>1, EnqueueServes DEF Handling
  <2> QED
    BY <1>4, <2>2, EnqueueServes
<1>5. ASSUME NEW r \in Run, Strike(r) \/ Repair(r) \/ End(r) PROVE Goal
  BY <1>3, <1>5, LoopServes DEF Strike, Repair, End
<1>6. ASSUME NEW r \in Run, NEW result, StepEnds(r, result) PROVE Goal
  BY <1>3, <1>6, StepEndsServes DEF StepEnds
<1>7. ASSUME NEW r \in Run, Cancel(r) PROVE Goal
  <2>1. Served /\ (cancel'[r] = "repair" => run'[r].status # "queued") /\ chaosRuns' = chaosRuns
    BY <1>7, CancelServes DEF Cancel
  <2>2. cancel'[r] \in {"repair", "done"} /\ \A o \in Run \ {r} : cancel'[o] = cancel[o]
    BY <1>2, <1>7 DEF Cancel
  <2>3. Handling'
    BY <1>1, <2>1, <2>2 DEF Handling, Served, NotRequeued
  <2> QED
    BY <2>1, <2>3 DEF Served, RunnerInv
<1>8. ASSUME NEW r \in Run, CancelRepairs(r) \/ CancelEnds(r) PROVE Goal
  <2>1. Served /\ chaosRuns' = chaosRuns
    BY <1>8, HandlerServes DEF CancelRepairs, CancelEnds
  <2>2. cancel[r] \in {"repair", "settle"} /\ \A o \in Run \ {r} : cancel'[o] = cancel[o]
    BY <1>2, <1>8 DEF CancelRepairs, CancelEnds
  <2>3. Handling'
    BY <1>1, <2>1, <2>2 DEF Handling, Served, NotRequeued
  <2> QED
    BY <2>1, <2>3 DEF Served, RunnerInv
<1>9. CASE Recover
  BY <1>3, <1>9, RecoverServes DEF Recover
<1>10. CASE RecoverEnds \/ UNCHANGED vars
  BY <1>10 DEF RecoverEnds, vars, RunnerInv, Handling
<1> QED
  BY <1>4, <1>5, <1>6, <1>7, <1>8, <1>9, <1>10 DEF Next, Work

\* No container is left broken in silence: the active run goes on to its recovery.
LEMMA NextRecovers ==
  ASSUME RunnerInv, [Next]_vars
  PROVE  TargetInv'
<1>1. SUFFICES ASSUME "container" \in broken' \ recoveryFailed', Untouched(run')
               PROVE  ToRecover(run', activeChaosRunId')
  BY DEF TargetInv
<1>2. Untouched(run)
  BY <1>1, AbortsStay
<1>3. /\ run \in [Run -> Object]
      /\ \A r \in Run : run[r] \in Object /\ Sound(run[r])
      /\ \A r \in Run : run[r].at \in {"step", "struck", "repair", "settle"} => activeChaosRunId = r
  BY <1>2 DEF RunnerInv, RunsInv, AllSound, AllBusy, Busy, Untouched, Owned
<1>4. "container" \in broken \ recoveryFailed => ToRecover(run, activeChaosRunId)
  BY <1>2 DEF RunnerInv, TargetInv
<1>5. ASSUME NEW r \in Run, NEW s \in Scenario, Enqueue(r, s) PROVE ToRecover(run', activeChaosRunId')
  <2>1. /\ broken = broken' /\ recoveryFailed = recoveryFailed' /\ run[r].status = "none"
    BY <1>5 DEF Enqueue
  <2>2. PICK o \in Run : /\ activeChaosRunId = o
                         /\ \/ run[o].at = "repair"
                            \/ run[o].at \in {"step", "struck"} /\ Breaks(run[o].scenario)
    BY <1>1, <1>4, <2>1 DEF ToRecover
  <2>3. activeChaosRunId # None /\ o # r
    BY <2>1, <2>2, NoneIsNoRun DEF RunnerInv, AllBusy, Busy
  <2>4. activeChaosRunId' = o /\ run'[o] = run[o]
    BY <1>5, <2>2, <2>3, EnqueueServes
  <2> QED
    BY <2>2, <2>4 DEF ToRecover
<1>6. ASSUME NEW r \in Run, Strike(r) PROVE ToRecover(run', activeChaosRunId')
  <2>1. /\ run[r].at = "step" /\ KindOf(run[r]) \in Command /\ activeChaosRunId' = activeChaosRunId
        /\ run'[r].at = "struck" /\ run'[r].scenario = run[r].scenario
        /\ broken' = Struck(KindOf(run[r])) /\ recoveryFailed' = recoveryFailed
    BY <1>3, <1>6 DEF Strike, Object
  <2>2. CASE KindOf(run[r]) # "break"
    <3>1. "container" \in broken
      BY <1>1, <2>1, <2>2 DEF Struck, Command
    <3>2. run[r].at = "step" /\ activeChaosRunId = r
      BY <1>3, <2>1
    <3>3. Breaks(run[r].scenario)
      BY <1>1, <1>4, <2>1, <3>1, <3>2 DEF ToRecover
    <3> QED
      BY <2>1, <3>2, <3>3 DEF ToRecover
  <2>3. CASE KindOf(run[r]) = "break"
    <3>1. run[r].scenario \in Scenario /\ run[r].step \in 1..Len(Steps[run[r].scenario])
      BY <1>3, <2>1 DEF Sound
    <3>2. run[r].step \in DOMAIN Steps[run[r].scenario]
      BY <3>1, StepsAreKinds
    <3>3. Breaks(run[r].scenario)
      BY <2>3, <3>2 DEF Breaks, KindOf
    <3> QED
      BY <1>3, <2>1, <3>3 DEF ToRecover
  <2> QED
    BY <2>2, <2>3
<1>7. ASSUME NEW r \in Run, NEW result, StepEnds(r, result) PROVE ToRecover(run', activeChaosRunId')
  <2>1. /\ broken = broken' /\ recoveryFailed = recoveryFailed'
        /\ run[r].at \in {"step", "struck"} /\ activeChaosRunId = r
    BY <1>3, <1>7 DEF StepEnds
  <2>2. Breaks(run[r].scenario)
    BY <1>1, <1>4, <2>1 DEF ToRecover
  <2>3. result # "blocked"
    <3>1. run[r].scenario \in Scenario /\ run[r].step \in DOMAIN Steps[run[r].scenario]
      BY <1>3, <2>1, StepsAreKinds DEF Sound
    <3>2. KindOf(run[r]) # "cap" /\ KindOf(run[r]) \in Kind
      BY <2>2, <3>1, CapsBreakNothing, StepsAreKinds DEF Breaks, KindOf
    <3> QED
      BY <1>7, <3>2 DEF StepEnds, Results, Thrown, Kind, Command
  <2>4. CASE \E verdict \in {"pass", "fail"} : ToRecovery(r, verdict)
    <3>1. run'[r].at = "repair" /\ activeChaosRunId' = r
      BY <1>3, <2>1, <2>4 DEF ToRecovery, Object
    <3> QED
      BY <3>1 DEF ToRecover
  <2>5. CASE run' = [run EXCEPT ![r] = EnterStep(@, run[r].step + 1)] /\ UNCHANGED activeChaosRunId
    <3>1. run'[r].at = "step" /\ run'[r].scenario = run[r].scenario /\ activeChaosRunId' = r
      BY <1>3, <2>1, <2>5 DEF EnterStep, Object
    <3> QED
      BY <2>2, <3>1 DEF ToRecover
  <2> QED
    BY <1>2, <1>7, <2>3, <2>4, <2>5 DEF StepEnds, RecoversAfter, StopsEarly, Untouched
<1>8. ASSUME NEW r \in Run, End(r) PROVE FALSE
  BY <1>1, <1>3, <1>4, <1>8 DEF End, ToRecover
<1>9. ASSUME NEW r \in Run, Repair(r) \/ CancelRepairs(r) \/ RecoverEnds PROVE FALSE
  BY <1>1, <1>9 DEF Repair, CancelRepairs, RecoverEnds, RecoverTargets, Reported
<1>10. ASSUME NEW r \in Run, Cancel(r) \/ CancelEnds(r) PROVE FALSE
  BY <1>1, <1>2, <1>10, CancelServes DEF RunnerInv, RunsInv, Aborting, CancelEnds, Untouched
<1>11. CASE Recover
  <2> DEFINE hit == {r \in chaosRuns : run[r].status \in {"queued", "running"}}
  <2>1. \A r \in Run : run'[r] = IF r \in hit THEN Closed([run[r] EXCEPT !.aborted = TRUE], "cancelled") ELSE run[r]
    BY <1>11 DEF Recover
  <2>2. \A r \in hit : FALSE
    <3>1. ASSUME NEW r \in hit PROVE FALSE
      <4>1. r \in Run /\ run[r] \in Object
        BY <1>3 DEF RunnerInv, RunsInv
      <4>2. run'[r].aborted
        BY <2>1, <4>1 DEF Closed, Object
      <4> QED
        BY <1>1, <4>1, <4>2 DEF Untouched
    <3> QED
      BY <3>1
  <2>3. activeChaosRunId' = activeChaosRunId /\ broken' = broken /\ recoveryFailed' = recoveryFailed
    BY <1>11, <2>2 DEF Recover
  <2> QED
    BY <1>1, <1>4, <2>1, <2>2, <2>3 DEF ToRecover
<1>12. CASE RecoverEnds
  BY <1>1, <1>12 DEF RecoverEnds, RecoverTargets, Reported
<1>13. CASE UNCHANGED vars
  BY <1>1, <1>4, <1>13 DEF vars, ToRecover
<1> QED
  BY <1>5, <1>6, <1>7, <1>8, <1>9, <1>10, <1>11, <1>12, <1>13 DEF Next, Work

\* The invariant is inductive.
LEMMA RunnerInvStep ==
  ASSUME RunnerInv, [Next]_vars
  PROVE  RunnerInv'
<1>1. RunsInv'
  BY NextStep DEF RunnerInv, Step
<1>2. broken' \subseteq Target /\ recoveryFailed' \subseteq Target
  <2>1. \/ RecoverTargets \/ UNCHANGED <<broken, recoveryFailed>>
        \/ recoveryFailed' = recoveryFailed /\ \E kind \in Command : broken' = Struck(kind)
    BY DEF Next, Work, vars, Enqueue, Strike, StepEnds, Repair, End, Cancel, CancelRepairs, CancelEnds,
           Recover, RecoverEnds
  <2> QED
    BY <2>1 DEF RecoverTargets, Reported, Struck, Command, Target, RunnerInv
<1>3. recover' \in {recover, "repair", "done"}
  BY DEF Next, Work, vars, Enqueue, Strike, StepEnds, Repair, End, Cancel, CancelRepairs, CancelEnds,
         Recover, RecoverEnds
<1> QED
  BY <1>1, <1>2, <1>3, NextServes, NextRecovers DEF RunnerInv, Handler

\* An idle runner without runs.
LEMMA InitRunner == Init => RunnerInv
<1> SUFFICES ASSUME Init PROVE RunnerInv
  OBVIOUS
<1>1. AllBusy(run) /\ Handling
  BY DEF Init, NoRun, AllBusy, Busy, Handling
<1>2. Waiting(chaosRuns, run, chaosQueue) /\ Serves(chaosQueue, activeChaosRunId)
  BY DEF Init, Waiting, Serves, Distinct, Members
<1> QED
  BY <1>1, <1>2, InitRuns, FS_EmptySet DEF Init, RunnerInv, TargetInv, Handler

\* The invariant of the runner, with its queue and its targets.
THEOREM AlwaysRunnerInv == Spec => []RunnerInv
<1>1. RunnerInv /\ [Next]_vars => RunnerInv'
  BY RunnerInvStep
<1> QED
  BY <1>1, InitRunner, PTL DEF Spec

\* The types of the run objects, the queue, the handlers and the flags, and
\* that a run has a time it finished at exactly when its status is final.
THEOREM RunnerTyped == Spec => []TypeOK
<1>1. RunnerInv => TypeOK
  BY DEF RunnerInv, RunsInv, AllSound, Sound, Owned, Aborting, Waiting, Distinct, TypeOK
<1> QED
  BY <1>1, AlwaysRunnerInv, PTL

\* No path through finishing, cancelling and recovering forgets the queue:
\* it is the runs that wait, each once, and an idle runner has nobody waiting.
THEOREM QueueIsServed == Spec => []QueueIsWaiting
<1>1. RunnerInv => QueueIsWaiting
  BY DEF RunnerInv, Waiting, Serves, Distinct, Members, QueueIsWaiting
<1> QED
  BY <1>1, AlwaysRunnerInv, PTL

\* An idle runner has left a container stopped or full only if a run was
\* cancelled, or a recovery of it has failed and said so (recoverChaosTargets
\* reports every container and the disk, but not the delay).
THEOREM NothingStaysBroken == Spec => []BrokenOnlyByCancel
<1>1. RunnerInv => BrokenOnlyByCancel
  BY NoneIsNoRun DEF RunnerInv, TargetInv, ToRecover, Untouched, BrokenOnlyByCancel
<1> QED
  BY <1>1, AlwaysRunnerInv, PTL
-----------------------------------------------------------------------------
(* Progress: what of EveryRunEnds does not need fairness.                  *)

\* Where runChaos of a run is: not started, in its steps, or after them.
Phase(o) ==
  CASE o.at = "none" -> 0
    [] o.at \in {"step", "struck"} -> 1
    [] o.at = "repair" -> 2
    [] o.at = "settle" -> 3
    [] o.at = "done" -> 4

\* It is where it was, or further: at a later step, or with the command of the
\* same step done, or past the steps.
Onward(o, new) ==
  \/ new.at = o.at /\ new.step = o.step
  \/ Phase(o) < Phase(new)
  \/ Phase(o) = 1 /\ Phase(new) = 1 /\ o.step < new.step
  \/ o.at = "step" /\ new.at = "struck" /\ new.step = o.step

LoopsGoOn == \A r \in Run : Onward(run[r], run'[r])

\* A run that is running has its runChaos at work; one that waits in the queue
\* waits for such a run.
SomebodyWorks ==
  /\ \A r \in Run : run[r].status = "running" => run[r].at \in {"step", "struck", "repair", "settle"}
  /\ chaosQueue # <<>> => \E r \in Run : run[r].status = "running"

\* A run is at a place of runChaos that its status allows.
Placed(o) ==
  /\ o.status = "none" => o.at = "none" /\ o.step = 0
  /\ o.status = "queued" => o.at = "none"
  /\ o.status = "running" => o.at \in {"step", "struck", "repair", "settle"}

AllPlaced == \A r \in Run : Placed(run[r])

\* A run goes on from where it is in rs.
Goes(rs, r) == Onward(rs[r], run'[r]) /\ Placed(run'[r])

\* The places one by one.
LEMMA Phases ==
  ASSUME NEW o
  PROVE  /\ o.at = "none" => Phase(o) = 0
         /\ o.at \in {"step", "struck"} => Phase(o) = 1
         /\ o.at = "repair" => Phase(o) = 2
         /\ o.at = "settle" => Phase(o) = 3
         /\ o.at = "done" => Phase(o) = 4
  BY DEF Phase

\* startNextChaosRun puts a run that waited at its first step, and moves no
\* other.
LEMMA StartNextGoes ==
  ASSUME NEW known, known \subseteq Run, NEW rs \in [Run -> Object], \A s \in Run : Placed(rs[s]),
         NEW q, NEW active, StartNext(known, rs, q, active)
  PROVE  \A s \in Run : Goes(rs, s)
<1>1. CASE run' = rs
  BY <1>1 DEF Goes, Onward
<1>2. ASSUME NEW i \in DOMAIN q, q[i] \in known, rs[q[i]].status = "queued",
             run' = [rs EXCEPT ![q[i]] = EnterStep([@ EXCEPT !.status = "running"], 1)]
      PROVE  \A s \in Run : Goes(rs, s)
  <2> DEFINE started == [rs[q[i]] EXCEPT !.status = "running"]
             new == EnterStep(started, 1)
  <2>1. q[i] \in Run /\ rs[q[i]] \in Object /\ rs[q[i]].at = "none"
    BY <1>2 DEF Placed
  <2>2. started \in Object /\ started.status = "running"
    BY <2>1 DEF Object
  <2>3. new.status = "running" /\ new.at = "step"
    BY <2>2, FieldsOfStep
  <2>4. run' = [rs EXCEPT ![q[i]] = new]
    BY <1>2
  <2> HIDE DEF started, new
  <2>5. run'[q[i]] = new /\ \A s \in Run : s # q[i] => run'[s] = rs[s]
    BY <2>1, <2>4
  <2>6. Phase(rs[q[i]]) = 0 /\ Phase(new) = 1
    BY <2>1, <2>3, Phases
  <2>7. Placed(new)
    BY <2>3 DEF Placed
  <2>8. ASSUME NEW s \in Run PROVE Goes(rs, s)
    BY <2>5, <2>6, <2>7 DEF Goes, Onward
  <2> QED
    BY <2>8
<1> QED
  BY <1>1, <1>2 DEF StartNext

\* finishChaosRun closes its run where it is.
LEMMA FinishGoes ==
  ASSUME RunsInv, NEW r \in Run, NEW status \in Terminal, NEW rs \in [Run -> Object],
         \A s \in Run : s # r => Placed(rs[s]),
         rs[r].finished => rs[r].status \in Terminal,
         NEW q, Finish(r, status, rs, q)
  PROVE  \A s \in Run : Goes(rs, s)
<1>1. status \notin {"none", "queued", "running"}
  BY DEF Terminal
<1>2. CASE AlreadyFinished(rs[r])
  <2>1. run' = rs /\ rs[r].status \notin {"none", "queued", "running"}
    BY <1>2 DEF AlreadyFinished, Finish, Terminal
  <2>2. Placed(rs[r])
    BY <2>1 DEF Placed
  <2> QED
    BY <2>1, <2>2 DEF Goes, Onward
<1>3. CASE ~AlreadyFinished(rs[r])
  <2> DEFINE closed == [rs EXCEPT ![r] = Closed(rs[r], status)]
  <2>1. /\ Closed(rs[r], status) \in Object /\ Closed(rs[r], status).status = status
        /\ Closed(rs[r], status).at = rs[r].at /\ Closed(rs[r], status).step = rs[r].step
    BY DEF Closed, Object
  <2>2. /\ closed \in [Run -> Object]
        /\ closed[r] = Closed(rs[r], status)
        /\ \A s \in Run : s # r => closed[s] = rs[s]
    BY <2>1
  <2>3. StartNext(chaosRuns, closed, q, ActiveAfter(r))
    BY <1>3 DEF Finish
  <2> HIDE DEF closed
  <2>4. \A s \in Run : Placed(closed[s])
    BY <1>1, <2>1, <2>2 DEF Placed
  <2>5. chaosRuns \subseteq Run
    BY DEF RunsInv
  <2>6. \A s \in Run : Goes(closed, s)
    BY <2>2, <2>3, <2>4, <2>5, StartNextGoes
  <2>7. \A s \in Run : closed[s].at = rs[s].at /\ closed[s].step = rs[s].step
    BY <2>1, <2>2
  <2>8. \A s \in Run : Phase(closed[s]) = Phase(rs[s])
    BY <2>7 DEF Phase
  <2> QED
    BY <2>6, <2>7, <2>8 DEF Goes, Onward
<1> QED
  BY <1>2, <1>3

\* A step that changes one run object.
LEMMA OneGoes ==
  ASSUME RunsInv, AllPlaced, NEW r \in Run, NEW new, run' = [run EXCEPT ![r] = new],
         Onward(run[r], new), Placed(new)
  PROVE  \A s \in Run : Goes(run, s)
<1>1. run'[r] = new /\ \A s \in Run : s # r => run'[s] = run[s]
  BY DEF RunsInv, AllSound
<1> QED
  BY <1>1 DEF Goes, Onward, AllPlaced

\* A step that changes no place.
LEMMA NobodyGoes ==
  ASSUME AllPlaced,
         \A s \in Run : /\ run'[s].at = run[s].at /\ run'[s].step = run[s].step
                        /\ run'[s].status = run[s].status \/ run'[s].status \in Terminal
  PROVE  \A s \in Run : Goes(run, s)
  BY DEF Goes, Onward, AllPlaced, Placed, Terminal

\* runChaos returns: its run is past everything.
LEMMA OverGoes ==
  ASSUME RunsInv, RunsInv', AllPlaced, NEW r \in Run, NEW status \in Terminal, run[r].at \notin {"none", "done"},
         Finish(r, status, Over(r), chaosQueue)
  PROVE  \A s \in Run : Goes(run, s)
<1>1. run \in [Run -> Object] /\ Sound(run[r])
  BY DEF RunsInv, AllSound
<1>2. AllSound(Over(r)) /\ Over(r)[r].at = "done"
  BY OverKeeps
<1>3. Over(r) \in [Run -> Object] /\ (Over(r)[r].finished => Over(r)[r].status \in Terminal)
  BY <1>2 DEF AllSound, Sound
<1>4. \A s \in Run : s # r => Over(r)[s] = run[s]
  BY <1>1 DEF Over
<1>5. \A s \in Run : s # r => Placed(Over(r)[s])
  BY <1>4 DEF AllPlaced
<1>6. \A s \in Run : Goes(Over(r), s)
  BY <1>3, <1>5, FinishGoes
<1>7. run[r].at \in {"step", "struck", "repair", "settle"}
  BY <1>1 DEF Sound, Object
<1>8. run'[r].at \in {"none", "step", "struck", "repair", "settle", "done"}
  BY DEF RunsInv, AllSound, Object
<1>9. Phase(Over(r)[r]) = 4 /\ Phase(run'[r]) \in 0..4 /\ Phase(run[r]) \in 1..3
  BY <1>2, <1>7, <1>8, Phases
<1>10. run'[r].at = "done"
  BY <1>2, <1>6, <1>9 DEF Goes, Onward
<1>11. Phase(run'[r]) = 4
  BY <1>10, Phases
<1>12. Onward(run[r], run'[r]) /\ Placed(run'[r])
  BY <1>6, <1>9, <1>11 DEF Goes, Onward
<1> QED
  BY <1>4, <1>6, <1>12 DEF Goes

\* A step of a scenario is over.
LEMMA StepEndsGoes ==
  ASSUME RunsInv, RunsInv', AllPlaced, NEW r \in Run, NEW result, StepEnds(r, result)
  PROVE  \A s \in Run : Goes(run, s)
<1>1. run \in [Run -> Object] /\ run[r] \in Object /\ run[r].at \in {"step", "struck"}
  BY DEF RunsInv, AllSound, StepEnds
<1>2. Phase(run[r]) = 1 /\ run[r].status \notin {"none", "queued"} /\ run[r].step \in Nat
  BY <1>1, Phases DEF AllPlaced, Placed, Object
<1>3. CASE \E status \in Terminal : Finish(r, status, Over(r), chaosQueue)
  BY <1>1, <1>3, OverGoes
<1>4. ASSUME NEW verdict \in {"pass", "fail"}, ToRecovery(r, verdict)
      PROVE  \A s \in Run : Goes(run, s)
  <2> DEFINE new == [run[r] EXCEPT !.at = "repair", !.verdict = verdict]
  <2>1. run' = [run EXCEPT ![r] = new]
    BY <1>1, <1>4 DEF ToRecovery
  <2>2. new.at = "repair" /\ new.status = run[r].status
    BY <1>1 DEF Object
  <2> HIDE DEF new
  <2>3. Onward(run[r], new) /\ Placed(new)
    BY <1>2, <2>2, Phases DEF Onward, Placed
  <2> QED
    BY <2>1, <2>3, OneGoes
<1>5. CASE run' = [run EXCEPT ![r] = EnterStep(@, run[r].step + 1)]
  <2> DEFINE new == EnterStep(run[r], run[r].step + 1)
  <2>1. run' = [run EXCEPT ![r] = new]
    BY <1>5
  <2>2. new.at = "step" /\ new.status = run[r].status /\ new.step = run[r].step + 1
    <3>1. run[r].step + 1 \in Nat
      BY <1>2
    <3> QED
      BY <1>1, <3>1, FieldsOfStep
  <2> HIDE DEF new
  <2>3. Phase(new) = 1
    BY <2>2, Phases
  <2>4. Onward(run[r], new) /\ Placed(new)
    BY <1>2, <2>2, <2>3 DEF Onward, Placed
  <2> QED
    BY <2>1, <2>4, OneGoes
<1> QED
  BY <1>3, <1>4, <1>5 DEF StepEnds, Terminal

\* The rest of runChaos.
LEMMA LoopGoes ==
  ASSUME RunsInv, RunsInv', AllPlaced, NEW r \in Run, Strike(r) \/ Repair(r) \/ End(r)
  PROVE  \A s \in Run : Goes(run, s)
<1>1. run \in [Run -> Object] /\ run[r] \in Object
  BY DEF RunsInv, AllSound
<1>2. CASE Strike(r)
  <2> DEFINE new == [run[r] EXCEPT !.at = "struck"]
  <2>1. run' = [run EXCEPT ![r] = new] /\ run[r].at = "step"
    BY <1>2 DEF Strike
  <2>2. new.at = "struck" /\ new.status = run[r].status /\ new.step = run[r].step
    BY <1>1 DEF Object
  <2> HIDE DEF new
  <2>3. Onward(run[r], new) /\ Placed(new)
    BY <2>1, <2>2 DEF Onward, Placed, AllPlaced
  <2> QED
    BY <2>1, <2>3, OneGoes
<1>3. CASE Repair(r)
  <2> DEFINE new == [run[r] EXCEPT !.at = "settle", !.children = FALSE]
  <2>1. run' = [run EXCEPT ![r] = new] /\ run[r].at = "repair"
    BY <1>3 DEF Repair
  <2>2. new.at = "settle" /\ new.status = run[r].status
    BY <1>1 DEF Object
  <2> HIDE DEF new
  <2>3. Onward(run[r], new) /\ Placed(new)
    BY <2>1, <2>2, Phases DEF Onward, Placed, AllPlaced
  <2> QED
    BY <2>1, <2>3, OneGoes
<1>4. CASE End(r)
  <2>1. run[r].verdict \in Terminal /\ run[r].at \notin {"none", "done"}
    BY <1>1, <1>4 DEF End, Object
  <2> QED
    BY <1>4, <2>1, OverGoes DEF End
<1> QED
  BY <1>2, <1>3, <1>4

\* A new run takes a place nobody has.
LEMMA EnqueueGoes ==
  ASSUME RunsInv, RunsInv', AllPlaced, NEW r \in Run, NEW s \in Scenario, Enqueue(r, s)
  PROVE  \A o \in Run : Goes(run, o)
<1> DEFINE new == [NoRun EXCEPT !.scenario = s, !.status = "queued"]
           rs == [run EXCEPT ![r] = new]
<1>1. run \in [Run -> Object] /\ chaosRuns' \subseteq Run
  BY DEF RunsInv, AllSound
<1>2. new \in Object /\ new.status = "queued" /\ new.at = "none" /\ new.step = 0
  BY DEF NoRun, Object, Terminal
<1>3. run[r].at = "none" /\ run[r].step = 0
  BY DEF Enqueue, AllPlaced, Placed
<1>4. rs \in [Run -> Object] /\ rs[r] = new /\ \A o \in Run : o # r => rs[o] = run[o]
  BY <1>1, <1>2
<1>5. StartNext(chaosRuns', rs, Append(chaosQueue, r), activeChaosRunId)
  BY DEF Enqueue
<1> HIDE DEF new, rs
<1>6. \A o \in Run : Placed(rs[o])
  BY <1>2, <1>4 DEF Placed, AllPlaced
<1>7. \A o \in Run : Goes(rs, o)
  BY <1>1, <1>4, <1>5, <1>6, StartNextGoes
<1>8. \A o \in Run : rs[o].at = run[o].at /\ rs[o].step = run[o].step
  BY <1>2, <1>3, <1>4
<1>9. \A o \in Run : Phase(rs[o]) = Phase(run[o])
  BY <1>8 DEF Phase
<1> QED
  BY <1>7, <1>8, <1>9 DEF Goes, Onward

\* The handler of a cancel moves no runChaos: it aborts, and it finishes.
LEMMA CancelGoes ==
  ASSUME RunsInv, AllPlaced, NEW r \in Run, Cancel(r) \/ CancelRepairs(r) \/ CancelEnds(r)
  PROVE  \A s \in Run : Goes(run, s)
<1>1. run \in [Run -> Object] /\ run[r] \in Object /\ Sound(run[r]) /\ "cancelled" \in Terminal
  BY DEF RunsInv, AllSound, Terminal
<1> DEFINE new == [run[r] EXCEPT !.aborted = TRUE]
           rs == [run EXCEPT ![r] = new]
<1>2. /\ new \in Object /\ new.at = run[r].at /\ new.step = run[r].step
      /\ new.status = run[r].status /\ new.finished = run[r].finished
  BY <1>1 DEF Object
<1>3. rs \in [Run -> Object] /\ rs[r] = new /\ \A s \in Run : s # r => rs[s] = run[s]
  BY <1>1, <1>2
<1>4. [run EXCEPT ![r].aborted = TRUE] = rs
  BY <1>1
<1> HIDE DEF new, rs
<1>5. \A s \in Run : /\ rs[s].at = run[s].at /\ rs[s].step = run[s].step
                     /\ rs[s].status = run[s].status
  BY <1>2, <1>3
<1>6. CASE Cancel(r)
  <2>1. CASE run' = rs
    BY <1>5, <2>1, NobodyGoes
  <2>2. CASE Finish(r, "cancelled", rs, QueueWithout(r))
    <3>1. \A s \in Run : s # r => Placed(rs[s])
      BY <1>3 DEF AllPlaced
    <3>2. rs[r].finished => rs[r].status \in Terminal
      BY <1>1, <1>2, <1>3 DEF Sound
    <3>3. \A s \in Run : Goes(rs, s)
      BY <1>1, <1>3, <2>2, <3>1, <3>2, FinishGoes
    <3>4. \A s \in Run : Phase(rs[s]) = Phase(run[s])
      BY <1>5 DEF Phase
    <3> QED
      BY <1>5, <3>3, <3>4 DEF Goes, Onward
  <2> QED
    BY <1>4, <1>6, <2>1, <2>2 DEF Cancel
<1>7. CASE CancelRepairs(r)
  <2>1. run' = [run EXCEPT ![r] = [run[r] EXCEPT !.children = FALSE]]
    BY <1>7 DEF CancelRepairs
  <2>2. \A s \in Run : /\ run'[s].at = run[s].at /\ run'[s].step = run[s].step
                       /\ run'[s].status = run[s].status
    BY <1>1, <2>1 DEF Object
  <2> QED
    BY <2>2, NobodyGoes
<1>8. CASE CancelEnds(r)
  <2>1. Finish(r, "cancelled", run, chaosQueue)
    BY <1>8 DEF CancelEnds
  <2>2. run[r].finished => run[r].status \in Terminal
    BY <1>1 DEF Sound
  <2> QED
    BY <1>1, <2>1, <2>2, FinishGoes DEF AllPlaced
<1> QED
  BY <1>6, <1>7, <1>8

\* Nor does the global recovery.
LEMMA RecoverGoes ==
  ASSUME RunsInv, AllPlaced, Recover \/ RecoverEnds
  PROVE  \A s \in Run : Goes(run, s)
<1>1. run \in [Run -> Object]
  BY DEF RunsInv, AllSound
<1>2. CASE RecoverEnds
  BY <1>2, NobodyGoes DEF RecoverEnds
<1>3. CASE Recover
  <2>1. ASSUME NEW s \in Run
        PROVE  run'[s] = run[s] \/ run'[s] = Closed([run[s] EXCEPT !.aborted = TRUE], "cancelled")
    BY <1>3 DEF Recover
  <2>2. ASSUME NEW s \in Run, NEW o, o = Closed([run[s] EXCEPT !.aborted = TRUE], "cancelled")
        PROVE  o.at = run[s].at /\ o.step = run[s].step /\ o.status \in Terminal
    BY <1>1, <2>2 DEF Closed, Object, Terminal
  <2> QED
    BY <2>1, <2>2, NobodyGoes
<1> QED
  BY <1>2, <1>3

\* Every step leaves every runChaos where it was or moves it on.
LEMMA NextGoes ==
  ASSUME RunnerInv, AllPlaced, [Next]_vars
  PROVE  LoopsGoOn /\ AllPlaced'
<1>1. RunsInv /\ RunsInv'
  BY NextStep DEF RunnerInv, Step
<1>2. CASE Next
  BY <1>1, <1>2, StepEndsGoes, LoopGoes, EnqueueGoes, CancelGoes, RecoverGoes
  DEF Next, Work, Goes, LoopsGoOn, AllPlaced
<1>3. CASE UNCHANGED vars
  BY <1>3 DEF vars, LoopsGoOn, Onward, AllPlaced
<1> QED
  BY <1>2, <1>3

\* Nobody has started.
LEMMA InitPlaced == Init => AllPlaced
  BY DEF Init, NoRun, AllPlaced, Placed

\* However cancels, recoveries and the ends of other runs come in between,
\* runChaos of a run never goes back: it enters each of its steps once, in
\* order, then recovers, then returns, so it takes no more steps than its
\* scenario has.
THEOREM LoopsNeverGoBack == Spec => [][LoopsGoOn]_vars
<1>1. RunnerInv /\ AllPlaced /\ [Next]_vars => LoopsGoOn /\ AllPlaced'
  BY NextGoes
<1> QED
  BY <1>1, InitPlaced, AlwaysRunnerInv, PTL DEF Spec

\* A run that is running has a runChaos that is at work, and a run that waits
\* in the queue waits for a running one: a cancel or a recovery never leaves a
\* run "running" that nobody will finish.
THEOREM WaitersHaveAWorker == Spec => []SomebodyWorks
<1>1. RunnerInv /\ AllPlaced /\ [Next]_vars => AllPlaced'
  BY NextGoes
<1>2. RunnerInv /\ AllPlaced => SomebodyWorks
  BY NoneIsNoRun DEF RunnerInv, RunsInv, Owned, Serves, AllPlaced, Placed, SomebodyWorks
<1> QED
  BY <1>1, <1>2, InitPlaced, AlwaysRunnerInv, PTL DEF Spec
=============================================================================
