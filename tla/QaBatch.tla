------------------------------- MODULE QaBatch -------------------------------
(***************************************************************************)
(* POST /qa/scenarios/run-batch of monitoring/demo/server.js: the seed is  *)
(* reset once, then the groups of the chosen scenarios run side by side,   *)
(* the scenarios of a group one after another; the buyer group resets the  *)
(* seed again before each of its scenarios, whatever the others are doing. *)
(* After each scenario the KPI counters and gauges are brought up to date, *)
(* with an await between any two of the steps below.  Meanwhile somebody   *)
(* may run one scenario alone, POST /qa/scenarios/run, with no reset.      *)
(*                                                                         *)
(* A reset is two steps here, the deletes and the inserts (SeedReset.tla   *)
(* has its statements); while others use the shop either may be refused,   *)
(* and then the group stops where it is, the batch is answered as failed,  *)
(* and the other groups go on all the same.  A request is one step, and no *)
(* request runs out of time.                                               *)
(***************************************************************************)
EXTENDS QaScenarios

CONSTANT Probes(_)   \* what Prometheus, Loki and Tempo may tell a probe during a batch: SUBSET BOOLEAN

VARIABLES
  batch,      \* the ids the user chose, all different; none: there is no batch
  single,     \* the one that runs alone, if any, a sequence of at most one id: the group "single"
  phase,      \* of the batch: "wipe", "fill", "groups", "answered" (200, and without a batch), "failed" (500)
  left,       \* group -> the places of the scenarios it has not finished, in batch or single
  stage,      \* group -> what its current scenario is about to do, "done", or "stopped" by a refused reset
  run,        \* group -> the current scenario: steps sent, their answers, whether all passed, drilldown
  results,    \* id -> whether the scenario passed, of the finished ones
  kpi,        \* KPI_STATE
  telemetry,  \* currentTelemetryCompletenessRatio
  gauges      \* what updateKpiGauges published last

batchVars == <<batch, single, phase, left, stage, run, results, kpi, telemetry, gauges>>
groupVars == <<left, stage, run>>
kpiVars == <<kpi, telemetry, gauges>>

Elements(s) == { s[i] : i \in DOMAIN s }
Groups == { Group(id) : id \in Elements(batch) } \cup { "single" : id \in Elements(single) }
Chosen(g) == IF g = "single" THEN single ELSE batch
PlacesOf(g) == { i \in DOMAIN Chosen(g) : g \in {"single", Group(Chosen(g)[i])} }
Current(g) == Chosen(g)[Min(left[g])]
Steps(g) == Template[Current(g)]

NewRun == [sent |-> {}, context |-> NoContext, passed |-> TRUE, drilled |-> TRUE]
NoKpi == [runs |-> 0, passed |-> 0, drilldowns |-> 0, drilled |-> 0, checked |-> 0,
          covered |-> 0, actionable |-> 0, falsePositive |-> 0]

\* A fault: the buyer group does not reset the seed between its scenarios.
NoReset(g) == "steps"

\* What a scenario does first.
First(g) == IF g = "buyer" THEN "wipe" ELSE "steps"

BatchInit ==
    /\ phase = IF batch = <<>> THEN "answered" ELSE "wipe"
    /\ left = [g \in Groups |-> PlacesOf(g)]
    /\ stage = [g \in Groups |-> First(g)]
    /\ run = [g \in Groups |-> NewRun]
    /\ results = [id \in {} |-> TRUE]
    /\ kpi = NoKpi /\ telemetry = FALSE
    /\ gauges = [kpi |-> NoKpi, telemetry |-> FALSE]

-----------------------------------------------------------------------------
(* The reset before the groups. *)

Wipe == /\ phase = "wipe"
        /\ shop' = Wiped(shop.next)
        /\ phase' = "fill"
        /\ UNCHANGED <<batch, single, groupVars, results, kpiVars>>

Fill == /\ phase = "fill"
        /\ shop' = Seeded(shop.next)
        /\ phase' = "groups"
        /\ UNCHANGED <<batch, single, groupVars, results, kpiVars>>

\* The reset is refused and throws before there are groups: none starts.
RefuseReset ==
    /\ phase \in {"wipe", "fill"}
    /\ shop' \in Unfinished(shop, phase)
    /\ phase' = "failed"
    /\ stage' = [g \in Groups |-> IF g = "single" THEN stage[g] ELSE "stopped"]
    /\ UNCHANGED <<batch, single, left, run, results, kpiVars>>

-----------------------------------------------------------------------------
(* A scenario of a group. *)

\* Nothing stops a group whose batch has failed: Promise.all has only stopped waiting for it.
MayGo(g, at) == (phase \in {"groups", "failed"} \/ g = "single") /\ stage[g] = at
Go(g, to) == stage' = [stage EXCEPT ![g] = to]

WipeAgain(g) ==
    /\ MayGo(g, "wipe")
    /\ shop' = Wiped(shop.next) /\ Go(g, "fill")
    /\ UNCHANGED <<batch, single, phase, left, run, results, kpiVars>>

FillAgain(g) ==
    /\ MayGo(g, "fill")
    /\ shop' = Seeded(shop.next) /\ Go(g, "steps")
    /\ UNCHANGED <<batch, single, phase, left, run, results, kpiVars>>

\* The reset is refused and throws: the group leaves what it has not finished, and Promise.all rejects.
RefuseAgain(g) ==
    /\ \E at \in {"wipe", "fill"} : MayGo(g, at) /\ shop' \in Unfinished(shop, at)
    /\ Go(g, "stopped") /\ phase' = "failed"
    /\ UNCHANGED <<batch, single, left, run, results, kpiVars>>

\* The next step of the scenario, or any of those a parallel one has not sent.
Sendable(g) == LET open == DOMAIN Steps(g) \ run[g].sent
               IN  IF IsParallel(Current(g)) THEN open
                   ELSE { i \in open : \A j \in open : i <= j }

\* A failed step, or one whose row it cannot name, does not stop the scenario.
SendStep(g) ==
    /\ MayGo(g, "steps")
    /\ \E i \in Sendable(g) :
         LET step == Steps(g)[i]
             sent == Send(shop, step, run[g].context)
         IN  /\ shop' = sent.shop
             /\ run' = [run EXCEPT ![g].sent = @ \cup {i},
                                   ![g].context = With(@, step.id, sent.answer),
                                   ![g].passed = @ /\ Passes(step, sent.answer)]
    /\ Go(g, IF run'[g].sent = DOMAIN Steps(g) THEN "count" ELSE "steps")
    /\ UNCHANGED <<batch, single, phase, left, results, kpiVars>>

-----------------------------------------------------------------------------
(* updateMonitoringKpis, from await to await. *)

Kpi(g, at, to) ==
    /\ MayGo(g, at) /\ Go(g, to)
    /\ UNCHANGED <<shop, batch, single, phase>>

Count(g) ==
    /\ Kpi(g, "count", "drilldown")
    /\ kpi' = [kpi EXCEPT !.runs = @ + 1, !.passed = IF run[g].passed THEN @ + 1 ELSE @]
    /\ UNCHANGED <<left, run, results, telemetry, gauges>>

\* The three targets of probeDrilldownTargets are one here: all of them answer, or not.
Drilldown(g) ==
    /\ Kpi(g, "drilldown", IF run[g].passed THEN "alarm" ELSE "coverage")
    /\ \E found \in Probes(batch) :
         /\ kpi' = [kpi EXCEPT !.drilldowns = @ + 1, !.drilled = IF found THEN @ + 1 ELSE @]
         /\ run' = [run EXCEPT ![g].drilled = found]
    /\ UNCHANGED <<left, results, telemetry, gauges>>

\* Of failed scenarios only: is an alert for it known, and does the rest of the drilldown work?
Coverage(g) ==
    /\ Kpi(g, "coverage", "alarm")
    /\ \E covered \in Probes(batch) :
         kpi' = [kpi EXCEPT !.checked = @ + 1,
                            !.covered = IF covered THEN @ + 1 ELSE @,
                            !.actionable = IF covered /\ run[g].drilled THEN @ + 1 ELSE @]
    /\ UNCHANGED <<left, run, results, telemetry, gauges>>

\* A fault: an alert that fires counts as a false one after a failed scenario too.
AlarmAlways(g) ==
    /\ Kpi(g, "alarm", "telemetry")
    /\ \E fires \in Probes(batch) :
         kpi' = [kpi EXCEPT !.falsePositive = IF fires THEN @ + 1 ELSE @]
    /\ UNCHANGED <<left, run, results, telemetry, gauges>>

Alarm(g) ==
    /\ Kpi(g, "alarm", "telemetry")
    /\ \E fires \in Probes(batch) :
         kpi' = [kpi EXCEPT !.falsePositive = IF fires /\ run[g].passed THEN @ + 1 ELSE @]
    /\ UNCHANGED <<left, run, results, telemetry, gauges>>

Telemetry(g) ==
    /\ Kpi(g, "telemetry", "gauges")
    /\ telemetry' \in Probes(batch)
    /\ UNCHANGED <<left, run, results, kpi, gauges>>

\* A fault: a scenario publishes what it counted itself, not the counters as they are now.
PublishStale(g) ==
    /\ MayGo(g, "gauges")
    /\ gauges' = [kpi |-> [gauges.kpi EXCEPT !.runs = @ + 1], telemetry |-> telemetry]
    /\ results' = With(results, Current(g), run[g].passed)
    /\ left' = [left EXCEPT ![g] = @ \ {Min(@)}]
    /\ run' = [run EXCEPT ![g] = NewRun]
    /\ Go(g, IF left[g] = {Min(left[g])} THEN "done" ELSE First(g))
    /\ UNCHANGED <<shop, batch, single, phase, kpi, telemetry>>

\* The gauges, and the result of the scenario; the group goes on with its next one.
Publish(g) ==
    /\ MayGo(g, "gauges")
    /\ gauges' = [kpi |-> kpi, telemetry |-> telemetry]
    /\ results' = With(results, Current(g), run[g].passed)
    /\ left' = [left EXCEPT ![g] = @ \ {Min(@)}]
    /\ run' = [run EXCEPT ![g] = NewRun]
    /\ Go(g, IF left[g] = {Min(left[g])} THEN "done" ELSE First(g))
    /\ UNCHANGED <<shop, batch, single, phase, kpi, telemetry>>

-----------------------------------------------------------------------------
\* Promise.all over the groups.
AnswerBatch ==
    /\ phase = "groups" /\ \A g \in Groups \ {"single"} : stage[g] = "done"
    /\ phase' = "answered"
    /\ UNCHANGED <<shop, batch, single, groupVars, results, kpiVars>>

\* But for the refused resets: who else uses the shop decides when there are any (ScenarioRunners.tla).
BatchNext == \/ Wipe \/ Fill \/ AnswerBatch
             \/ \E g \in Groups : \/ WipeAgain(g) \/ FillAgain(g) \/ SendStep(g)
                                  \/ Count(g) \/ Drilldown(g) \/ Coverage(g) \/ Alarm(g)
                                  \/ Telemetry(g) \/ Publish(g)

-----------------------------------------------------------------------------

\* The batch and the single run are answered, and nothing of them runs any more.
AtRest == phase \in {"answered", "failed"} /\ \A g \in Groups : stage[g] \in {"done", "stopped"}

Failed == { id \in DOMAIN results : ~results[id] }

\* The scenarios of a group that have been run to their end.
Finished(g) == { Chosen(g)[i] : i \in PlacesOf(g) \ left[g] }

\* However the updates of several scenarios interleave, no ratio exceeds one and they agree with each other: a false
\* positive is counted of a passed run only, a covered incident of a failed one (updateMonitoringKpis).
KpisAgree ==
    /\ kpi.falsePositive <= kpi.passed
    /\ kpi.checked <= kpi.runs - kpi.passed
    /\ kpi.actionable <= kpi.covered /\ kpi.covered <= kpi.checked
    /\ kpi.actionable <= kpi.drilled /\ kpi.drilled <= kpi.drilldowns /\ kpi.drilldowns <= kpi.runs

\* The gauges show the counters as they are.  Every scenario that was finished is counted once with the outcome its
\* answer gives, none that a refused reset left out is, and a batch is answered with success exactly when it has run
\* all of its own.
Accounted ==
    /\ gauges = [kpi |-> kpi, telemetry |-> telemetry]
    /\ DOMAIN results = UNION { Finished(g) : g \in Groups }
    /\ kpi.runs = Cardinality(DOMAIN results) /\ kpi.passed = kpi.runs - Cardinality(Failed)
    /\ kpi.checked = Cardinality(Failed)
    /\ phase = "answered" <=> Elements(batch \o single) \subseteq DOMAIN results
=============================================================================
