----------------------- MODULE ScenarioRunnersProofs -----------------------
(***************************************************************************)
(* The KPIs of the scenario web stay consistent, for any batch, beside any *)
(* scenario run alone and any k6 test, however the updates of the groups   *)
(* interleave.  updateMonitoringKpis counts a scenario under several       *)
(* headings with an await between any two of them, so between two awaits   *)
(* the counters disagree by exactly the scenarios that are on their way:   *)
(* the invariant has, for every two counters that are compared, the        *)
(* groups that have raised the one and not yet the other.                  *)
(*                                                                         *)
(* A batch that has the shop to itself passes, and so does a k6 test whose *)
(* scenarios do not spoil each other, of any length and any number of      *)
(* iterations.  The proofs cut a scenario between its steps: a cut says    *)
(* what the rest of it relies on (a line in the cart of its buyer that an  *)
(* answer has named, an order in some state), one lemma for each request   *)
(* shows that it leads from one cut to the next and leaves everybody else  *)
(* alone (Leads), and a course of cuts takes the scenario home, to a cut   *)
(* of the seeded shop where the next one can start (Returns).  Most        *)
(* scenarios need no cut: they pass on any seeded shop and change nothing  *)
(* (Quiet).                                                                *)
(*                                                                         *)
(* Whatever else uses the shop and whatever fails, a batch goes on one     *)
(* step at a time and no group that runs is left without work; a refused   *)
(* reset stops its own group, or all of them before they start.  In the    *)
(* end every scenario that was run has its result and is in the counters   *)
(* once, and the batch is answered with success when that is all of them.  *)
(***************************************************************************)
EXTENDS ScenarioRunners, FiniteSetTheorems, SequenceTheorems, WellFoundedInduction, TLAPS

Counters == [runs : Nat, passed : Nat, drilldowns : Nat, drilled : Nat, checked : Nat,
             covered : Nat, actionable : Nat, falsePositive : Nat]

\* The groups between "count" and their probe of the drilldown.
Probing == {g \in Groups : stage[g] = "drilldown"}

\* Those whose scenario failed and is counted, and not yet checked for an alert.
Unchecked == {g \in Groups : stage[g] = "coverage" \/ (stage[g] = "drilldown" /\ ~run[g].passed)}

\* Those whose scenario passed and is counted, and no false alarm is yet.
Unalarmed == {g \in Groups : stage[g] \in {"drilldown", "alarm"} /\ run[g].passed}

\* Those with a drilldown that worked and may yet become an actionable incident.
Actionable == {g \in Groups : stage[g] = "coverage" /\ run[g].drilled}

\* What a group remembers of its current scenario.
IsRun(r) == r \in [sent : {r.sent}, context : {r.context}, passed : BOOLEAN, drilled : BOOLEAN]

\* Finitely many groups, each with a stage and a run, and counters that are numbers.
RunTyped ==
  /\ IsFiniteSet(Groups)
  /\ stage = [g \in Groups |-> stage[g]] /\ run = [g \in Groups |-> run[g]]
  /\ \A g \in Groups : IsRun(run[g])
  /\ Probes(batch) \subseteq BOOLEAN
  /\ kpi \in Counters

Balanced ==
  /\ kpi.drilldowns + Cardinality(Probing) = kpi.runs
  /\ kpi.checked + Cardinality(Unchecked) + kpi.passed = kpi.runs
  /\ kpi.falsePositive + Cardinality(Unalarmed) <= kpi.passed
  /\ kpi.actionable + Cardinality(Actionable) <= kpi.drilled
  /\ kpi.drilled <= kpi.drilldowns
  /\ kpi.actionable <= kpi.covered /\ kpi.covered <= kpi.checked

\* Alerts are looked for after failed scenarios only.
FailedOnly == \A g \in Groups : stage[g] = "coverage" => ~run[g].passed

KpiInv == RunTyped /\ FailedOnly /\ Balanced

-----------------------------------------------------------------------------
(* Counting. *)

\* The elements of a finite sequence are finitely many, and so are their groups.
LEMMA ElementsFinite ==
  ASSUME NEW V, NEW s \in Seq(V)
  PROVE  /\ IsFiniteSet({Group(id) : id \in Elements(s)})
         /\ IsFiniteSet({"single" : id \in Elements(s)})
<1>1. Len(s) \in Nat /\ DOMAIN s = 1..Len(s)
  OBVIOUS
<1>2. IsFiniteSet(DOMAIN s)
  BY <1>1, FS_Interval
<1>3. \A T, f : f \in Surjection(DOMAIN s, T) => IsFiniteSet(T)
  BY <1>2, FS_Surjection
<1> DEFINE f == [i \in DOMAIN s |-> Group(s[i])]
           T == {Group(id) : id \in Elements(s)}
           h == [i \in DOMAIN s |-> "single"]
           U == {"single" : id \in Elements(s)}
<1>4. f \in Surjection(DOMAIN s, T)
  BY DEF Surjection, Elements
<1>5. h \in Surjection(DOMAIN s, U)
  BY DEF Surjection, Elements
<1> HIDE DEF f, T, h, U
<1>6. IsFiniteSet(T) /\ IsFiniteSet(U)
  BY <1>3, <1>4, <1>5
<1> QED
  BY <1>6 DEF T, U

\* What a step of g may do to the size of a set of groups: S before, T after it.
Counts(g, S, T) ==
  /\ Cardinality(S) \in Nat /\ Cardinality(T) \in Nat
  /\ (g \in S <=> g \in T) => Cardinality(T) = Cardinality(S)
  /\ g \in S /\ g \notin T => Cardinality(S) = Cardinality(T) + 1
  /\ g \notin S /\ g \in T => Cardinality(T) = Cardinality(S) + 1

\* A set that differs from another in g only has one element more or less, if it differs.
LEMMA SetsAfter ==
  ASSUME NEW G, IsFiniteSet(G), NEW S \in SUBSET G, NEW T \in SUBSET G, NEW g \in G,
         \A h \in G \ {g} : h \in S <=> h \in T
  PROVE  Counts(g, S, T)
<1>1. IsFiniteSet(S) /\ IsFiniteSet(T)
  BY FS_Subset
<1>2. Cardinality(S) \in Nat /\ Cardinality(T) \in Nat
  BY <1>1, FS_CardinalityType
<1>3. (g \in S <=> g \in T) => S = T
  OBVIOUS
<1>4. ASSUME g \in S, g \notin T PROVE Cardinality(S) = Cardinality(T) + 1
  <2>1. S = T \cup {g}
    BY <1>4
  <2> QED
    BY <1>1, <1>4, <2>1, FS_AddElement
<1>5. ASSUME g \notin S, g \in T PROVE Cardinality(T) = Cardinality(S) + 1
  <2>1. T = S \cup {g}
    BY <1>5
  <2> QED
    BY <1>1, <1>5, <2>1, FS_AddElement
<1> QED
  BY <1>2, <1>3, <1>4, <1>5 DEF Counts

-----------------------------------------------------------------------------
(* The steps of a group. *)

\* Only g may be somewhere else than before.
OnlyIn(g) ==
  /\ Groups' = Groups
  /\ \A h \in Groups \ {g} : stage'[h] = stage[h] /\ run'[h] = run[h]

\* The four sets before and after a step of g.
LEMMA CountsAfter ==
  ASSUME RunTyped, NEW g \in Groups, OnlyIn(g)
  PROVE  /\ Counts(g, Probing, Probing') /\ Counts(g, Unchecked, Unchecked')
         /\ Counts(g, Unalarmed, Unalarmed') /\ Counts(g, Actionable, Actionable')
<1> USE DEF OnlyIn
<1>1. IsFiniteSet(Groups)
  BY DEF RunTyped
<1>2. Counts(g, Probing, Probing')
  BY <1>1, SetsAfter DEF Probing
<1>3. Counts(g, Unchecked, Unchecked')
  BY <1>1, SetsAfter DEF Unchecked
<1>4. Counts(g, Unalarmed, Unalarmed')
  BY <1>1, SetsAfter DEF Unalarmed
<1>5. Counts(g, Actionable, Actionable')
  BY <1>1, SetsAfter DEF Actionable
<1> QED
  BY <1>2, <1>3, <1>4, <1>5

\* Where g is in the four sets, by its stage.
Placed(g) ==
  /\ g \in Probing <=> stage[g] = "drilldown"
  /\ g \in Unchecked <=> stage[g] = "coverage" \/ (stage[g] = "drilldown" /\ ~run[g].passed)
  /\ g \in Unalarmed <=> stage[g] \in {"drilldown", "alarm"} /\ run[g].passed
  /\ g \in Actionable <=> stage[g] = "coverage" /\ run[g].drilled

\* A group is in the sets its stage says, before a step and after it.
LEMMA PlacedBoth ==
  ASSUME NEW g \in Groups, Groups' = Groups
  PROVE  Placed(g) /\ Placed(g)'
BY DEF Placed, Probing, Unchecked, Unalarmed, Actionable

Uncounted == {"wipe", "fill", "steps", "count", "telemetry", "gauges", "done", "stopped"}

\* Only the group that moves can come to look for an alert.
LEMMA FailedOnlyAfter ==
  ASSUME FailedOnly, NEW g \in Groups, OnlyIn(g), stage'[g] = "coverage" => ~run'[g].passed
  PROVE  FailedOnly'
BY DEF FailedOnly, OnlyIn

\* Where nothing is counted, the balance stays.
LEMMA UncountedKeeps ==
  ASSUME KpiInv, NEW g \in Groups, OnlyIn(g), kpi' = kpi,
         stage[g] \in Uncounted, stage'[g] \in Uncounted
  PROVE  Balanced' /\ FailedOnly'
<1>1. Placed(g) /\ Placed(g)'
  BY PlacedBoth DEF OnlyIn
<1>2. /\ Cardinality(Probing') = Cardinality(Probing)
      /\ Cardinality(Unchecked') = Cardinality(Unchecked)
      /\ Cardinality(Unalarmed') = Cardinality(Unalarmed)
      /\ Cardinality(Actionable') = Cardinality(Actionable)
  BY <1>1, CountsAfter DEF KpiInv, Placed, Counts, Uncounted
<1>3. FailedOnly'
  BY FailedOnlyAfter DEF KpiInv, Uncounted
<1> QED
  BY <1>2, <1>3 DEF KpiInv, Balanced

\* A run stays one when its steps and the drilldown are noted in it.
LEMMA RunAfter ==
  ASSUME NEW r, IsRun(r), NEW ids, NEW context, NEW passed \in BOOLEAN, NEW drilled \in BOOLEAN
  PROVE  /\ IsRun([r EXCEPT !.sent = ids, !.context = context, !.passed = passed])
         /\ IsRun([r EXCEPT !.drilled = drilled])
         /\ [r EXCEPT !.drilled = drilled].passed = r.passed
         /\ [r EXCEPT !.drilled = drilled].drilled = drilled
<1>1. [r EXCEPT !.sent = ids, !.context = context, !.passed = passed]
        \in [sent : {ids}, context : {context}, passed : BOOLEAN, drilled : BOOLEAN]
  BY DEF IsRun
<1>2. [r EXCEPT !.drilled = drilled]
        \in [sent : {r.sent}, context : {r.context}, passed : {r.passed}, drilled : {drilled}]
  BY DEF IsRun
<1>3. r.passed \in BOOLEAN
  BY DEF IsRun
<1> QED
  BY <1>1, <1>2, <1>3 DEF IsRun

\* A step of g that leaves the batch alone keeps the types.
LEMMA TypedAfter ==
  ASSUME RunTyped, NEW g \in Groups, UNCHANGED <<batch, single>>,
         NEW to, stage' = [stage EXCEPT ![g] = to],
         \/ run' = run
         \/ \E r : run' = [run EXCEPT ![g] = r] /\ IsRun(r),
         kpi' \in Counters
  PROVE  RunTyped' /\ OnlyIn(g) /\ stage'[g] = to
<1>1. Groups' = Groups
  BY DEF Groups, Elements
<1>2. Probes(batch') \subseteq BOOLEAN
  BY DEF RunTyped
<1>3. stage'[g] = to /\ \A h \in Groups \ {g} : stage'[h] = stage[h]
  BY DEF RunTyped
<1>4. stage' = [h \in Groups |-> stage'[h]]
  BY DEF RunTyped
<1>5. CASE run' = run
  BY <1>1, <1>2, <1>3, <1>4, <1>5 DEF RunTyped, OnlyIn
<1>6. CASE run' # run
  <2>1. PICK r : run' = [run EXCEPT ![g] = r] /\ IsRun(r)
    BY <1>6
  <2>2. run'[g] = r /\ \A h \in Groups \ {g} : run'[h] = run[h]
    BY <2>1 DEF RunTyped
  <2>3. run' = [h \in Groups |-> run'[h]]
    BY <2>1 DEF RunTyped
  <2> QED
    BY <1>1, <1>2, <1>3, <1>4, <2>1, <2>2, <2>3 DEF RunTyped, OnlyIn
<1> QED
  BY <1>5, <1>6

\* The resets before a scenario, refused ones too, and its steps count nothing.
LEMMA ScenarioKeeps ==
  ASSUME KpiInv, NEW g \in Groups, WipeAgain(g) \/ FillAgain(g) \/ RefuseAgain(g) \/ SendStep(g)
  PROVE  KpiInv'
<1>1. kpi' = kpi /\ kpi' \in Counters /\ UNCHANGED <<batch, single>>
  BY ZenonT(60) DEF KpiInv, RunTyped, WipeAgain, FillAgain, RefuseAgain, SendStep, kpiVars
<1>2. stage[g] \in Uncounted
  BY ZenonT(60) DEF WipeAgain, FillAgain, RefuseAgain, SendStep, MayGo, Uncounted
<1>3. PICK to \in Uncounted : stage' = [stage EXCEPT ![g] = to]
  BY DEF WipeAgain, FillAgain, RefuseAgain, SendStep, Go, Uncounted
<1>4. CASE run' = run
  <2>1. RunTyped' /\ OnlyIn(g) /\ stage'[g] = to
    BY <1>1, <1>3, <1>4, TypedAfter DEF KpiInv
  <2> QED
    BY <1>1, <1>2, <1>3, <2>1, UncountedKeeps DEF KpiInv
<1>5. CASE SendStep(g)
  <2>1. PICK i, sent : run' = [run EXCEPT ![g].sent = @ \cup {i},
                                          ![g].context = With(@, Steps(g)[i].id, sent.answer),
                                          ![g].passed = @ /\ Passes(Steps(g)[i], sent.answer)]
    BY <1>5, Zenon DEF SendStep
  <2> DEFINE ids == run[g].sent \cup {i}
             context == With(run[g].context, Steps(g)[i].id, sent.answer)
             passed == run[g].passed /\ Passes(Steps(g)[i], sent.answer)
             r == [run[g] EXCEPT !.sent = ids, !.context = context, !.passed = passed]
  <2>2. run' = [run EXCEPT ![g] = r]
    BY <2>1, Zenon
  <2>3. passed \in BOOLEAN
    OBVIOUS
  <2>4. IsRun(run[g])
    BY DEF KpiInv, RunTyped
  <2> HIDE DEF ids, context, passed
  <2>5. IsRun(r)
    BY <2>3, <2>4, RunAfter
  <2> HIDE DEF r
  <2>6. RunTyped' /\ OnlyIn(g) /\ stage'[g] = to
    BY <1>1, <1>3, <2>2, <2>5, TypedAfter DEF KpiInv
  <2> QED
    BY <1>1, <1>2, <1>3, <2>6, UncountedKeeps DEF KpiInv
<1>6. CASE WipeAgain(g) \/ FillAgain(g) \/ RefuseAgain(g)
  BY <1>4, <1>6 DEF WipeAgain, FillAgain, RefuseAgain
<1> QED
  BY <1>5, <1>6

\* What the steps of updateMonitoringKpis have in common.
LEMMA KpiStep ==
  ASSUME KpiInv, NEW g \in Groups, NEW at, NEW to, Kpi(g, at, to), run' = run, kpi' \in Counters
  PROVE  /\ RunTyped' /\ OnlyIn(g) /\ stage[g] = at /\ stage'[g] = to
         /\ Placed(g) /\ Placed(g)'
<1>1. RunTyped' /\ OnlyIn(g) /\ stage'[g] = to
  BY TypedAfter DEF KpiInv, Kpi, Go
<1> QED
  BY <1>1, PlacedBoth DEF Kpi, MayGo, OnlyIn

\* The counters are counters when some of them are raised.
LEMMA CountersAfter ==
  ASSUME NEW k \in Counters, NEW a \in Nat, NEW b \in Nat, NEW c \in Nat
  PROVE  /\ [k EXCEPT !.runs = a, !.passed = b] \in Counters
         /\ [k EXCEPT !.drilldowns = a, !.drilled = b] \in Counters
         /\ [k EXCEPT !.checked = a, !.covered = b, !.actionable = c] \in Counters
         /\ [k EXCEPT !.falsePositive = a] \in Counters
BY DEF Counters

\* A counted scenario joins those to probe, and those to check or those to alarm.
LEMMA CountKeeps ==
  ASSUME KpiInv, NEW g \in Groups, Count(g)
  PROVE  KpiInv'
<1>1. kpi \in Counters /\ run[g].passed \in BOOLEAN
  BY DEF KpiInv, RunTyped, IsRun
<1> DEFINE passed == IF run[g].passed THEN kpi.passed + 1 ELSE kpi.passed
<1>2. kpi' = [kpi EXCEPT !.runs = kpi.runs + 1, !.passed = passed]
  BY DEF Count
<1>3. kpi' \in Counters
  <2>1. kpi.runs + 1 \in Nat /\ passed \in Nat
    BY <1>1 DEF Counters
  <2> QED
    BY <1>1, <1>2, <2>1, CountersAfter
<1>4. /\ RunTyped' /\ OnlyIn(g) /\ stage[g] = "count" /\ stage'[g] = "drilldown"
      /\ Placed(g) /\ Placed(g)' /\ run' = run
  BY <1>3, KpiStep DEF Count
<1>5. /\ Cardinality(Probing') = Cardinality(Probing) + 1
      /\ Cardinality(Unchecked') = Cardinality(Unchecked) + IF run[g].passed THEN 0 ELSE 1
      /\ Cardinality(Unalarmed') = Cardinality(Unalarmed) + IF run[g].passed THEN 1 ELSE 0
      /\ Cardinality(Actionable') = Cardinality(Actionable)
      /\ Cardinality(Probing) \in Nat /\ Cardinality(Unchecked) \in Nat
      /\ Cardinality(Unalarmed) \in Nat /\ Cardinality(Actionable) \in Nat
  BY <1>1, <1>4, CountsAfter DEF KpiInv, Placed, Counts
<1>6. /\ kpi'.runs = kpi.runs + 1 /\ kpi'.passed = passed
      /\ kpi'.drilldowns = kpi.drilldowns /\ kpi'.drilled = kpi.drilled
      /\ kpi'.checked = kpi.checked /\ kpi'.covered = kpi.covered
      /\ kpi'.actionable = kpi.actionable /\ kpi'.falsePositive = kpi.falsePositive
  BY <1>1, <1>2 DEF Counters
<1>7. Balanced'
  <2>1. CASE run[g].passed
    BY <1>1, <1>5, <1>6, <2>1 DEF KpiInv, Balanced, Counters
  <2>2. CASE ~run[g].passed
    BY <1>1, <1>5, <1>6, <2>2 DEF KpiInv, Balanced, Counters
  <2> QED
    BY <1>1, <2>1, <2>2
<1>8. FailedOnly'
  BY <1>4, FailedOnlyAfter DEF KpiInv
<1> QED
  BY <1>4, <1>7, <1>8 DEF KpiInv

\* A failed scenario that was checked leaves the unchecked ones, and its drilldown is used up.
LEMMA CoverageKeeps ==
  ASSUME KpiInv, NEW g \in Groups, Coverage(g)
  PROVE  KpiInv'
<1>1. kpi \in Counters /\ run[g].passed \in BOOLEAN /\ run[g].drilled \in BOOLEAN
  BY DEF KpiInv, RunTyped, IsRun
<1>2. PICK covered \in Probes(batch) :
        kpi' = [kpi EXCEPT !.checked = @ + 1,
                           !.covered = IF covered THEN @ + 1 ELSE @,
                           !.actionable = IF covered /\ run[g].drilled THEN @ + 1 ELSE @]
  BY DEF Coverage
<1> DEFINE more == IF covered THEN kpi.covered + 1 ELSE kpi.covered
           acted == IF covered /\ run[g].drilled THEN kpi.actionable + 1 ELSE kpi.actionable
<1>3. kpi' = [kpi EXCEPT !.checked = kpi.checked + 1, !.covered = more, !.actionable = acted]
  BY <1>2
<1>a. kpi' \in Counters
  <2>1. kpi.checked + 1 \in Nat /\ more \in Nat /\ acted \in Nat
    BY <1>1 DEF Counters
  <2> QED
    BY <1>1, <1>3, <2>1, CountersAfter
<1>4. /\ RunTyped' /\ OnlyIn(g) /\ stage[g] = "coverage" /\ stage'[g] = "alarm"
      /\ Placed(g) /\ Placed(g)' /\ run' = run
  BY <1>a, KpiStep DEF Coverage
<1>5. /\ Cardinality(Probing') = Cardinality(Probing)
      /\ Cardinality(Unchecked) = Cardinality(Unchecked') + 1
      /\ Cardinality(Unalarmed') = Cardinality(Unalarmed)
      /\ Cardinality(Actionable) = Cardinality(Actionable') + IF run[g].drilled THEN 1 ELSE 0
      /\ Cardinality(Probing) \in Nat /\ Cardinality(Unchecked') \in Nat
      /\ Cardinality(Unalarmed) \in Nat /\ Cardinality(Actionable') \in Nat
  <2>1. /\ g \notin Probing /\ g \notin Probing' /\ g \in Unchecked /\ g \notin Unchecked'
        /\ g \notin Unalarmed /\ g \notin Actionable'
        /\ g \in Actionable <=> run[g].drilled
    BY <1>4 DEF Placed
  <2>2. g \notin Unalarmed'
    BY <1>4 DEF Placed, KpiInv, FailedOnly
  <2> QED
    BY <1>1, <1>4, <2>1, <2>2, CountsAfter DEF KpiInv, Counts
<1>6. FailedOnly'
  BY <1>4, FailedOnlyAfter DEF KpiInv
<1>7. Balanced'
  BY <1>1, <1>2, <1>3, <1>4, <1>5 DEF KpiInv, Balanced, Counters
<1> QED
  BY <1>4, <1>6, <1>7 DEF KpiInv

\* A passed scenario leaves the unalarmed ones, whether an alert fires or not.
LEMMA AlarmKeeps ==
  ASSUME KpiInv, NEW g \in Groups, Alarm(g)
  PROVE  KpiInv'
<1>1. kpi \in Counters /\ run[g].passed \in BOOLEAN
  BY DEF KpiInv, RunTyped, IsRun
<1>2. PICK fires \in Probes(batch) :
        kpi' = [kpi EXCEPT !.falsePositive = IF fires /\ run[g].passed THEN @ + 1 ELSE @]
  BY DEF Alarm
<1> DEFINE false == IF fires /\ run[g].passed THEN kpi.falsePositive + 1 ELSE kpi.falsePositive
<1>a. kpi' = [kpi EXCEPT !.falsePositive = false] /\ false \in Nat
  BY <1>1, <1>2 DEF Counters
<1>3. kpi' \in Counters
  BY <1>1, <1>a, CountersAfter
<1>4. /\ RunTyped' /\ OnlyIn(g) /\ stage[g] = "alarm" /\ stage'[g] = "telemetry"
      /\ Placed(g) /\ Placed(g)' /\ run' = run
  BY <1>3, KpiStep DEF Alarm
<1>5. /\ Cardinality(Probing') = Cardinality(Probing)
      /\ Cardinality(Unchecked') = Cardinality(Unchecked)
      /\ Cardinality(Unalarmed) = Cardinality(Unalarmed') + IF run[g].passed THEN 1 ELSE 0
      /\ Cardinality(Actionable') = Cardinality(Actionable)
      /\ Cardinality(Probing) \in Nat /\ Cardinality(Unchecked) \in Nat
      /\ Cardinality(Unalarmed') \in Nat /\ Cardinality(Actionable) \in Nat
  BY <1>1, <1>4, CountsAfter DEF KpiInv, Placed, Counts
<1>6. FailedOnly'
  BY <1>4, FailedOnlyAfter DEF KpiInv
<1>7. Balanced'
  BY <1>1, <1>2, <1>3, <1>4, <1>5 DEF KpiInv, Balanced, Counters
<1> QED
  BY <1>4, <1>6, <1>7 DEF KpiInv

\* The drilldown of a passed scenario leads to the alarm, that of a failed one to the coverage.
LEMMA DrilldownKeeps ==
  ASSUME KpiInv, NEW g \in Groups, Drilldown(g)
  PROVE  KpiInv'
<1>1. kpi \in Counters /\ run[g].passed \in BOOLEAN /\ Probes(batch) \subseteq BOOLEAN
      /\ IsRun(run[g])
  BY DEF KpiInv, RunTyped, IsRun
<1>2. PICK found \in Probes(batch) :
        /\ kpi' = [kpi EXCEPT !.drilldowns = @ + 1, !.drilled = IF found THEN @ + 1 ELSE @]
        /\ run' = [run EXCEPT ![g].drilled = found]
  BY ZenonT(60) DEF Drilldown
<1> DEFINE r == [run[g] EXCEPT !.drilled = found]
           to == IF run[g].passed THEN "alarm" ELSE "coverage"
<1>a. kpi' \in Counters
  <2> DEFINE drilled == IF found THEN kpi.drilled + 1 ELSE kpi.drilled
  <2>1. kpi.drilldowns + 1 \in Nat /\ drilled \in Nat
    BY <1>1 DEF Counters
  <2>2. kpi' = [kpi EXCEPT !.drilldowns = kpi.drilldowns + 1, !.drilled = drilled]
    BY <1>2
  <2> QED
    BY <1>1, <2>1, <2>2, CountersAfter
<1>3. kpi' \in Counters /\ found \in BOOLEAN
  BY <1>1, <1>2, <1>a
<1>4. IsRun(r) /\ r.passed = run[g].passed /\ r.drilled = found
  BY <1>1, <1>3, RunAfter
<1>5. run' = [run EXCEPT ![g] = r] /\ run'[g] = r
  BY <1>2 DEF KpiInv, RunTyped
<1>6. stage' = [stage EXCEPT ![g] = to] /\ stage[g] = "drilldown" /\ UNCHANGED <<batch, single>>
  BY DEF Drilldown, Kpi, Go, MayGo
<1> HIDE DEF r
<1>7. RunTyped' /\ OnlyIn(g) /\ stage'[g] = to
  BY <1>1, <1>3, <1>4, <1>5, <1>6, TypedAfter DEF KpiInv
<1>8. Placed(g) /\ Placed(g)'
  BY <1>7, PlacedBoth DEF OnlyIn
<1>9. /\ Cardinality(Probing) = Cardinality(Probing') + 1
      /\ Cardinality(Unchecked') = Cardinality(Unchecked)
      /\ Cardinality(Unalarmed') = Cardinality(Unalarmed)
      /\ Cardinality(Actionable') = Cardinality(Actionable) + IF found /\ ~run[g].passed THEN 1 ELSE 0
      /\ Cardinality(Probing') \in Nat /\ Cardinality(Unchecked) \in Nat
      /\ Cardinality(Unalarmed) \in Nat /\ Cardinality(Actionable) \in Nat
  BY <1>1, <1>3, <1>4, <1>5, <1>6, <1>7, <1>8, CountsAfter DEF KpiInv, Placed, Counts
<1>10. FailedOnly'
  BY <1>1, <1>4, <1>5, <1>7, FailedOnlyAfter DEF KpiInv
<1>11. Balanced'
  BY <1>1, <1>2, <1>3, <1>7, <1>9 DEF KpiInv, Balanced, Counters
<1> QED
  BY <1>7, <1>10, <1>11 DEF KpiInv

\* The telemetry and the gauges count nothing, and a scenario that is over has left all four sets.
LEMMA LastStepsKeep ==
  ASSUME KpiInv, NEW g \in Groups, Telemetry(g) \/ Publish(g)
  PROVE  KpiInv'
<1>1. kpi' = kpi /\ kpi' \in Counters /\ UNCHANGED <<batch, single>>
  BY DEF KpiInv, RunTyped, Telemetry, Publish, Kpi
<1>2. stage[g] \in Uncounted
  BY DEF Telemetry, Publish, Kpi, MayGo, Uncounted
<1>3. PICK to \in Uncounted : stage' = [stage EXCEPT ![g] = to]
  BY DEF Telemetry, Publish, Kpi, Go, First, Uncounted
<1>4. run' = run \/ run' = [run EXCEPT ![g] = NewRun]
  BY DEF Telemetry, Publish
<1>5. IsRun(NewRun)
  BY DEF NewRun, IsRun
<1>6. run' = run \/ \E r : run' = [run EXCEPT ![g] = r] /\ IsRun(r)
  BY <1>4, <1>5
<1>7. RunTyped' /\ OnlyIn(g) /\ stage'[g] = to
  BY <1>1, <1>3, <1>6, TypedAfter DEF KpiInv
<1> QED
  BY <1>1, <1>2, <1>3, <1>7, UncountedKeeps DEF KpiInv

-----------------------------------------------------------------------------
(* The invariant. *)

\* Nothing is counted at first.
LEMMA KpiInit == Init => KpiInv
<1> SUFFICES ASSUME Init PROVE KpiInv
  OBVIOUS
<1>1. PICK s \in Starts : batch = s.batch /\ single = s.single
  BY DEF Init
<1>2. batch \in Seq(DOMAIN Template) /\ single \in Seq(DOMAIN Template) /\ Probes(batch) \subseteq BOOLEAN
  BY <1>1, StartsAreKnown
<1>3. IsFiniteSet(Groups)
  <2>1. IsFiniteSet({Group(id) : id \in Elements(batch)}) /\ IsFiniteSet({"single" : id \in Elements(single)})
    BY <1>2, ElementsFinite
  <2> QED
    BY <2>1, FS_Union DEF Groups
<1>4. BatchInit
  BY DEF Init
<1>5. RunTyped
  <2>1. stage = [g \in Groups |-> stage[g]] /\ run = [g \in Groups |-> run[g]]
    BY <1>4 DEF BatchInit
  <2>2. kpi \in Counters
    BY <1>4 DEF BatchInit, NoKpi, Counters
  <2>3. \A g \in Groups : run[g] = NewRun
    BY <1>4 DEF BatchInit
  <2>4. IsRun(NewRun)
    BY DEF NewRun, IsRun
  <2> QED
    BY <1>2, <1>3, <2>1, <2>2, <2>3, <2>4 DEF RunTyped
<1>6. \A g \in Groups : stage[g] \in {"wipe", "steps"}
  BY <1>4 DEF BatchInit, First
<1>7. Probing = {} /\ Unchecked = {} /\ Unalarmed = {} /\ Actionable = {}
  BY <1>6 DEF Probing, Unchecked, Unalarmed, Actionable
<1>8. Balanced
  BY <1>4, <1>7, FS_EmptySet DEF Balanced, BatchInit, NoKpi
<1>9. FailedOnly
  BY <1>6 DEF FailedOnly
<1> QED
  BY <1>5, <1>8, <1>9 DEF KpiInv

\* What leaves the batch and its groups alone keeps the invariant.
LEMMA OthersKeep ==
  ASSUME KpiInv, UNCHANGED <<batch, single, stage, run, kpi>>
  PROVE  KpiInv'
<1>1. Groups' = Groups
  BY DEF Groups, Elements
<1>2. Probing' = Probing /\ Unchecked' = Unchecked /\ Unalarmed' = Unalarmed /\ Actionable' = Actionable
  BY <1>1 DEF Probing, Unchecked, Unalarmed, Actionable
<1>3. Probes(batch') \subseteq BOOLEAN
  BY DEF KpiInv, RunTyped
<1> QED
  BY <1>1, <1>2, <1>3 DEF KpiInv, RunTyped, Balanced, FailedOnly

\* Before the groups of a batch start none of them has moved.
Unstarted == phase \in {"wipe", "fill"} => \A g \in Groups \ {"single"} : stage[g] = First(g)

\* The steps of one group, but for those that are refused.
GroupStep(g) ==
  \/ WipeAgain(g) \/ FillAgain(g) \/ SendStep(g) \/ Count(g) \/ Drilldown(g)
  \/ Coverage(g) \/ Alarm(g) \/ Telemetry(g) \/ Publish(g)

\* A group of the batch moves when the phase lets it, and leaves the phase alone.
LEMMA GroupStepGoes ==
  ASSUME NEW g \in Groups, GroupStep(g)
  PROVE  /\ phase \in {"groups", "failed"} \/ g = "single"
         /\ UNCHANGED <<batch, single, phase>>
         /\ \E to : stage' = [stage EXCEPT ![g] = to]
<1>1. CASE WipeAgain(g) \/ FillAgain(g) \/ SendStep(g) \/ Publish(g)
  BY ZenonT(60), <1>1 DEF WipeAgain, FillAgain, SendStep, Publish, MayGo, Go
<1>2. CASE Count(g) \/ Drilldown(g) \/ Coverage(g) \/ Alarm(g) \/ Telemetry(g)
  BY ZenonT(60), <1>2 DEF Count, Drilldown, Coverage, Alarm, Telemetry, Kpi, MayGo, Go
<1> QED
  BY <1>1, <1>2 DEF GroupStep

\* Only the scenario that runs alone moves before the groups do.
LEMMA UnstartedNext == KpiInv /\ Unstarted /\ [Next]_vars => Unstarted'
<1> SUFFICES ASSUME KpiInv, Unstarted, [Next]_vars, phase' \in {"wipe", "fill"}
             PROVE  \A g \in Groups' \ {"single"} : stage'[g] = First(g)
  BY DEF Unstarted
<1>1. CASE Wipe \/ Fill \/ AnswerBatch
  BY <1>1 DEF Wipe, Fill, AnswerBatch, groupVars, Unstarted, Groups, Elements
<1>2. ASSUME NEW g \in Groups, GroupStep(g) PROVE \A h \in Groups' \ {"single"} : stage'[h] = First(h)
  <2>1. /\ phase \in {"groups", "failed"} \/ g = "single"
        /\ UNCHANGED <<batch, single, phase>>
    BY <1>2, GroupStepGoes
  <2>2. PICK to : stage' = [stage EXCEPT ![g] = to]
    BY <1>2, GroupStepGoes
  <2>3. phase \in {"wipe", "fill"} /\ g = "single" /\ Groups' = Groups
    BY <2>1 DEF Groups, Elements
  <2> QED
    BY <2>2, <2>3 DEF Unstarted, KpiInv, RunTyped
<1>3. CASE RefuseNext
  BY <1>3 DEF RefuseNext, RefuseReset, RefuseAgain, RefuseSetup, batchVars, Unstarted, Groups, Elements
<1>4. CASE UNCHANGED batchVars
  BY <1>4 DEF batchVars, Unstarted, Groups, Elements
<1>5. CASE UNCHANGED vars
  BY <1>4, <1>5 DEF vars
<1> QED
  BY ZenonT(60), <1>1, <1>2, <1>3, <1>4, <1>5 DEF Next, BatchNext, GroupStep

\* A batch whose reset is refused leaves its groups where they have counted nothing.
LEMMA RefusedReset ==
  ASSUME KpiInv, Unstarted, RefuseReset
  PROVE  /\ UNCHANGED <<batch, single, run, kpiVars>> /\ Groups' = Groups
         /\ stage' = [g \in Groups |-> stage'[g]]
         /\ \A g \in Groups : \/ stage'[g] = stage[g]
                              \/ stage[g] \in {"wipe", "steps"} /\ stage'[g] = "stopped"
<1>1. /\ UNCHANGED <<batch, single, run, kpiVars>> /\ phase \in {"wipe", "fill"}
      /\ stage' = [g \in Groups |-> IF g = "single" THEN stage[g] ELSE "stopped"]
  BY DEF RefuseReset
<1>2. Groups' = Groups
  BY <1>1 DEF Groups, Elements
<1>3. \A g \in Groups : g = "single" \/ stage[g] \in {"wipe", "steps"}
  BY <1>1 DEF Unstarted, First
<1> QED
  BY <1>1, <1>2, <1>3

\* It counts nothing.
LEMMA RefusedKeeps ==
  ASSUME KpiInv, Unstarted, RefuseReset
  PROVE  KpiInv'
<1>1. /\ UNCHANGED <<batch, single, run, kpiVars>> /\ Groups' = Groups
      /\ stage' = [g \in Groups |-> stage'[g]]
      /\ \A g \in Groups : \/ stage'[g] = stage[g]
                           \/ stage[g] \in {"wipe", "steps"} /\ stage'[g] = "stopped"
  BY RefusedReset
<1>2. Probing' = Probing /\ Unchecked' = Unchecked /\ Unalarmed' = Unalarmed /\ Actionable' = Actionable
  BY <1>1 DEF Probing, Unchecked, Unalarmed, Actionable
<1>3. RunTyped'
  BY <1>1 DEF KpiInv, RunTyped, kpiVars
<1>4. FailedOnly'
  BY <1>1 DEF KpiInv, FailedOnly
<1> QED
  BY <1>1, <1>2, <1>3, <1>4 DEF KpiInv, Balanced, kpiVars

\* Every step of a batch and every step beside it keeps the invariant.
LEMMA KpiNext == KpiInv /\ Unstarted /\ [Next]_vars => KpiInv'
<1> SUFFICES ASSUME KpiInv, Unstarted, [Next]_vars PROVE KpiInv'
  OBVIOUS
<1>1. CASE Wipe \/ Fill \/ AnswerBatch
  BY <1>1, OthersKeep DEF Wipe, Fill, AnswerBatch, groupVars, kpiVars
<1>2. ASSUME NEW g \in Groups, GroupStep(g) \/ RefuseAgain(g)
      PROVE  KpiInv'
  BY <1>2, ScenarioKeeps, CountKeeps, DrilldownKeeps, CoverageKeeps, AlarmKeeps, LastStepsKeep DEF GroupStep
<1>3. CASE UNCHANGED batchVars
  BY <1>3, OthersKeep DEF batchVars
<1>4. CASE UNCHANGED vars
  BY <1>3, <1>4 DEF vars
<1>5. CASE RefuseNext
  BY <1>2, <1>3, <1>5, RefusedKeeps DEF RefuseNext
<1> QED
  BY ZenonT(60), <1>1, <1>2, <1>3, <1>4, <1>5 DEF Next, BatchNext, GroupStep

\* The groups start after the reset.
LEMMA UnstartedInit == Init => Unstarted
BY DEF Init, BatchInit, Unstarted

\* Between any two awaits of updateMonitoringKpis, whoever is at which, the counters differ by
\* the scenarios that are on their way and by nothing else.
THEOREM AlwaysKpiInv == Spec => []KpiInv
<1>1. Spec => [](KpiInv /\ Unstarted)
  BY KpiInit, KpiNext, UnstartedInit, UnstartedNext, PTL DEF Spec
<1> QED
  BY <1>1, PTL

\* No group of a batch starts before its reset.
LEMMA AlwaysUnstarted == Spec => []Unstarted
BY UnstartedInit, UnstartedNext, AlwaysKpiInv, PTL DEF Spec

\* The KPIs agree with each other at every moment, so that no ratio the gateway publishes
\* exceeds one: for any batch, scenario run alone and k6 test, and whatever the probes answer.
THEOREM KpisAlwaysAgree == Spec => []KpisAgree
<1>1. KpiInv => KpisAgree
  <2> SUFFICES ASSUME KpiInv PROVE KpisAgree
    OBVIOUS
  <2>1. kpi \in Counters /\ IsFiniteSet(Groups)
    BY DEF KpiInv, RunTyped
  <2>2. /\ Cardinality(Probing) \in Nat /\ Cardinality(Unchecked) \in Nat
        /\ Cardinality(Unalarmed) \in Nat /\ Cardinality(Actionable) \in Nat
    <3>1. \A S \in SUBSET Groups : Cardinality(S) \in Nat
      BY <2>1, FS_Subset, FS_CardinalityType
    <3> QED
      BY <3>1 DEF Probing, Unchecked, Unalarmed, Actionable
  <2> QED
    BY <2>1, <2>2 DEF KpiInv, Balanced, KpisAgree, Counters
<1> QED
  BY <1>1, AlwaysKpiInv, PTL

-----------------------------------------------------------------------------
(* The gauges. *)

\* Within updateMonitoringKpis, after the first counter and before the gauges.
Updating == {"drilldown", "coverage", "alarm", "telemetry", "gauges"}

\* Gauges that are not those of the counters are still to be published by somebody.
Published == \/ gauges = [kpi |-> kpi, telemetry |-> telemetry]
             \/ \E g \in Groups : stage[g] \in Updating

\* A step of g that does not end in the middle of an update, and one that does.
LEMMA PublishedAfter ==
  ASSUME Published, RunTyped, NEW g \in Groups, UNCHANGED <<batch, single>>,
         NEW to, stage' = [stage EXCEPT ![g] = to],
         \/ to \in Updating
         \/ gauges' = [kpi |-> kpi', telemetry |-> telemetry']
         \/ UNCHANGED kpiVars /\ stage[g] \notin Updating
  PROVE  Published'
<1>1. Groups' = Groups
  BY DEF Groups, Elements
<1>2. stage'[g] = to /\ \A h \in Groups \ {g} : stage'[h] = stage[h]
  BY DEF RunTyped
<1>3. CASE to \in Updating
  BY <1>1, <1>2, <1>3 DEF Published
<1>4. CASE gauges' = [kpi |-> kpi', telemetry |-> telemetry']
  BY <1>4 DEF Published
<1>5. CASE UNCHANGED kpiVars /\ stage[g] \notin Updating
  BY <1>1, <1>2, <1>5 DEF Published, kpiVars
<1> QED
  BY <1>3, <1>4, <1>5

\* Whoever changes a counter is still to publish the gauges.
LEMMA PublishedNext == KpiInv /\ Unstarted /\ Published /\ [Next]_vars => Published'
<1> SUFFICES ASSUME KpiInv, Unstarted, Published, [Next]_vars PROVE Published'
  OBVIOUS
<1>1. RunTyped
  BY DEF KpiInv
<1>2. ASSUME UNCHANGED <<batch, single, stage, kpiVars>> PROVE Published'
  BY <1>2 DEF Published, Groups, Elements, kpiVars
<1>3. CASE Wipe \/ Fill \/ AnswerBatch \/ UNCHANGED batchVars \/ UNCHANGED vars
  <2>1. UNCHANGED <<batch, single, stage>> /\ UNCHANGED kpiVars
    BY <1>3 DEF Wipe, Fill, AnswerBatch, groupVars, batchVars, kpiVars, vars
  <2> QED
    BY <1>2, <2>1
<1>4. ASSUME NEW g \in Groups, WipeAgain(g) \/ FillAgain(g) \/ RefuseAgain(g) \/ SendStep(g) PROVE Published'
  <2>1. UNCHANGED <<batch, single>> /\ UNCHANGED kpiVars /\ stage[g] \notin Updating
    BY ZenonT(60), <1>4 DEF WipeAgain, FillAgain, RefuseAgain, SendStep, MayGo, Updating
  <2>2. \E to : stage' = [stage EXCEPT ![g] = to]
    BY <1>4 DEF WipeAgain, FillAgain, RefuseAgain, SendStep, Go
  <2> QED
    BY ZenonT(60), <1>1, <2>1, <2>2, PublishedAfter
<1>5. ASSUME NEW g \in Groups, Count(g) \/ Drilldown(g) \/ Coverage(g) \/ Alarm(g) \/ Telemetry(g)
      PROVE  Published'
  <2>1. UNCHANGED <<batch, single>>
    BY <1>5 DEF Count, Drilldown, Coverage, Alarm, Telemetry, Kpi
  <2>2. \E to \in Updating : stage' = [stage EXCEPT ![g] = to]
    BY <1>5 DEF Count, Drilldown, Coverage, Alarm, Telemetry, Kpi, Go, Updating
  <2> QED
    BY <1>1, <2>1, <2>2, PublishedAfter
<1>6. ASSUME NEW g \in Groups, Publish(g) PROVE Published'
  <2>1. UNCHANGED <<batch, single>> /\ gauges' = [kpi |-> kpi', telemetry |-> telemetry']
    BY <1>6 DEF Publish
  <2>2. \E to : stage' = [stage EXCEPT ![g] = to]
    BY <1>6 DEF Publish, Go
  <2> QED
    BY <1>1, <2>1, <2>2, PublishedAfter
<1>7. CASE RefuseReset
  <2>1. /\ UNCHANGED <<batch, single, run, kpiVars>> /\ Groups' = Groups
        /\ \A g \in Groups : \/ stage'[g] = stage[g]
                             \/ stage[g] \in {"wipe", "steps"} /\ stage'[g] = "stopped"
    BY <1>7, RefusedReset
  <2> QED
    BY <2>1 DEF Published, kpiVars, Updating
<1>8. CASE RefuseNext
  BY <1>3, <1>4, <1>7, <1>8 DEF RefuseNext
<1> QED
  BY ZenonT(60), <1>3, <1>4, <1>5, <1>6, <1>8 DEF Next, BatchNext

\* Once everything is answered and no group goes on, the gauges are those of the counters, although every group
\* publishes what it finds at its last await, and of the scenarios that ran exactly the failed
\* ones were checked for an alert, whoever else uses the shop and whatever was started twice.
THEOREM GaugesAreCurrent ==
  Spec => [](AtRest => /\ gauges = [kpi |-> kpi, telemetry |-> telemetry]
                       /\ kpi.drilldowns = kpi.runs /\ kpi.checked = kpi.runs - kpi.passed)
<1>1. Init => Published
  BY DEF Init, BatchInit, Published
<1>2. KpiInv /\ Published /\ AtRest => /\ gauges = [kpi |-> kpi, telemetry |-> telemetry]
                                      /\ kpi.drilldowns = kpi.runs /\ kpi.checked = kpi.runs - kpi.passed
  <2> SUFFICES ASSUME KpiInv, Published, AtRest
               PROVE  /\ gauges = [kpi |-> kpi, telemetry |-> telemetry]
                      /\ kpi.drilldowns = kpi.runs /\ kpi.checked = kpi.runs - kpi.passed
    OBVIOUS
  <2>1. gauges = [kpi |-> kpi, telemetry |-> telemetry]
    BY DEF AtRest, Published, Updating
  <2>2. Probing = {} /\ Unchecked = {}
    BY DEF AtRest, Probing, Unchecked
  <2> QED
    BY <2>1, <2>2, FS_EmptySet DEF KpiInv, Balanced, RunTyped, Counters
<1> QED
  BY <1>1, <1>2, AlwaysKpiInv, AlwaysUnstarted, PublishedNext, PTL DEF Spec

-----------------------------------------------------------------------------
(* The shop a scenario finds, and what one request makes of it. *)

\* A line of a cart and an order.
Line == [id : Nat, variant : {"notebook", "mug"}, quantity : Nat]
State == {"pending_payment", "paid", "payment_failed"}
Order == [id : Nat, owner : Buyer, state : State]

\* The seeded shop with this content, as a set of one.
ShopOf(cart, lines, orders, next) ==
  [seeded : {TRUE}, cart : {cart}, lines : {lines}, orders : {orders}, next : {next}]

\* What every request keeps true of a seeded shop: new rows get new numbers, an order has one owner.
Sound(s) ==
  /\ s \in ShopOf(s.cart, s.lines, s.orders, s.next)
  /\ s.cart \in [Buyer -> Nat] /\ s.lines = [b \in Buyer |-> s.lines[b]]
  /\ s.orders \in SUBSET Order
  /\ s.next \in Nat /\ s.next > 2
  /\ \A o \in s.orders : o.id < s.next /\ (o.id = 1 => o.owner = One)
  /\ \A o, p \in s.orders : o.id = p.id => o = p

\* A request of one buyer, or of nobody, leaves what the others have.
Leaves(who, s, t) ==
  \A b \in Buyer \ {who} :
    /\ t.lines[b] = s.lines[b]
    /\ s.cart[b] # 0 => t.cart[b] = s.cart[b]
    /\ \A o \in Order : o.owner = b => (o \in t.orders <=> o \in s.orders)

\* The buyer can put what it buys into its cart, as the only line of it.
IsFree(s, b) ==
  \/ s.lines[b] = <<>>
  \/ /\ b = One
     /\ \E l \in Line : s.lines[b] = <<l>> /\ l.variant = "notebook" /\ l.quantity < MaxQuantity

\* The answer names the cart of the buyer and its only line.
IsFilled(s, b, answer) ==
  /\ \E l \in Line : s.lines[b] = <<l>> /\ "line" \in DOMAIN answer /\ answer["line"] = l.id
  /\ s.cart[b] # 0 /\ "cart" \in DOMAIN answer /\ answer["cart"] = s.cart[b]

\* The answer names an order of the buyer.
IsOrdered(s, b, answer, state) ==
  /\ s.lines[b] = <<>> /\ "order" \in DOMAIN answer
  /\ [id |-> answer["order"], owner |-> b, state |-> state] \in s.orders

\* An answer has a field of this value.
Says(answer, field, value) == field \in DOMAIN answer /\ answer[field] = value

\* A list of one line, as the carts of the scenarios are.
LEMMA OneLine ==
  ASSUME NEW l, NEW m
  PROVE  /\ <<l>> # <<>> /\ Head(<<l>>) = l /\ <<l>>[1] = l /\ DOMAIN <<l>> = {1}
         /\ [<<l>> EXCEPT ![1] = m] = <<m>>
         /\ Append(<<>>, m) = <<m>>
         /\ RemoveAt(<<l>>, 1) = <<>>
<1>1. [<<l>> EXCEPT ![1] = m] = <<m>>
  OBVIOUS
<1>2. RemoveAt(<<l>>, 1) = <<>>
  BY DEF RemoveAt
<1>3. <<l>> # <<>> /\ Head(<<l>>) = l /\ <<l>>[1] = l /\ DOMAIN <<l>> = {1}
  OBVIOUS
<1>4. Append(<<>>, m) = <<m>>
  OBVIOUS
<1> QED
  BY <1>1, <1>2, <1>3, <1>4

\* The fields of a shop.
LEMMA Fields ==
  ASSUME NEW cart, NEW lines, NEW orders, NEW next, NEW t \in ShopOf(cart, lines, orders, next)
  PROVE  /\ t.seeded = TRUE /\ t.cart = cart /\ t.lines = lines /\ t.orders = orders /\ t.next = next
         /\ t \in ShopOf(t.cart, t.lines, t.orders, t.next)
BY DEF ShopOf

\* Nothing is left alone more than by no step at all.
LEMMA LeavesItself == ASSUME NEW s, NEW who PROVE Leaves(who, s, s)
BY DEF Leaves

\* Nor is more noticed of two steps of the same buyer than of one.
LEMMA LeavesTwice ==
  ASSUME NEW s, NEW t, NEW u, NEW who, Leaves(who, s, t), Leaves(who, t, u)
  PROVE  Leaves(who, s, u)
BY DEF Leaves

\* The active cart is there afterwards, and is the one that was there before if any was.
LEMMA EnsureKeeps ==
  ASSUME NEW s, Sound(s), NEW b \in Buyer, NEW t, t = EnsureActiveCart(s, b)
  PROVE  /\ Sound(t) /\ Leaves("nobody", s, t) /\ Leaves(b, s, t)
         /\ t.lines = s.lines /\ t.orders = s.orders /\ t.cart[b] # 0
<1>1. CASE s.cart[b] # 0
  BY <1>1, LeavesItself DEF EnsureActiveCart
<1>2. CASE s.cart[b] = 0
  <2>1. t = [s EXCEPT !.cart[b] = s.next, !.next = @ + 1]
    BY <1>2 DEF EnsureActiveCart
  <2>2. t \in ShopOf([s.cart EXCEPT ![b] = s.next], s.lines, s.orders, s.next + 1)
    BY <2>1 DEF Sound, ShopOf
  <2>3. /\ t.cart = [s.cart EXCEPT ![b] = s.next] /\ t.lines = s.lines /\ t.orders = s.orders
        /\ t.next = s.next + 1 /\ t \in ShopOf(t.cart, t.lines, t.orders, t.next)
    BY <2>2 DEF ShopOf
  <2>4. Sound(t)
    BY <2>3 DEF Sound, Order
  <2>5. t.cart[b] # 0 /\ \A c \in Buyer \ {b} : t.cart[c] = s.cart[c]
    BY <2>3 DEF Sound
  <2>6. Leaves("nobody", s, t) /\ Leaves(b, s, t)
    BY <1>2, <2>3, <2>5 DEF Leaves
  <2> QED
    BY <2>3, <2>4, <2>5, <2>6
<1> QED
  BY <1>1, <1>2

\* The cart endpoints' answer shows the cart and its first line.
LEMMA ViewEmpty ==
  ASSUME NEW s, NEW b, NEW status, s.lines[b] = <<>>, NEW a, a = CartView(s, b, status)
  PROVE  /\ Says(a, "status", status) /\ Says(a, "owner", b) /\ Says(a, "cart", s.cart[b])
         /\ "line" \notin DOMAIN a
BY DEF CartView, Says

\* And with a line it shows that one.
LEMMA ViewLine ==
  ASSUME NEW s, NEW b, NEW status, NEW l, s.lines[b] = <<l>>, NEW a, a = CartView(s, b, status)
  PROVE  /\ Says(a, "status", status) /\ Says(a, "owner", b) /\ Says(a, "cart", s.cart[b])
         /\ Says(a, "line", l.id) /\ Says(a, "variant", l.variant) /\ Says(a, "quantity", l.quantity)
<1>1. s.lines[b] # <<>> /\ Head(s.lines[b]) = l
  BY OneLine
<1> QED
  BY <1>1 DEF CartView, Says

\* GET /cart opens a cart, which nobody depends on.
LEMMA GetCartAnswers ==
  ASSUME NEW s, Sound(s), NEW b \in Buyer, NEW r, r = GetCart(s, b)
  PROVE  /\ Sound(r.shop) /\ Leaves("nobody", s, r.shop) /\ r.shop.lines = s.lines
         /\ Says(r.answer, "status", 200) /\ Says(r.answer, "owner", b) /\ "cart" \in DOMAIN r.answer
         /\ s.lines[b] = <<>> => "line" \notin DOMAIN r.answer
         /\ \A l \in Line : s.lines[b] = <<l>> => Says(r.answer, "line", l.id)
<1> DEFINE t == EnsureActiveCart(s, b)
<1>1. s.seeded = TRUE
  BY Fields DEF Sound
<1>2. r.shop = t /\ r.answer = CartView(t, b, 200)
  BY <1>1 DEF GetCart, ReplyCart, Reply
<1>3. /\ Sound(t) /\ Leaves("nobody", s, t) /\ t.lines = s.lines
  BY EnsureKeeps
<1> HIDE DEF t
<1>4. /\ Says(r.answer, "status", 200) /\ Says(r.answer, "owner", b) /\ Says(r.answer, "cart", t.cart[b])
  BY <1>2 DEF CartView, Says
<1>5. s.lines[b] = <<>> => "line" \notin DOMAIN r.answer
  BY <1>2, <1>3, ViewEmpty
<1>6. \A l \in Line : s.lines[b] = <<l>> => Says(r.answer, "line", l.id)
  BY <1>2, <1>3, ViewLine
<1> QED
  BY <1>2, <1>3, <1>4, <1>5, <1>6 DEF Says

\* POST /cart/items on an empty cart adds the line that the answer shows.
LEMMA AddAppends ==
  ASSUME NEW s, Sound(s), NEW b \in Buyer, s.lines[b] = <<>>, NEW V \in {"notebook", "mug"}, NEW r, r = AddItem(s, b, V)
  PROVE  /\ Sound(r.shop) /\ Leaves(b, s, r.shop) /\ IsFilled(r.shop, b, r.answer)
         /\ Says(r.answer, "status", 201) /\ Says(r.answer, "owner", b) /\ Says(r.answer, "variant", V)
<1> DEFINE open == EnsureActiveCart(s, b)
           line == [id |-> open.next, variant |-> V, quantity |-> 1]
           t == [open EXCEPT !.lines[b] = Append(@, line), !.next = @ + 1]
<1>0. s.seeded = TRUE
  BY DEF Sound, ShopOf
<1>1. s.seeded = TRUE /\ Sound(open) /\ Leaves(b, s, open) /\ open.lines = s.lines /\ open.cart[b] # 0
  BY <1>0, EnsureKeeps
<1>2. open.lines[b] = <<>>
  BY <1>1
<1>3. Place(open, b, LAMBDA l : l.variant = V) = {}
  BY <1>2 DEF Place
<1>4. r.shop = t /\ r.answer = CartView(t, b, 201)
  BY <1>1, <1>3 DEF AddItem, ReplyCart, Reply
<1>5. open \in ShopOf(open.cart, open.lines, open.orders, open.next) /\ open.next \in Nat
  BY <1>1 DEF Sound
<1>6. line \in Line
  BY <1>5 DEF Line
<1> HIDE DEF open, line
<1>7. t \in ShopOf(open.cart, [open.lines EXCEPT ![b] = Append(open.lines[b], line)], open.orders, open.next + 1)
  BY <1>5 DEF ShopOf
<1>8. Append(open.lines[b], line) = <<line>>
  BY <1>2, OneLine
<1> HIDE DEF t
<1>9. /\ t.cart = open.cart /\ t.lines = [open.lines EXCEPT ![b] = <<line>>] /\ t.orders = open.orders
      /\ t.next = open.next + 1 /\ t \in ShopOf(t.cart, t.lines, t.orders, t.next)
  BY <1>7, <1>8 DEF ShopOf
<1>10. Sound(t)
  <2>1. t.lines = [c \in Buyer |-> t.lines[c]]
    BY <1>1, <1>9 DEF Sound
  <2>2. \A o \in t.orders : o.id < t.next /\ (o.id = 1 => o.owner = One)
    BY <1>1, <1>9 DEF Sound, Order
  <2>3. t.next \in Nat /\ t.next > 2
    BY <1>1, <1>9 DEF Sound
  <2> QED
    BY <1>1, <1>9, <2>1, <2>2, <2>3 DEF Sound
<1>11. t.lines[b] = <<line>> /\ t.cart[b] # 0
  BY <1>1, <1>9 DEF Sound
<1>12. Leaves(b, open, t)
  BY <1>1, <1>9 DEF Leaves, Sound
<1>13. Leaves(b, s, t)
  BY <1>1, <1>12, LeavesTwice
<1>14. /\ Says(r.answer, "status", 201) /\ Says(r.answer, "owner", b) /\ Says(r.answer, "cart", t.cart[b])
       /\ Says(r.answer, "line", line.id) /\ Says(r.answer, "variant", line.variant)
  BY <1>4, <1>11, ViewLine
<1>15. line.variant = V
  BY DEF line
<1>16. IsFilled(t, b, r.answer)
  BY <1>6, <1>11, <1>14 DEF IsFilled, Says
<1> QED
  BY <1>4, <1>10, <1>13, <1>14, <1>15, <1>16

\* POST /cart/items of what the only line has raises its quantity, while it may.
LEMMA AddRaises ==
  ASSUME NEW s, Sound(s), NEW b \in Buyer, NEW l \in Line, s.lines[b] = <<l>>, l.quantity < MaxQuantity,
         NEW V, V = l.variant, NEW r, r = AddItem(s, b, V)
  PROVE  /\ Sound(r.shop) /\ Leaves(b, s, r.shop) /\ IsFilled(r.shop, b, r.answer)
         /\ Says(r.answer, "status", 201) /\ Says(r.answer, "owner", b) /\ Says(r.answer, "variant", V)
<1> DEFINE open == EnsureActiveCart(s, b)
           more == [l EXCEPT !.quantity = @ + 1]
           t == [open EXCEPT !.lines[b][1].quantity = @ + 1]
<1>0. s.seeded = TRUE
  BY DEF Sound, ShopOf
<1>1. s.seeded = TRUE /\ Sound(open) /\ Leaves(b, s, open) /\ open.lines = s.lines /\ open.cart[b] # 0
  BY <1>0, EnsureKeeps
<1>2. open.lines[b] = <<l>> /\ open.lines[b][1] = l
  BY <1>1
<1>3. Place(open, b, LAMBDA m : m.variant = V) = {1}
  BY <1>2 DEF Place
<1>3a. (CHOOSE i \in {1} : TRUE) = 1
  OBVIOUS
<1>3b. l.quantity # MaxQuantity
  BY MaxQuantityAssumption DEF Line
<1>4. r.shop = t /\ r.answer = CartView(t, b, 201)
  BY <1>1, <1>2, <1>3, <1>3a, <1>3b DEF AddItem, ReplyCart, Reply
<1>5. open \in ShopOf(open.cart, open.lines, open.orders, open.next) /\ open.next \in Nat
  BY <1>1 DEF Sound
<1>6. more \in Line /\ more.variant = V /\ more.id = l.id
  BY DEF Line
<1>7. t \in ShopOf(open.cart, [open.lines EXCEPT ![b] = [open.lines[b] EXCEPT ![1] =
                [open.lines[b][1] EXCEPT !.quantity = open.lines[b][1].quantity + 1]]], open.orders, open.next)
  BY <1>5 DEF ShopOf
<1>8. [open.lines[b] EXCEPT ![1] = [open.lines[b][1] EXCEPT !.quantity = open.lines[b][1].quantity + 1]] = <<more>>
  BY <1>2, OneLine
<1> HIDE DEF open, more, t
<1>9. /\ t.cart = open.cart /\ t.lines = [open.lines EXCEPT ![b] = <<more>>] /\ t.orders = open.orders
      /\ t.next = open.next /\ t \in ShopOf(t.cart, t.lines, t.orders, t.next)
  BY <1>7, <1>8 DEF ShopOf
<1>10. Sound(t)
  BY <1>1, <1>9 DEF Sound, Order
<1>11. t.lines[b] = <<more>> /\ t.cart[b] # 0
  BY <1>1, <1>9 DEF Sound
<1>12. Leaves(b, open, t)
  BY <1>1, <1>9 DEF Leaves, Sound
<1>13. Leaves(b, s, t)
  BY <1>1, <1>12, LeavesTwice
<1>14. /\ Says(r.answer, "status", 201) /\ Says(r.answer, "owner", b) /\ Says(r.answer, "cart", t.cart[b])
       /\ Says(r.answer, "line", more.id) /\ Says(r.answer, "variant", more.variant)
  BY <1>4, <1>11, ViewLine
<1>16. IsFilled(t, b, r.answer)
  BY <1>6, <1>11, <1>14 DEF IsFilled, Says
<1> QED
  BY <1>4, <1>6, <1>10, <1>13, <1>14, <1>16

\* POST /cart/items of a buyer whose cart is free fills it with one line.
LEMMA AddFills ==
  ASSUME NEW s, Sound(s), NEW b \in Buyer, IsFree(s, b), NEW V \in {"notebook", "mug"}, b = One => V = "notebook",
         NEW r, r = AddItem(s, b, V)
  PROVE  /\ Sound(r.shop) /\ Leaves(b, s, r.shop) /\ IsFilled(r.shop, b, r.answer)
         /\ Says(r.answer, "status", 201) /\ Says(r.answer, "owner", b) /\ Says(r.answer, "variant", V)
<1>1. CASE s.lines[b] = <<>>
  BY <1>1, AddAppends
<1>2. CASE s.lines[b] # <<>>
  <2>1. PICK l \in Line : s.lines[b] = <<l>> /\ l.variant = "notebook" /\ l.quantity < MaxQuantity /\ b = One
    BY <1>2 DEF IsFree
  <2> QED
    BY <2>1, AddRaises
<1> QED
  BY <1>1, <1>2

\* PATCH /cart/items/:id of the only line, to a quantity that is allowed.
LEMMA UpdateFills ==
  ASSUME NEW s, Sound(s), NEW b \in Buyer, NEW a, IsFilled(s, b, a), NEW q \in 1..MaxQuantity,
         NEW r, r = UpdateItem(s, b, a["line"], q)
  PROVE  /\ Sound(r.shop) /\ Leaves(b, s, r.shop) /\ IsFilled(r.shop, b, r.answer)
         /\ Says(r.answer, "status", 200) /\ Says(r.answer, "quantity", q)
<1>1. PICK l \in Line : s.lines[b] = <<l>> /\ a["line"] = l.id
  BY DEF IsFilled
<1> DEFINE more == [l EXCEPT !.quantity = q]
           t == [s EXCEPT !.lines[b][1].quantity = q]
<1>2. s.lines[b][1] = l
  BY <1>1
<1>3. Place(s, b, LAMBDA m : m.id = a["line"]) = {1}
  BY <1>1 DEF Place
<1>3a. (CHOOSE i \in {1} : TRUE) = 1
  OBVIOUS
<1>4. r.shop = t /\ r.answer = CartView(t, b, 200)
  BY <1>3, <1>3a DEF UpdateItem, ReplyCart, Reply
<1>5. s \in ShopOf(s.cart, s.lines, s.orders, s.next) /\ s.next \in Nat
  BY DEF Sound
<1>6. more \in Line /\ more.quantity = q /\ more.id = l.id
  BY MaxQuantityAssumption DEF Line
<1>7. t \in ShopOf(s.cart, [s.lines EXCEPT ![b] = [s.lines[b] EXCEPT ![1] =
                [s.lines[b][1] EXCEPT !.quantity = q]]], s.orders, s.next)
  BY <1>5 DEF ShopOf
<1>8. [s.lines[b] EXCEPT ![1] = [s.lines[b][1] EXCEPT !.quantity = q]] = <<more>>
  BY <1>1, <1>2, OneLine
<1> HIDE DEF more, t
<1>9. /\ t.cart = s.cart /\ t.lines = [s.lines EXCEPT ![b] = <<more>>] /\ t.orders = s.orders
      /\ t.next = s.next /\ t \in ShopOf(t.cart, t.lines, t.orders, t.next)
  BY <1>7, <1>8 DEF ShopOf
<1>10. Sound(t)
  BY <1>9 DEF Sound, Order
<1>11. t.lines[b] = <<more>> /\ t.cart[b] # 0
  BY <1>9 DEF Sound, IsFilled
<1>12. Leaves(b, s, t)
  BY <1>9 DEF Leaves, Sound
<1>14. /\ Says(r.answer, "status", 200) /\ Says(r.answer, "owner", b) /\ Says(r.answer, "cart", t.cart[b])
       /\ Says(r.answer, "line", more.id) /\ Says(r.answer, "quantity", more.quantity)
  BY <1>4, <1>11, ViewLine
<1>16. IsFilled(t, b, r.answer)
  BY <1>6, <1>11, <1>14 DEF IsFilled, Says
<1> QED
  BY <1>4, <1>6, <1>10, <1>12, <1>14, <1>16
\* An order is a row with its fields.
LEMMA OrderTyped ==
  ASSUME NEW id \in Nat, NEW b \in Buyer, NEW state \in State,
         NEW o, o = [id |-> id, owner |-> b, state |-> state]
  PROVE  o \in Order /\ o.id = id /\ o.owner = b /\ o.state = state
BY DEF Order

\* DELETE /cart/items/:id of the only line empties the cart.
LEMMA DeleteEmpties ==
  ASSUME NEW s, Sound(s), NEW b \in Buyer, NEW a, IsFilled(s, b, a), NEW r, r = DeleteItem(s, b, a["line"])
  PROVE  /\ Sound(r.shop) /\ Leaves(b, s, r.shop) /\ r.shop.lines[b] = <<>>
         /\ Says(r.answer, "status", 200) /\ Says(r.answer, "owner", b)
<1>1. PICK l \in Line : s.lines[b] = <<l>> /\ a["line"] = l.id
  BY DEF IsFilled
<1> DEFINE t == [s EXCEPT !.lines[b] = RemoveAt(@, 1)]
<1>2. Place(s, b, LAMBDA m : m.id = a["line"]) = {1}
  BY <1>1 DEF Place
<1>3. (CHOOSE i \in {1} : TRUE) = 1
  OBVIOUS
<1>4. r.shop = t /\ r.answer = CartView(t, b, 200)
  BY <1>2, <1>3 DEF DeleteItem, ReplyCart, Reply
<1>5. s \in ShopOf(s.cart, s.lines, s.orders, s.next)
  BY DEF Sound
<1>6. t \in ShopOf(s.cart, [s.lines EXCEPT ![b] = RemoveAt(s.lines[b], 1)], s.orders, s.next)
  BY <1>5 DEF ShopOf
<1>7. RemoveAt(s.lines[b], 1) = <<>>
  BY <1>1, OneLine
<1> HIDE DEF t
<1>8. /\ t.cart = s.cart /\ t.lines = [s.lines EXCEPT ![b] = <<>>] /\ t.orders = s.orders
      /\ t.next = s.next /\ t \in ShopOf(t.cart, t.lines, t.orders, t.next)
  BY <1>6, <1>7 DEF ShopOf
<1>9. Sound(t)
  BY <1>8 DEF Sound
<1>10. t.lines[b] = <<>>
  BY <1>8 DEF Sound
<1>11. Leaves(b, s, t)
  BY <1>8 DEF Leaves, Sound
<1>12. Says(r.answer, "status", 200) /\ Says(r.answer, "owner", b)
  BY <1>4, <1>10, ViewEmpty
<1> QED
  BY <1>4, <1>9, <1>10, <1>11, <1>12

\* POST /orders of the cart an answer named: the order is there, and the cart is gone.
LEMMA OrderCreates ==
  ASSUME NEW s, Sound(s), NEW b \in Buyer, NEW a, IsFilled(s, b, a), NEW r, r = CreateOrder(s, b, a["cart"])
  PROVE  /\ Sound(r.shop) /\ Leaves(b, s, r.shop) /\ IsOrdered(r.shop, b, r.answer, "pending_payment")
         /\ Says(r.answer, "status", 201) /\ Says(r.answer, "state", "pending_payment")
<1> DEFINE o == [id |-> s.next, owner |-> b, state |-> "pending_payment"]
           t == [s EXCEPT !.orders = @ \cup {o}, !.cart[b] = 0, !.lines[b] = <<>>, !.next = @ + 1]
<1>1. a["cart"] = s.cart[b] /\ s.lines[b] # <<>>
  BY OneLine DEF IsFilled
<1>2. r.shop = t /\ r.answer = [status |-> 201, order |-> s.next, state |-> "pending_payment"]
  BY <1>1 DEF CreateOrder, Reply
<1>3. s \in ShopOf(s.cart, s.lines, s.orders, s.next) /\ s.next \in Nat
  BY DEF Sound
<1>4. o \in Order /\ o.id = s.next /\ o.owner = b
  <2>1. "pending_payment" \in State
    BY DEF State
  <2> QED
    BY <1>3, <2>1, OrderTyped
<1>5. [id |-> s.next, owner |-> b, state |-> "pending_payment"] = o
  OBVIOUS
<1> HIDE DEF o
<1>6. t \in ShopOf([s.cart EXCEPT ![b] = 0], [s.lines EXCEPT ![b] = <<>>], s.orders \cup {o}, s.next + 1)
  BY <1>3 DEF ShopOf
<1> HIDE DEF t
<1>7. /\ t.cart = [s.cart EXCEPT ![b] = 0] /\ t.lines = [s.lines EXCEPT ![b] = <<>>]
      /\ t.orders = s.orders \cup {o} /\ t.next = s.next + 1 /\ t \in ShopOf(t.cart, t.lines, t.orders, t.next)
  BY <1>6 DEF ShopOf
<1>8. Sound(t)
  <2>1. \A p \in t.orders : p.id < t.next /\ (p.id = 1 => p.owner = One)
    BY <1>3, <1>4, <1>7 DEF Sound, Order
  <2>2. \A p, q \in t.orders : p.id = q.id => p = q
    <3>1. \A p \in s.orders : p.id # o.id
      BY <1>3, <1>4 DEF Sound, Order
    <3> QED
      BY <1>7, <3>1 DEF Sound
  <2>3. t.next \in Nat /\ t.next > 2 /\ t.orders \in SUBSET Order
    BY <1>3, <1>4, <1>7 DEF Sound
  <2>4. t.cart \in [Buyer -> Nat] /\ t.lines = [c \in Buyer |-> t.lines[c]]
    BY <1>7 DEF Sound
  <2> QED
    BY <1>7, <2>1, <2>2, <2>3, <2>4 DEF Sound
<1>9. t.lines[b] = <<>> /\ o \in t.orders
  BY <1>7 DEF Sound
<1>10. Leaves(b, s, t)
  BY <1>4, <1>7 DEF Leaves, Sound
<1>11. /\ Says(r.answer, "status", 201) /\ Says(r.answer, "state", "pending_payment")
       /\ Says(r.answer, "order", s.next)
  BY <1>2 DEF Says
<1>12. IsOrdered(t, b, r.answer, "pending_payment")
  BY <1>5, <1>9, <1>11 DEF IsOrdered, Says
<1> QED
  BY <1>2, <1>8, <1>10, <1>11, <1>12

\* The order an answer named is the only one of that number.
LEMMA OwnedOne ==
  ASSUME NEW s, Sound(s), NEW b \in Buyer, NEW o \in s.orders, o.owner = b
  PROVE  /\ Owned(s, b, o.id) = {o} /\ {o} # {} /\ (CHOOSE p \in {o} : TRUE) = o
<1>1. Owned(s, b, o.id) = {o}
  BY DEF Owned, Sound
<1> QED
  BY <1>1

\* POST /orders/:id/payment-attempts for an order that is not paid.
LEMMA AttemptSettles ==
  ASSUME NEW s, Sound(s), NEW b \in Buyer, NEW a, NEW state \in State, IsOrdered(s, b, a, state), state # "paid",
         NEW outcome \in {"success", "fail"}, NEW r, r = CreateAttempt(s, b, a["order"], outcome)
  PROVE  /\ Sound(r.shop) /\ Leaves(b, s, r.shop)
         /\ IsOrdered(r.shop, b, a, IF outcome = "success" THEN "paid" ELSE "payment_failed")
         /\ Says(r.answer, "status", 201)
         /\ Says(r.answer, "attempt", IF outcome = "success" THEN "succeeded" ELSE "failed")
<1> DEFINE o == [id |-> a["order"], owner |-> b, state |-> state]
           to == IF outcome = "success" THEN "paid" ELSE "payment_failed"
           p == [id |-> a["order"], owner |-> b, state |-> to]
           t == [s EXCEPT !.orders = (@ \ {o}) \cup {[o EXCEPT !.state = to]}]
<1>1. o \in s.orders /\ o.owner = b /\ o.id = a["order"] /\ o.state # "paid"
  BY DEF IsOrdered
<1>2. Owned(s, b, a["order"]) = {o} /\ {o} # {} /\ (CHOOSE q \in {o} : TRUE) = o
  BY <1>1, OwnedOne
<1>3. outcome # "fail_without_code"
  OBVIOUS
<1> HIDE DEF o
<1>4. r.shop = t /\ r.answer = [status |-> 201, attempt |-> IF outcome = "success" THEN "succeeded" ELSE "failed"]
  BY <1>1, <1>2, <1>3 DEF CreateAttempt, Reply
<1>5. s \in ShopOf(s.cart, s.lines, s.orders, s.next)
  BY DEF Sound
<1>6. [o EXCEPT !.state = to] = p
  BY DEF o
<1>7. p \in Order /\ p.id = o.id /\ p.owner = o.owner /\ o \in Order
  <2>1. o \in Order /\ a["order"] \in Nat
    BY <1>1 DEF Order, Sound
  <2>2. to \in State
    BY DEF State
  <2> HIDE DEF to
  <2>3. p \in Order /\ p.id = a["order"] /\ p.owner = b
    BY <2>1, <2>2, OrderTyped
  <2> QED
    BY <1>1, <2>1, <2>3
<1> HIDE DEF p
<1>8. t \in ShopOf(s.cart, s.lines, (s.orders \ {o}) \cup {p}, s.next)
  BY <1>5, <1>6 DEF ShopOf
<1> HIDE DEF t
<1>9. /\ t.cart = s.cart /\ t.lines = s.lines /\ t.orders = (s.orders \ {o}) \cup {p}
      /\ t.next = s.next /\ t \in ShopOf(t.cart, t.lines, t.orders, t.next)
  BY <1>8 DEF ShopOf
<1>10. Sound(t)
  <2>1. \A q \in t.orders : q.id < t.next /\ (q.id = 1 => q.owner = One)
    BY <1>1, <1>7, <1>9 DEF Sound
  <2>2. \A q, u \in t.orders : q.id = u.id => q = u
    <3>1. \A q \in s.orders \ {o} : q.id # p.id
      BY <1>1, <1>7 DEF Sound
    <3> QED
      BY <1>9, <3>1 DEF Sound
  <2>3. t.orders \in SUBSET Order
    BY <1>7, <1>9 DEF Sound
  <2> QED
    BY <1>9, <2>1, <2>2, <2>3 DEF Sound
<1>11. Leaves(b, s, t)
  BY <1>1, <1>7, <1>9 DEF Leaves
<1>12. /\ Says(r.answer, "status", 201)
       /\ Says(r.answer, "attempt", IF outcome = "success" THEN "succeeded" ELSE "failed")
  BY <1>4 DEF Says
<1>13. IsOrdered(t, b, a, to)
  BY <1>9 DEF IsOrdered, p
<1> QED
  BY <1>4, <1>10, <1>11, <1>12, <1>13

\* GET /orders/:id of one's own order shows its state.
LEMMA OrderShows ==
  ASSUME NEW s, Sound(s), NEW b \in Buyer, NEW a, NEW state \in State, IsOrdered(s, b, a, state),
         NEW r, r = GetOrder(s, b, a["order"])
  PROVE  r.shop = s /\ Says(r.answer, "status", 200) /\ Says(r.answer, "state", state)
<1> DEFINE o == [id |-> a["order"], owner |-> b, state |-> state]
<1>1. o \in s.orders /\ o.owner = b /\ o.id = a["order"] /\ o.state = state
  BY DEF IsOrdered
<1>2. Owned(s, b, a["order"]) = {o} /\ {o} # {} /\ (CHOOSE q \in {o} : TRUE) = o
  BY <1>1, OwnedOne
<1> HIDE DEF o
<1>3. r.shop = s /\ r.answer = [status |-> 200, state |-> state]
  BY <1>1, <1>2 DEF GetOrder, Reply
<1> QED
  BY <1>3 DEF Says

\* What is refused whatever the shop holds: a quantity of zero, an attempt without a failure code,
\* the first order for another buyer than its owner, and a checkout of an empty cart.
LEMMA Refusals ==
  ASSUME NEW s, Sound(s), NEW b \in Buyer, NEW x
  PROVE  /\ UpdateItem(s, b, x, 0) = Refuse(s, 400)
         /\ CreateAttempt(s, b, x, "fail_without_code") = Refuse(s, 400)
         /\ GetOrder(s, Two, 1) = Refuse(s, 404)
         /\ s.lines[b] = <<>> => CreateOrder(s, b, x) = Refuse(s, 409)
<1>1. UpdateItem(s, b, x, 0) = Refuse(s, 400)
  BY DEF UpdateItem
<1>2. CreateAttempt(s, b, x, "fail_without_code") = Refuse(s, 400)
  BY DEF CreateAttempt
<1>3. Owned(s, Two, 1) = {}
  BY DEF Owned, Sound, One, Two
<1>4. GetOrder(s, Two, 1) = Refuse(s, 404)
  BY <1>3 DEF GetOrder
<1>5. s.lines[b] = <<>> => CreateOrder(s, b, x) = Refuse(s, 409)
  BY DEF CreateOrder
<1> QED
  BY <1>1, <1>2, <1>4, <1>5

-----------------------------------------------------------------------------
(* What holds between two steps of a scenario. *)

\* A cut: what a scenario of the buyer who relies on, in the shop and in the answer to the step of.
Cut(kind, who, of, state) == [kind |-> kind, who |-> who, of |-> of, state |-> state]

\* The cuts of the scenarios; "of" is the step whose answer they refer to.
Free(b) == Cut("free", b, "", "")
Seeded1 == Cut("seeded", One, "", "")
Seen(of) == Cut("seen", One, of, "")
Looked(b, of) == Cut("looked", b, of, "")
Filled(b, of) == Cut("filled", b, of, "")
Ordered(b, of, state) == Cut("ordered", b, of, state)

\* The only line in the cart of the buyer is the seeded one.
HasSeededLine(s, b) == \E l \in Line : s.lines[b] = <<l>> /\ l.id = 1

\* The answer shows a cart without a line.
ShowsEmpty(answer) == "cart" \in DOMAIN answer /\ "line" \notin DOMAIN answer

\* What a cut says of the shop and of the answers so far.
Holds(c, s, context) ==
  /\ c.kind = "free" => IsFree(s, c.who)
  /\ c.kind = "seeded" => HasSeededLine(s, c.who)
  /\ c.kind = "seen" => /\ HasSeededLine(s, c.who)
                       /\ c.of \in DOMAIN context /\ "line" \in DOMAIN context[c.of]
  /\ c.kind = "looked" => s.lines[c.who] = <<>> /\ c.of \in DOMAIN context /\ ShowsEmpty(context[c.of])
  /\ c.kind = "filled" => c.of \in DOMAIN context /\ IsFilled(s, c.who, context[c.of])
  /\ c.kind = "ordered" => c.of \in DOMAIN context /\ IsOrdered(s, c.who, context[c.of], c.state)

\* The step passes, or is one that need not be sent.
Accepts(step, s, context) ==
  \/ Passes(step, Send(s, step, context).answer)
  \/ step.optional /\ ~IsResolved(step, context)

\* From any state with the cut c the step passes and leads to one with the cut d, and what it does
\* to the shop concerns at most the buyer who.
Leads(c, step, d, who) ==
  \A s, context :
    Sound(s) /\ Holds(c, s, context) =>
      /\ Accepts(step, s, context)
      /\ Sound(Send(s, step, context).shop) /\ Leaves(who, s, Send(s, step, context).shop)
      /\ Holds(d, Send(s, step, context).shop, With(context, step.id, Send(s, step, context).answer))

\* An expectation of a status and of at most one field more.
Expects(expect, status, field, value) ==
  \A f \in DOMAIN expect : \/ f = "status" /\ expect[f] = status
                           \/ f = field /\ expect[f] = value

\* An answer passes when it says what is expected of it.
LEMMA PassesWhen ==
  ASSUME NEW step, NEW answer, NEW status, NEW field, NEW value,
         Expects(step.expect, status, field, value), Says(answer, "status", status), Says(answer, field, value)
  PROVE  Passes(step, answer)
BY DEF Passes, Expects, Says

\* A step that is sent in earnest, with these fields.
HasFields(step, id, call, who, row, value, expect) ==
  /\ step.id = id /\ step.call = call /\ step.who = who /\ step.row = row /\ step.value = value
  /\ step.expect = expect /\ step.fault = FALSE

\* The fields of a row.
LEMMA RowFields ==
  ASSUME NEW of, NEW field
  PROVE  From(of, field).of = of /\ From(of, field).field = field
BY DEF From

\* A row given by its number, and no row, come from no answer.
LEMMA GivenFields ==
  ASSUME NEW n
  PROVE  Given(n).of = "" /\ Given(n).given = n /\ NoRow.of = ""
BY DEF Given, NoRow

\* The id of a step is not empty.
Named(id) == id # ""

\* The row of a step when an earlier answer names it.
LEMMA FromRow ==
  ASSUME NEW step, NEW context, NEW of, Named(of), NEW field, step.row = From(of, field),
         of \in DOMAIN context, field \in DOMAIN context[of]
  PROVE  IsResolved(step, context) /\ Subject(step, context) = context[of][field]
<1>1. step.row.of = From(of, field).of /\ step.row.field = From(of, field).field
  OBVIOUS
<1>2. From(of, field).of = of /\ From(of, field).field = field
  BY RowFields
<1>3. step.row.of = of /\ step.row.field = field
  BY <1>1, <1>2
<1> QED
  BY <1>3 DEF IsResolved, Subject, Named

\* The row of a step that is given its number.
LEMMA GivenRow ==
  ASSUME NEW step, NEW context, NEW n, step.row = Given(n)
  PROVE  IsResolved(step, context) /\ Subject(step, context) = n
<1>1. step.row.of = "" /\ step.row.given = n
  BY GivenFields
<1> QED
  BY <1>1 DEF IsResolved, Subject

\* What the backend makes of a step whose row is known.
LEMMA Sends ==
  ASSUME NEW s, NEW step, NEW context, step.fault = FALSE, IsResolved(step, context)
  PROVE  /\ step.call = "cart" => Send(s, step, context) = GetCart(s, step.who)
         /\ step.call = "add" => Send(s, step, context) = AddItem(s, step.who, step.value)
         /\ step.call = "update" => Send(s, step, context) = UpdateItem(s, step.who, Subject(step, context), step.value)
         /\ step.call = "delete" => Send(s, step, context) = DeleteItem(s, step.who, Subject(step, context))
         /\ step.call = "order" => Send(s, step, context) = CreateOrder(s, step.who, Subject(step, context))
         /\ step.call = "pay" => Send(s, step, context) = CreateAttempt(s, step.who, Subject(step, context), step.value)
         /\ step.call = "show" => Send(s, step, context) = GetOrder(s, step.who, Subject(step, context))
BY DEF Send

\* The answers after one more of them.
LEMMA WithAt ==
  ASSUME NEW f, NEW x, NEW y
  PROVE  /\ x \in DOMAIN With(f, x, y) /\ With(f, x, y)[x] = y
         /\ \A z \in DOMAIN f \ {x} : z \in DOMAIN With(f, x, y) /\ With(f, x, y)[z] = f[z]
BY DEF With

\* What the cuts say, each by its constructor: a cart the buyer can add to and order.
LEMMA FreeCut ==
  ASSUME NEW b, NEW s, NEW context
  PROVE  Holds(Free(b), s, context) <=> IsFree(s, b)
BY DEF Holds, Free, Cut

\* The seeded line is in the cart.
LEMMA SeededCut ==
  ASSUME NEW s, NEW context
  PROVE  Holds(Seeded1, s, context) <=> HasSeededLine(s, One)
BY DEF Holds, Seeded1, Cut

\* An answer has shown the cart with the seeded line.
LEMMA SeenCut ==
  ASSUME NEW of, NEW s, NEW context
  PROVE  Holds(Seen(of), s, context)
           <=> HasSeededLine(s, One) /\ of \in DOMAIN context /\ "line" \in DOMAIN context[of]
BY DEF Holds, Seen, Cut

\* An answer has shown the cart without a line.
LEMMA LookedCut ==
  ASSUME NEW b, NEW of, NEW s, NEW context
  PROVE  Holds(Looked(b, of), s, context)
           <=> s.lines[b] = <<>> /\ of \in DOMAIN context /\ ShowsEmpty(context[of])
BY DEF Holds, Looked, Cut

\* An answer has named the cart and its only line.
LEMMA FilledCut ==
  ASSUME NEW b, NEW of, NEW s, NEW context
  PROVE  Holds(Filled(b, of), s, context) <=> of \in DOMAIN context /\ IsFilled(s, b, context[of])
BY DEF Holds, Filled, Cut

\* An answer has named an order of that state, and the cart is empty.
LEMMA OrderedCut ==
  ASSUME NEW b, NEW of, NEW state, NEW s, NEW context
  PROVE  Holds(Ordered(b, of, state), s, context)
           <=> of \in DOMAIN context /\ IsOrdered(s, b, context[of], state)
BY DEF Holds, Ordered, Cut

\* What a step has to do from a cut, with r for what the backend makes of it.
Does(step, s, context, r, d, who) ==
  /\ Passes(step, r.answer) \/ (step.optional /\ ~IsResolved(step, context))
  /\ Sound(r.shop) /\ Leaves(who, s, r.shop)
  /\ Holds(d, r.shop, With(context, step.id, r.answer))

\* A step leads from one cut to the next if it does so on every sound shop.
LEMMA LeadsWhen ==
  ASSUME NEW c, NEW step, NEW d, NEW who,
         \A s, context, r : Sound(s) /\ Holds(c, s, context) /\ r = Send(s, step, context)
                              => Does(step, s, context, r, d, who)
  PROVE  Leads(c, step, d, who)
BY DEF Leads, Does, Accepts

\* POST /cart/items
LEMMA AddLeads ==
  ASSUME NEW b \in Buyer, NEW V \in {"notebook", "mug"}, b = One => V = "notebook", NEW id, NEW expect,
         Expects(expect, 201, "owner", b) \/ Expects(expect, 201, "variant", V)
  PROVE  Leads(Free(b), Step(id, "add", b, NoRow, V, expect), Filled(b, id), b)
<1> DEFINE step == Step(id, "add", b, NoRow, V, expect)
<1>a. HasFields(step, id, "add", b, NoRow, V, expect)
  BY DEF Step, HasFields
<1> HIDE DEF step
<1>1. /\ step.id = id /\ step.call = "add" /\ step.who = b /\ step.row = Given(0) /\ step.value = V
      /\ step.expect = expect /\ step.fault = FALSE
  BY <1>a DEF HasFields, NoRow
<1>2. ASSUME NEW s, NEW context, NEW r, Sound(s), Holds(Free(b), s, context), r = Send(s, step, context)
      PROVE  Does(step, s, context, r, Filled(b, id), b)
  <2>1. IsResolved(step, context)
    BY <1>1, GivenRow
  <2>2. r = AddItem(s, b, V)
    BY <1>1, <1>2, <2>1, Sends
  <2>3. IsFree(s, b)
    BY <1>2, FreeCut
  <2>4. /\ Sound(r.shop) /\ Leaves(b, s, r.shop) /\ IsFilled(r.shop, b, r.answer)
        /\ Says(r.answer, "status", 201) /\ Says(r.answer, "owner", b) /\ Says(r.answer, "variant", V)
    BY <1>2, <2>2, <2>3, AddFills
  <2>5. Passes(step, r.answer)
    BY <1>1, <2>4, PassesWhen
  <2>6. Holds(Filled(b, id), r.shop, With(context, id, r.answer))
    BY <2>4, WithAt, FilledCut
  <2> QED
    BY <1>1, <2>4, <2>5, <2>6 DEF Does
<1> QED
  BY <1>2, LeadsWhen DEF step

\* PATCH /cart/items/:id
LEMMA UpdateLeads ==
  ASSUME NEW b \in Buyer, NEW a, Named(a), NEW id, NEW q \in 1..MaxQuantity, NEW expect,
         Expects(expect, 200, "quantity", q)
  PROVE  Leads(Filled(b, a), Step(id, "update", b, From(a, "line"), q, expect), Filled(b, id), b)
<1> DEFINE step == Step(id, "update", b, From(a, "line"), q, expect)
<1>a. HasFields(step, id, "update", b, From(a, "line"), q, expect)
  BY DEF Step, HasFields
<1> HIDE DEF step
<1>1. /\ step.id = id /\ step.call = "update" /\ step.who = b /\ step.row = From(a, "line") /\ step.value = q
      /\ step.expect = expect /\ step.fault = FALSE
  BY <1>a DEF HasFields
<1>2. ASSUME NEW s, NEW context, NEW r, Sound(s), Holds(Filled(b, a), s, context), r = Send(s, step, context)
      PROVE  Does(step, s, context, r, Filled(b, id), b)
  <2>1. a \in DOMAIN context /\ IsFilled(s, b, context[a])
    BY <1>2, FilledCut
  <2>2. "line" \in DOMAIN context[a]
    BY <2>1 DEF IsFilled
  <2>3. IsResolved(step, context) /\ Subject(step, context) = context[a]["line"]
    BY <1>1, <2>1, <2>2, FromRow
  <2>4. r = UpdateItem(s, b, context[a]["line"], q)
    BY <1>1, <1>2, <2>3, Sends
  <2>5. /\ Sound(r.shop) /\ Leaves(b, s, r.shop) /\ IsFilled(r.shop, b, r.answer)
        /\ Says(r.answer, "status", 200) /\ Says(r.answer, "quantity", q)
    BY <1>2, <2>1, <2>4, UpdateFills
  <2>6. Passes(step, r.answer)
    BY <1>1, <2>5, PassesWhen
  <2>7. Holds(Filled(b, id), r.shop, With(context, id, r.answer))
    BY <2>5, WithAt, FilledCut
  <2> QED
    BY <1>1, <2>5, <2>6, <2>7 DEF Does
<1> QED
  BY <1>2, LeadsWhen DEF step

\* POST /orders of a cart with a line.
LEMMA OrderLeads ==
  ASSUME NEW b \in Buyer, NEW a, Named(a), NEW id, NEW expect, Expects(expect, 201, "state", "pending_payment")
  PROVE  Leads(Filled(b, a), Step(id, "order", b, From(a, "cart"), "", expect),
               Ordered(b, id, "pending_payment"), b)
<1> DEFINE step == Step(id, "order", b, From(a, "cart"), "", expect)
<1>a. HasFields(step, id, "order", b, From(a, "cart"), "", expect)
  BY DEF Step, HasFields
<1> HIDE DEF step
<1>1. /\ step.id = id /\ step.call = "order" /\ step.who = b /\ step.row = From(a, "cart")
      /\ step.expect = expect /\ step.fault = FALSE
  BY <1>a DEF HasFields
<1>2. ASSUME NEW s, NEW context, NEW r, Sound(s), Holds(Filled(b, a), s, context), r = Send(s, step, context)
      PROVE  Does(step, s, context, r, Ordered(b, id, "pending_payment"), b)
  <2>1. a \in DOMAIN context /\ IsFilled(s, b, context[a])
    BY <1>2, FilledCut
  <2>2. "cart" \in DOMAIN context[a]
    BY <2>1 DEF IsFilled
  <2>3. IsResolved(step, context) /\ Subject(step, context) = context[a]["cart"]
    BY <1>1, <2>1, <2>2, FromRow
  <2>4. r = CreateOrder(s, b, context[a]["cart"])
    BY <1>1, <1>2, <2>3, Sends
  <2>5. /\ Sound(r.shop) /\ Leaves(b, s, r.shop) /\ IsOrdered(r.shop, b, r.answer, "pending_payment")
        /\ Says(r.answer, "status", 201) /\ Says(r.answer, "state", "pending_payment")
    BY <1>2, <2>1, <2>4, OrderCreates
  <2>6. Passes(step, r.answer)
    BY <1>1, <2>5, PassesWhen
  <2>7. Holds(Ordered(b, id, "pending_payment"), r.shop, With(context, id, r.answer))
    BY <2>5, WithAt, OrderedCut
  <2> QED
    BY <1>1, <2>5, <2>6, <2>7 DEF Does
<1> QED
  BY <1>2, LeadsWhen DEF step

\* How a payment attempt may turn out, and what it does to the order and says of itself.
Outcome == {"success", "fail"}
StateAfter(outcome) == IF outcome = "success" THEN "paid" ELSE "payment_failed"
AttemptAfter(outcome) == IF outcome = "success" THEN "succeeded" ELSE "failed"

\* POST /orders/:id/payment-attempts of an order that may be paid.
LEMMA PayLeads ==
  ASSUME NEW b \in Buyer, NEW a, Named(a), NEW id, id # a, NEW state \in State, state # "paid",
         NEW outcome \in Outcome, NEW expect, Expects(expect, 201, "attempt", AttemptAfter(outcome))
  PROVE  Leads(Ordered(b, a, state), Step(id, "pay", b, From(a, "order"), outcome, expect),
               Ordered(b, a, StateAfter(outcome)), b)
<1> DEFINE step == Step(id, "pay", b, From(a, "order"), outcome, expect)
<1>a. HasFields(step, id, "pay", b, From(a, "order"), outcome, expect)
  BY DEF Step, HasFields
<1> HIDE DEF step
<1>1. /\ step.id = id /\ step.call = "pay" /\ step.who = b /\ step.row = From(a, "order") /\ step.value = outcome
      /\ step.expect = expect /\ step.fault = FALSE
  BY <1>a DEF HasFields
<1>2. ASSUME NEW s, NEW context, NEW r, Sound(s), Holds(Ordered(b, a, state), s, context),
             r = Send(s, step, context)
      PROVE  Does(step, s, context, r, Ordered(b, a, StateAfter(outcome)), b)
  <2>1. a \in DOMAIN context /\ IsOrdered(s, b, context[a], state)
    BY <1>2, OrderedCut
  <2>2. "order" \in DOMAIN context[a]
    BY <2>1 DEF IsOrdered
  <2>3. IsResolved(step, context) /\ Subject(step, context) = context[a]["order"]
    BY <1>1, <2>1, <2>2, FromRow
  <2>4. r = CreateAttempt(s, b, context[a]["order"], outcome)
    BY <1>1, <1>2, <2>3, Sends
  <2>5. /\ Sound(r.shop) /\ Leaves(b, s, r.shop) /\ IsOrdered(r.shop, b, context[a], StateAfter(outcome))
        /\ Says(r.answer, "status", 201) /\ Says(r.answer, "attempt", AttemptAfter(outcome))
    BY <1>2, <2>1, <2>4, AttemptSettles DEF Outcome, StateAfter, AttemptAfter
  <2>6. Passes(step, r.answer)
    BY <1>1, <2>5, PassesWhen
  <2>7. a \in DOMAIN With(context, id, r.answer) /\ With(context, id, r.answer)[a] = context[a]
    BY <2>1, WithAt
  <2>8. Holds(Ordered(b, a, StateAfter(outcome)), r.shop, With(context, id, r.answer))
    BY <2>5, <2>7, OrderedCut
  <2> QED
    BY <1>1, <2>5, <2>6, <2>8 DEF Does
<1> QED
  BY <1>2, LeadsWhen DEF step

\* GET /orders/:id of the order an answer named.
LEMMA ShowLeads ==
  ASSUME NEW b \in Buyer, NEW a, Named(a), NEW id, id # a, NEW state \in State, NEW expect,
         Expects(expect, 200, "state", state)
  PROVE  Leads(Ordered(b, a, state), Step(id, "show", b, From(a, "order"), "", expect), Ordered(b, a, state), b)
<1> DEFINE step == Step(id, "show", b, From(a, "order"), "", expect)
<1>a. HasFields(step, id, "show", b, From(a, "order"), "", expect)
  BY DEF Step, HasFields
<1> HIDE DEF step
<1>1. /\ step.id = id /\ step.call = "show" /\ step.who = b /\ step.row = From(a, "order")
      /\ step.expect = expect /\ step.fault = FALSE
  BY <1>a DEF HasFields
<1>2. ASSUME NEW s, NEW context, NEW r, Sound(s), Holds(Ordered(b, a, state), s, context),
             r = Send(s, step, context)
      PROVE  Does(step, s, context, r, Ordered(b, a, state), b)
  <2>1. a \in DOMAIN context /\ IsOrdered(s, b, context[a], state)
    BY <1>2, OrderedCut
  <2>2. "order" \in DOMAIN context[a]
    BY <2>1 DEF IsOrdered
  <2>3. IsResolved(step, context) /\ Subject(step, context) = context[a]["order"]
    BY <1>1, <2>1, <2>2, FromRow
  <2>4. r = GetOrder(s, b, context[a]["order"])
    BY <1>1, <1>2, <2>3, Sends
  <2>5. r.shop = s /\ Says(r.answer, "status", 200) /\ Says(r.answer, "state", state)
    BY <1>2, <2>1, <2>4, OrderShows
  <2>6. Passes(step, r.answer)
    BY <1>1, <2>5, PassesWhen
  <2>7. a \in DOMAIN With(context, id, r.answer) /\ With(context, id, r.answer)[a] = context[a]
    BY <2>1, WithAt
  <2>8. Holds(Ordered(b, a, state), r.shop, With(context, id, r.answer))
    BY <2>1, <2>5, <2>7, OrderedCut
  <2> QED
    BY <1>1, <1>2, <2>5, <2>6, <2>8, LeavesItself DEF Does
<1> QED
  BY <1>2, LeadsWhen DEF step

\* DELETE /cart/items/:id of the only line.
LEMMA DeleteLeads ==
  ASSUME NEW b \in Buyer, NEW a, Named(a), NEW id, NEW expect, Expects(expect, 200, "owner", b)
  PROVE  Leads(Filled(b, a), Step(id, "delete", b, From(a, "line"), "", expect), Free(b), b)
<1> DEFINE step == Step(id, "delete", b, From(a, "line"), "", expect)
<1>a. HasFields(step, id, "delete", b, From(a, "line"), "", expect)
  BY DEF Step, HasFields
<1> HIDE DEF step
<1>1. /\ step.id = id /\ step.call = "delete" /\ step.who = b /\ step.row = From(a, "line")
      /\ step.expect = expect /\ step.fault = FALSE
  BY <1>a DEF HasFields
<1>2. ASSUME NEW s, NEW context, NEW r, Sound(s), Holds(Filled(b, a), s, context), r = Send(s, step, context)
      PROVE  Does(step, s, context, r, Free(b), b)
  <2>1. a \in DOMAIN context /\ IsFilled(s, b, context[a])
    BY <1>2, FilledCut
  <2>2. "line" \in DOMAIN context[a]
    BY <2>1 DEF IsFilled
  <2>3. IsResolved(step, context) /\ Subject(step, context) = context[a]["line"]
    BY <1>1, <2>1, <2>2, FromRow
  <2>4. r = DeleteItem(s, b, context[a]["line"])
    BY <1>1, <1>2, <2>3, Sends
  <2>5. /\ Sound(r.shop) /\ Leaves(b, s, r.shop) /\ r.shop.lines[b] = <<>>
        /\ Says(r.answer, "status", 200) /\ Says(r.answer, "owner", b)
    BY <1>2, <2>1, <2>4, DeleteEmpties
  <2>6. Passes(step, r.answer)
    BY <1>1, <2>5, PassesWhen
  <2>7. IsFree(r.shop, b)
    BY <2>5 DEF IsFree
  <2>8. Holds(Free(b), r.shop, With(context, id, r.answer))
    BY <2>7, FreeCut
  <2> QED
    BY <1>1, <2>5, <2>6, <2>8 DEF Does
<1> QED
  BY <1>2, LeadsWhen DEF step

\* What leaves everybody alone leaves everybody else alone.
LEMMA LeavesMore == ASSUME NEW s, NEW t, Leaves("nobody", s, t), NEW who PROVE Leaves(who, s, t)
BY DEF Leaves, Buyer, One, Two

\* A cart that holds nothing may be filled.
LEMMA EmptyIsFree == ASSUME NEW s, NEW b, s.lines[b] = <<>> PROVE IsFree(s, b)
BY DEF IsFree

\* Only buyer one may start with a line.
LEMMA FreeTwo == ASSUME NEW s, IsFree(s, Two) PROVE s.lines[Two] = <<>>
BY DEF IsFree, One, Two

\* GET /cart of the buyer without one: the answer shows an empty cart.
LEMMA LookLeads ==
  ASSUME NEW id, NEW expect, Expects(expect, 200, "owner", Two)
  PROVE  /\ Leads(Free(Two), Step(id, "cart", Two, NoRow, "", expect), Looked(Two, id), "nobody")
         /\ Leads(Free(Two), Step(id, "cart", Two, NoRow, "", expect), Free(Two), "nobody")
<1> DEFINE step == Step(id, "cart", Two, NoRow, "", expect)
<1>a. HasFields(step, id, "cart", Two, NoRow, "", expect)
  BY DEF Step, HasFields
<1> HIDE DEF step
<1>1. /\ step.id = id /\ step.call = "cart" /\ step.who = Two /\ step.row = Given(0)
      /\ step.expect = expect /\ step.fault = FALSE
  BY <1>a DEF HasFields, NoRow
<1>2. ASSUME NEW s, NEW context, NEW r, Sound(s), Holds(Free(Two), s, context), r = Send(s, step, context)
      PROVE  Does(step, s, context, r, Looked(Two, id), "nobody") /\ Does(step, s, context, r, Free(Two), "nobody")
  <2>1. IsResolved(step, context)
    BY <1>1, GivenRow
  <2>2. r = GetCart(s, Two)
    BY <1>1, <1>2, <2>1, Sends
  <2>3. s.lines[Two] = <<>>
    BY <1>2, FreeCut, FreeTwo
  <2>4. /\ Sound(r.shop) /\ Leaves("nobody", s, r.shop) /\ r.shop.lines = s.lines
        /\ Says(r.answer, "status", 200) /\ Says(r.answer, "owner", Two) /\ "cart" \in DOMAIN r.answer
        /\ s.lines[Two] = <<>> => "line" \notin DOMAIN r.answer
    BY ZenonT(60), <1>2, <2>2, GetCartAnswers DEF Buyer
  <2>5. Passes(step, r.answer)
    BY <1>1, <2>4, PassesWhen
  <2>6. ShowsEmpty(r.answer) /\ r.shop.lines[Two] = <<>>
    BY <2>3, <2>4 DEF ShowsEmpty
  <2>7. Holds(Looked(Two, id), r.shop, With(context, id, r.answer))
    BY <2>6, WithAt, LookedCut
  <2>8. Holds(Free(Two), r.shop, With(context, id, r.answer))
    BY <2>6, EmptyIsFree, FreeCut
  <2> QED
    BY <1>1, <2>4, <2>5, <2>7, <2>8 DEF Does
<1> QED
  BY <1>2, LeadsWhen DEF step

\* POST /orders of a cart that was shown empty.
LEMMA ConflictLeads ==
  ASSUME NEW a, Named(a), NEW id, NEW expect, Expects(expect, 409, "status", 409)
  PROVE  Leads(Looked(Two, a), Step(id, "order", Two, From(a, "cart"), "", expect), Free(Two), "nobody")
<1> DEFINE step == Step(id, "order", Two, From(a, "cart"), "", expect)
<1>a. HasFields(step, id, "order", Two, From(a, "cart"), "", expect)
  BY DEF Step, HasFields
<1> HIDE DEF step
<1>1. /\ step.id = id /\ step.call = "order" /\ step.who = Two /\ step.row = From(a, "cart")
      /\ step.expect = expect /\ step.fault = FALSE
  BY <1>a DEF HasFields
<1>2. ASSUME NEW s, NEW context, NEW r, Sound(s), Holds(Looked(Two, a), s, context), r = Send(s, step, context)
      PROVE  Does(step, s, context, r, Free(Two), "nobody")
  <2>1. s.lines[Two] = <<>> /\ a \in DOMAIN context /\ ShowsEmpty(context[a])
    BY <1>2, LookedCut
  <2>2. "cart" \in DOMAIN context[a]
    BY <2>1 DEF ShowsEmpty
  <2>3. IsResolved(step, context)
    BY <1>1, <2>1, <2>2, FromRow
  <2>4. r = CreateOrder(s, Two, Subject(step, context))
    BY <1>1, <1>2, <2>3, Sends
  <2>5. r = Refuse(s, 409)
    BY <1>2, <2>1, <2>4, Refusals DEF Buyer
  <2>6. r.shop = s /\ Says(r.answer, "status", 409)
    BY <2>5 DEF Refuse, Reply, Says
  <2>7. Passes(step, r.answer)
    BY <1>1, <2>6, PassesWhen
  <2>8. Holds(Free(Two), r.shop, With(context, id, r.answer))
    BY <2>1, <2>6, EmptyIsFree, FreeCut
  <2> QED
    BY <1>1, <1>2, <2>6, <2>7, <2>8, LeavesItself DEF Does
<1> QED
  BY <1>2, LeadsWhen DEF step

\* The cleanup of a line that was not there is not sent.
LEMMA CleanupLeads ==
  ASSUME NEW a, Named(a), NEW id, id # a, NEW step, step.id = id, step.fault = FALSE, step.optional = TRUE,
         step.row = From(a, "line")
  PROVE  Leads(Looked(Two, a), step, Looked(Two, a), "nobody")
<1>1. ASSUME NEW s, NEW context, NEW r, Sound(s), Holds(Looked(Two, a), s, context), r = Send(s, step, context)
      PROVE  Does(step, s, context, r, Looked(Two, a), "nobody")
  <2>1. s.lines[Two] = <<>> /\ a \in DOMAIN context /\ ShowsEmpty(context[a])
    BY <1>1, LookedCut
  <2>2. "line" \notin DOMAIN context[a]
    BY <2>1 DEF ShowsEmpty
  <2>3. step.row.of = a /\ step.row.field = "line"
    <3>1. step.row.of = From(a, "line").of /\ step.row.field = From(a, "line").field
      OBVIOUS
    <3> QED
      BY <3>1, RowFields
  <2>4. ~IsResolved(step, context)
    BY <2>2, <2>3 DEF IsResolved, Named
  <2>5. r.shop = s
    BY <1>1, <2>4 DEF Send, Refuse, Reply
  <2>6. a \in DOMAIN With(context, id, r.answer) /\ With(context, id, r.answer)[a] = context[a]
    BY <2>1, WithAt
  <2>7. Holds(Looked(Two, a), r.shop, With(context, id, r.answer))
    BY <2>1, <2>5, <2>6, LookedCut
  <2> QED
    BY <1>1, <2>4, <2>5, <2>7, LeavesItself DEF Does
<1> QED
  BY <1>1, LeadsWhen

\* GET /cart of the buyer with the seeded line: the answer shows that line.
LEMMA SeedLeads ==
  ASSUME NEW id, NEW expect, Expects(expect, 200, "line", 1)
  PROVE  /\ Leads(Seeded1, Step(id, "cart", One, NoRow, "", expect), Seen(id), "nobody")
         /\ Leads(Seeded1, Step(id, "cart", One, NoRow, "", expect), Seeded1, "nobody")
<1> DEFINE step == Step(id, "cart", One, NoRow, "", expect)
<1>a. HasFields(step, id, "cart", One, NoRow, "", expect)
  BY DEF Step, HasFields
<1> HIDE DEF step
<1>1. /\ step.id = id /\ step.call = "cart" /\ step.who = One /\ step.row = Given(0)
      /\ step.expect = expect /\ step.fault = FALSE
  BY <1>a DEF HasFields, NoRow
<1>2. ASSUME NEW s, NEW context, NEW r, Sound(s), Holds(Seeded1, s, context), r = Send(s, step, context)
      PROVE  Does(step, s, context, r, Seen(id), "nobody") /\ Does(step, s, context, r, Seeded1, "nobody")
  <2>1. IsResolved(step, context)
    BY <1>1, GivenRow
  <2>2. r = GetCart(s, One)
    BY <1>1, <1>2, <2>1, Sends
  <2>3. PICK l \in Line : s.lines[One] = <<l>> /\ l.id = 1
    BY <1>2, SeededCut DEF HasSeededLine
  <2>4. /\ Sound(r.shop) /\ Leaves("nobody", s, r.shop) /\ r.shop.lines = s.lines
        /\ Says(r.answer, "status", 200) /\ Says(r.answer, "line", l.id)
    BY ZenonT(60), <1>2, <2>2, <2>3, GetCartAnswers DEF Buyer
  <2>5. Passes(step, r.answer)
    BY <1>1, <2>3, <2>4, PassesWhen
  <2>6. HasSeededLine(r.shop, One) /\ "line" \in DOMAIN r.answer
    BY <2>3, <2>4 DEF HasSeededLine, Says
  <2>7. Holds(Seen(id), r.shop, With(context, id, r.answer))
    BY <2>6, WithAt, SeenCut
  <2>8. Holds(Seeded1, r.shop, With(context, id, r.answer))
    BY <2>6, SeededCut
  <2> QED
    BY <1>1, <2>4, <2>5, <2>7, <2>8 DEF Does
<1> QED
  BY <1>2, LeadsWhen DEF step

\* PATCH /cart/items/:id of the line that was shown, to nothing.
LEMMA SeenLeads ==
  ASSUME NEW a, Named(a), NEW id, NEW expect, Expects(expect, 400, "status", 400)
  PROVE  Leads(Seen(a), Step(id, "update", One, From(a, "line"), 0, expect), Seeded1, "nobody")
<1> DEFINE step == Step(id, "update", One, From(a, "line"), 0, expect)
<1>a. HasFields(step, id, "update", One, From(a, "line"), 0, expect)
  BY DEF Step, HasFields
<1> HIDE DEF step
<1>1. /\ step.id = id /\ step.call = "update" /\ step.who = One /\ step.row = From(a, "line") /\ step.value = 0
      /\ step.expect = expect /\ step.fault = FALSE
  BY <1>a DEF HasFields
<1>2. ASSUME NEW s, NEW context, NEW r, Sound(s), Holds(Seen(a), s, context), r = Send(s, step, context)
      PROVE  Does(step, s, context, r, Seeded1, "nobody")
  <2>1. HasSeededLine(s, One) /\ a \in DOMAIN context /\ "line" \in DOMAIN context[a]
    BY <1>2, SeenCut
  <2>2. IsResolved(step, context)
    BY <1>1, <2>1, FromRow
  <2>3. r = UpdateItem(s, One, Subject(step, context), 0)
    BY <1>1, <1>2, <2>2, Sends
  <2>4. r = Refuse(s, 400)
    BY <1>2, <2>3, Refusals DEF Buyer
  <2>5. r.shop = s /\ Says(r.answer, "status", 400)
    BY <2>4 DEF Refuse, Reply, Says
  <2>6. Passes(step, r.answer)
    BY <1>1, <2>5, PassesWhen
  <2>7. Holds(Seeded1, r.shop, With(context, id, r.answer))
    BY <2>1, <2>5, SeededCut
  <2> QED
    BY <1>1, <1>2, <2>5, <2>6, <2>7, LeavesItself DEF Does
<1> QED
  BY <1>2, LeadsWhen DEF step

-----------------------------------------------------------------------------
(* Steps that pass on any seeded shop and change nothing. *)

\* Sent on a sound shop it changes nothing, and its answer passes.
Quiet(step) ==
  \A s, context : Sound(s) => Send(s, step, context).shop = s /\ Passes(step, Send(s, step, context).answer)

\* A quiet step leads from a cut that is not about its answer to the same cut.
LEMMA QuietLeads ==
  ASSUME NEW step, Quiet(step), NEW b, NEW who
  PROVE  Leads(Free(b), step, Free(b), who) /\ Leads(Seeded1, step, Seeded1, who)
<1>1. ASSUME NEW s, NEW context, NEW r, Sound(s), r = Send(s, step, context)
      PROVE  r.shop = s /\ Passes(step, r.answer) /\ Leaves(who, s, r.shop)
  BY <1>1, LeavesItself DEF Quiet
<1>2. ASSUME NEW s, NEW context, NEW r, Sound(s), Holds(Free(b), s, context), r = Send(s, step, context)
      PROVE  Does(step, s, context, r, Free(b), who)
  <2>1. r.shop = s /\ Passes(step, r.answer) /\ Leaves(who, s, r.shop)
    BY <1>1, <1>2
  <2>2. Holds(Free(b), r.shop, With(context, step.id, r.answer))
    BY <1>2, <2>1, FreeCut
  <2> QED
    BY <1>2, <2>1, <2>2 DEF Does
<1>3. ASSUME NEW s, NEW context, NEW r, Sound(s), Holds(Seeded1, s, context), r = Send(s, step, context)
      PROVE  Does(step, s, context, r, Seeded1, who)
  <2>1. r.shop = s /\ Passes(step, r.answer) /\ Leaves(who, s, r.shop)
    BY <1>1, <1>3
  <2>2. Holds(Seeded1, r.shop, With(context, step.id, r.answer))
    BY <1>3, <2>1, SeededCut
  <2> QED
    BY <1>3, <2>1, <2>2 DEF Does
<1> QED
  BY <1>2, <1>3, LeadsWhen

\* The requests that only read.
Reads == {"health", "metrics", "newest", "cheapest", "missing", "notebook", "nothing", "short", "detail",
          "recommend", "too_many", "no_quantity", "no_route", "no_buyer"}

\* The reads answer what they always do of a seeded shop.
LEMMA ReadAnswers ==
  ASSUME NEW s, Sound(s), NEW call \in Reads, NEW expect, NEW context
  PROVE  Send(s, Read(call, expect), context) = Reply(s, SeededRead[call])
<1> DEFINE step == Read(call, expect)
<1>1. HasFields(step, call, call, "", NoRow, "", expect)
  BY DEF Read, Step, HasFields
<1> HIDE DEF step
<1>2. step.call = call /\ step.row = Given(0) /\ step.fault = FALSE
  BY <1>1 DEF HasFields, NoRow
<1>3. IsResolved(step, context)
  BY <1>2, GivenRow
<1>4. Send(s, step, context) = Reply(s, ReadAnswer(s, call))
  BY <1>2, <1>3 DEF Send, Reads
<1>5. s.seeded = TRUE
  BY DEF Sound, ShopOf
<1> QED
  BY <1>4, <1>5 DEF ReadAnswer, step

\* A read is quiet if what it expects is what it finds on the seeded shop.
LEMMA ReadQuiet ==
  ASSUME NEW call \in Reads, NEW expect,
         \A f \in DOMAIN expect : f \in DOMAIN SeededRead[call] /\ SeededRead[call][f] = expect[f]
  PROVE  Quiet(Read(call, expect))
<1> DEFINE step == Read(call, expect)
<1>1. HasFields(step, call, call, "", NoRow, "", expect)
  BY DEF Read, Step, HasFields
<1>2. ASSUME NEW s, NEW context, Sound(s)
      PROVE  Send(s, step, context).shop = s /\ Passes(step, Send(s, step, context).answer)
  <2>1. Send(s, step, context) = Reply(s, SeededRead[call])
    BY <1>2, ReadAnswers
  <2>2. step.expect = expect
    BY <1>1 DEF HasFields
  <2> HIDE DEF step
  <2>3. Passes(step, SeededRead[call])
    BY <2>2 DEF Passes
  <2> QED
    BY <2>1, <2>3 DEF Reply
<1> QED
  BY <1>2 DEF Quiet

\* A step that is refused as it expects, whatever the shop holds, is quiet.
LEMMA RefusedWhen ==
  ASSUME NEW step, NEW code, step.expect = [status |-> code],
         \A s, context : Sound(s) => Send(s, step, context) = Refuse(s, code)
  PROVE  Quiet(step)
<1>1. ASSUME NEW s PROVE Refuse(s, code).shop = s /\ Passes(step, Refuse(s, code).answer)
  BY DEF Passes, Refuse, Reply
<1> QED
  BY <1>1 DEF Quiet

\* The refusals that are quiet: an attempt with no failure code, the order of somebody else, a quantity of zero.
LEMMA PayRefused ==
  ASSUME NEW id
  PROVE  Quiet(Step(id, "pay", Two, Given(2), "fail_without_code", [status |-> 400]))
<1> DEFINE step == Step(id, "pay", Two, Given(2), "fail_without_code", [status |-> 400])
<1>1. HasFields(step, id, "pay", Two, Given(2), "fail_without_code", [status |-> 400])
  BY DEF Step, HasFields
<1> HIDE DEF step
<1>a. /\ step.call = "pay" /\ step.who = Two /\ step.row = Given(2) /\ step.value = "fail_without_code"
      /\ step.fault = FALSE /\ step.expect = [status |-> 400]
  BY <1>1 DEF HasFields
<1>b. ASSUME NEW context PROVE IsResolved(step, context) /\ Subject(step, context) = 2
  <2>1. step.row = Given(2)
    BY <1>a
  <2> QED
    BY <2>1, GivenRow
<1>2. ASSUME NEW s, NEW context, Sound(s) PROVE Send(s, step, context) = Refuse(s, 400)
  <2>1. IsResolved(step, context)
    BY <1>b
  <2>2. Send(s, step, context) = CreateAttempt(s, Two, Subject(step, context), "fail_without_code")
    <3>1. step.call = "pay" /\ step.fault = FALSE
      BY <1>a
    <3>2. Send(s, step, context) = CreateAttempt(s, step.who, Subject(step, context), step.value)
      BY <2>1, <3>1, Sends
    <3> QED
      BY <1>a, <2>1, <3>2
  <2> QED
    BY <1>2, <2>2, Refusals DEF Buyer
<1>3. step.expect = [status |-> 400]
  BY <1>a
<1>4. Quiet(step)
  BY <1>2, <1>3, RefusedWhen
<1> QED
  BY <1>4 DEF step

\* GET /orders/:id of the first order is refused to buyer two, whose it is not.
LEMMA ShowRefused ==
  ASSUME NEW id
  PROVE  Quiet(Step(id, "show", Two, Given(1), "", [status |-> 404]))
<1> DEFINE step == Step(id, "show", Two, Given(1), "", [status |-> 404])
<1>1. HasFields(step, id, "show", Two, Given(1), "", [status |-> 404])
  BY DEF Step, HasFields
<1> HIDE DEF step
<1>a. /\ step.call = "show" /\ step.who = Two /\ step.row = Given(1) /\ step.value = ""
      /\ step.fault = FALSE /\ step.expect = [status |-> 404]
  BY <1>1 DEF HasFields
<1>b. ASSUME NEW context PROVE IsResolved(step, context) /\ Subject(step, context) = 1
  <2>1. step.row = Given(1)
    BY <1>a
  <2> QED
    BY <2>1, GivenRow
<1>2. ASSUME NEW s, NEW context, Sound(s) PROVE Send(s, step, context) = Refuse(s, 404)
  <2>1. IsResolved(step, context) /\ Subject(step, context) = 1
    BY <1>b
  <2>2. Send(s, step, context) = GetOrder(s, Two, 1)
    <3>1. step.call = "show" /\ step.fault = FALSE
      BY <1>a
    <3>2. Send(s, step, context) = GetOrder(s, step.who, Subject(step, context))
      BY <2>1, <3>1, Sends
    <3> QED
      BY <1>a, <2>1, <3>2
  <2> QED
    BY <1>2, <2>2, Refusals DEF Buyer
<1>3. step.expect = [status |-> 404]
  BY <1>a
<1>4. Quiet(step)
  BY <1>2, <1>3, RefusedWhen
<1> QED
  BY <1>4 DEF step

\* PATCH /cart/items/:id refuses a quantity of zero before it looks for the line.
LEMMA UpdateRefused ==
  ASSUME NEW id
  PROVE  Quiet(Step(id, "update", One, Given(1), 0, [status |-> 400]))
<1> DEFINE step == Step(id, "update", One, Given(1), 0, [status |-> 400])
<1>1. HasFields(step, id, "update", One, Given(1), 0, [status |-> 400])
  BY DEF Step, HasFields
<1> HIDE DEF step
<1>a. /\ step.call = "update" /\ step.who = One /\ step.row = Given(1) /\ step.value = 0
      /\ step.fault = FALSE /\ step.expect = [status |-> 400]
  BY <1>1 DEF HasFields
<1>b. ASSUME NEW context PROVE IsResolved(step, context) /\ Subject(step, context) = 1
  <2>1. step.row = Given(1)
    BY <1>a
  <2> QED
    BY <2>1, GivenRow
<1>2. ASSUME NEW s, NEW context, Sound(s) PROVE Send(s, step, context) = Refuse(s, 400)
  <2>1. IsResolved(step, context)
    BY <1>b
  <2>2. Send(s, step, context) = UpdateItem(s, One, Subject(step, context), 0)
    <3>1. step.call = "update" /\ step.fault = FALSE
      BY <1>a
    <3>2. Send(s, step, context) = UpdateItem(s, step.who, Subject(step, context), step.value)
      BY <2>1, <3>1, Sends
    <3> QED
      BY <1>a, <2>1, <3>2
  <2> QED
    BY <1>2, <2>2, Refusals DEF Buyer
<1>3. step.expect = [status |-> 400]
  BY <1>a
<1>4. Quiet(step)
  BY <1>2, <1>3, RefusedWhen
<1> QED
  BY <1>4 DEF step

\* A fault injected into a read is answered with 500, which is what such a step expects.
LEMMA FaultQuiet ==
  ASSUME NEW call, NEW expect
  PROVE  Quiet(Faulty(Read(call, expect)))
<1> DEFINE step == Faulty(Read(call, expect))
<1>1. step.fault = TRUE /\ step.expect = [status |-> 500]
  BY DEF Faulty, Read, Step
<1> HIDE DEF step
<1>2. ASSUME NEW s, NEW context PROVE Send(s, step, context) = Refuse(s, 500)
  BY <1>1 DEF Send
<1>3. Quiet(step)
  BY <1>1, <1>2, RefusedWhen
<1> QED
  BY <1>3 DEF step

-----------------------------------------------------------------------------
(* The scenarios, step by step. *)

\* A sequence of steps, and one of quiet ones.
IsScript(steps) == Len(steps) \in Nat \ {0} /\ DOMAIN steps = 1..Len(steps)

AllQuiet(steps) == IsScript(steps) /\ \A k \in 1..Len(steps) : Quiet(steps[k])

\* The steps lead from the first cut to the next and so on.
Course(steps, cuts, home, on, by) ==
  /\ IsScript(steps) /\ Len(cuts) = Len(steps) + 1 /\ cuts[1] = home
  /\ \A k \in 1..Len(cuts) : cuts[k].who = on
  /\ \A k \in 1..Len(steps) : Leads(cuts[k], steps[k], cuts[k + 1], by)

\* From home every step passes; by concerns at most the buyer by, and relies on the buyer on.
Departs(steps, home, on, by) == \E cuts : Course(steps, cuts, home, on, by)

\* And the last step leads home: the next scenario finds what this one did.
Returns(steps, home, on, by) ==
  \E cuts : Course(steps, cuts, home, on, by) /\ cuts[Len(steps) + 1] = home

\* A purchase ends with an empty cart.
LEMMA EndsFree ==
  ASSUME NEW c, NEW step, NEW b, NEW a, NEW state, NEW who, Leads(c, step, Ordered(b, a, state), who)
  PROVE  Leads(c, step, Free(b), who)
<1>1. ASSUME NEW s, NEW context, Holds(Ordered(b, a, state), s, context) PROVE Holds(Free(b), s, context)
  <2>1. s.lines[b] = <<>>
    BY <1>1, OrderedCut DEF IsOrdered
  <2> QED
    BY <2>1, EmptyIsFree, FreeCut
<1> QED
  BY <1>1 DEF Leads

\* A step that leaves everybody alone leaves everybody else alone.
LEMMA LeadsMore ==
  ASSUME NEW c, NEW step, NEW d, Leads(c, step, d, "nobody"), NEW who
  PROVE  Leads(c, step, d, who)
BY LeavesMore DEF Leads

\* Whom a cut is about.
LEMMA WhoOf ==
  ASSUME NEW b, NEW of, NEW state
  PROVE  /\ Free(b).who = b /\ Seeded1.who = One /\ Seen(of).who = One /\ Looked(b, of).who = b
         /\ Filled(b, of).who = b /\ Ordered(b, of, state).who = b
BY DEF Free, Seeded1, Seen, Looked, Filled, Ordered, Cut

\* The steps that others refer to have a name.
LEMMA Names ==
  /\ Named("add") /\ Named("cartAdd") /\ Named("cartUpdate") /\ Named("cart") /\ Named("order")
  /\ Named("orderCreate")
BY DEF Named

\* What the scenarios expect.
LEMMA Expectations ==
  /\ Expects(Created, 201, "owner", Two) /\ Expects(Created, 201, "owner", One)
  /\ Expects([status |-> 201, owner |-> One], 201, "owner", One)
  /\ Expects([status |-> 200, owner |-> Two], 200, "owner", Two)
  /\ Expects([status |-> 201, variant |-> "mug"], 201, "variant", "mug")
  /\ Expects([status |-> 200, quantity |-> 2], 200, "quantity", 2)
  /\ Expects([status |-> 200, line |-> 1], 200, "line", 1)
  /\ Expects([status |-> 400], 400, "status", 400) /\ Expects([status |-> 409], 409, "status", 409)
BY DEF Expects, Created

\* Of an order.
LEMMA OrderExpectations ==
  /\ Expects(Created, 201, "state", "pending_payment")
  /\ Expects([status |-> 201, state |-> "pending_payment"], 201, "state", "pending_payment")
  /\ Expects([status |-> 200, state |-> "paid"], 200, "state", "paid")
  /\ Expects([status |-> 200, state |-> "payment_failed"], 200, "state", "payment_failed")
BY DEF Expects, Created

\* Of a payment attempt.
LEMMA PaymentExpectations ==
  /\ Expects(Created, 201, "attempt", "succeeded") /\ Expects(Created, 201, "attempt", "failed")
  /\ Expects([status |-> 201, attempt |-> "succeeded"], 201, "attempt", "succeeded")
  /\ Expects([status |-> 201, attempt |-> "failed"], 201, "attempt", "failed")
BY DEF Expects, Created

\* The words the scenarios use are the ones the lemmas range over.
LEMMA Words ==
  /\ One \in Buyer /\ Two \in Buyer /\ "notebook" \in {"notebook", "mug"} /\ "mug" \in {"notebook", "mug"}
  /\ Two # One
  /\ "success" \in Outcome /\ "fail" \in Outcome
  /\ StateAfter("success") = "paid" /\ StateAfter("fail") = "payment_failed"
  /\ AttemptAfter("success") = "succeeded" /\ AttemptAfter("fail") = "failed"
  /\ "paid" \in State /\ "payment_failed" \in State /\ "pending_payment" \in State
  /\ "pending_payment" # "paid" /\ "payment_failed" # "paid"
BY DEF One, Two, Buyer, Outcome, StateAfter, AttemptAfter, State

\* The purchases: put, order and perhaps pay.
LEMMA PutLeads ==
  ASSUME NEW b \in Buyer, NEW V \in {"notebook", "mug"}, b = One => V = "notebook"
  PROVE  Leads(Free(b), Step("add", "add", b, NoRow, V, Created), Filled(b, "add"), b)
<1>1. Expects(Created, 201, "owner", b)
  BY DEF Expects, Created
<1> QED
  BY <1>1, AddLeads

\* The checkout of what the step "add" has put into the cart.
LEMMA CheckoutLeads ==
  ASSUME NEW b \in Buyer, NEW expect, Expects(expect, 201, "state", "pending_payment")
  PROVE  Leads(Filled(b, "add"), Step("order", "order", b, From("add", "cart"), "", expect),
               Ordered(b, "order", "pending_payment"), b)
BY OrderLeads, Names

\* A payment attempt for the order that the step "order" has created.
LEMMA PaymentLeads ==
  ASSUME NEW b \in Buyer, NEW id, id # "order", NEW state \in State, state # "paid", NEW outcome \in Outcome,
         NEW expect, Expects(expect, 201, "attempt", AttemptAfter(outcome))
  PROVE  Leads(Ordered(b, "order", state), Step(id, "pay", b, From("order", "order"), outcome, expect),
               Ordered(b, "order", StateAfter(outcome)), b)
BY PayLeads, Names

\* The reads of the funnels.
LEMMA FunnelReads ==
  /\ Quiet(Read("newest", [status |-> 200, first |-> "notebook"]))
  /\ Quiet(Read("detail", [status |-> 200, first |-> "notebook"]))
  /\ Quiet(Read("notebook", [status |-> 200, first |-> "notebook"]))
  /\ Quiet(Read("recommend", Ok)) /\ Quiet(Read("notebook", Ok))
<1>1. Quiet(Read("newest", [status |-> 200, first |-> "notebook"]))
  BY ReadQuiet DEF Reads, SeededRead
<1>2. Quiet(Read("detail", [status |-> 200, first |-> "notebook"]))
  BY ReadQuiet DEF Reads, SeededRead
<1>3. Quiet(Read("notebook", [status |-> 200, first |-> "notebook"]))
  BY ReadQuiet DEF Reads, SeededRead
<1>4. Quiet(Read("recommend", Ok))
  BY ReadQuiet DEF Reads, SeededRead, Ok
<1>5. Quiet(Read("notebook", Ok))
  BY ReadQuiet DEF Reads, SeededRead, Ok
<1> QED
  BY <1>1, <1>2, <1>3, <1>4, <1>5

\* The quantity that the roundtrip changes a line to is one the code allows.
LEMMA TwoAllowed == ASSUME MaxQuantity > 1 PROVE 2 \in 1..MaxQuantity
BY MaxQuantityAssumption

\* A virtual user's buyer and what it buys.
LEMMA TurnOf ==
  ASSUME NEW v
  PROVE  BuyerOf(v) \in Buyer /\ VariantOf(v) \in {"notebook", "mug"} /\ (BuyerOf(v) = One => VariantOf(v) = "notebook")
BY DEF BuyerOf, VariantOf, Buyer, One, Two

\* The cleanup of k6 is not sent when the cart was empty, and fails nothing.
LEMMA CleanupOf == Leads(Looked(Two, "cart"), CleanedCheckoutConflict[2], Looked(Two, "cart"), "nobody")
<1> DEFINE step == CleanedCheckoutConflict[2]
<1>1. step.id = "cleanup" /\ step.fault = FALSE /\ step.optional = TRUE /\ step.row = From("cart", "line")
  BY DEF CleanedCheckoutConflict, Step
<1>2. "cleanup" # "cart"
  OBVIOUS
<1> HIDE DEF step
<1>3. Leads(Looked(Two, "cart"), step, Looked(Two, "cart"), "nobody")
  BY <1>1, <1>2, CleanupLeads, Names
<1> QED
  BY <1>3 DEF step

\* The successful funnel buys the seeded notebook, or a new one.
LEMMA SuccessFunnel ==
  ASSUME MaxQuantity > 1
  PROVE  Returns(BuyerSuccessFunnel, Free(One), One, One)
<1> DEFINE steps == BuyerSuccessFunnel
           cuts == <<Free(One), Free(One), Free(One), Free(One), Filled(One, "cartAdd"),
                     Filled(One, "cartUpdate"), Ordered(One, "orderCreate", "pending_payment"),
                     Ordered(One, "orderCreate", "paid"), Free(One)>>
<1>1. Leads(Free(One), steps[1], Free(One), One)
  BY FunnelReads, QuietLeads DEF BuyerSuccessFunnel
<1>2. Leads(Free(One), steps[2], Free(One), One)
  BY FunnelReads, QuietLeads DEF BuyerSuccessFunnel
<1>3. Leads(Free(One), steps[3], Free(One), One)
  BY FunnelReads, QuietLeads DEF BuyerSuccessFunnel
<1>4. Leads(Free(One), steps[4], Filled(One, "cartAdd"), One)
  BY AddLeads, Expectations, Words DEF BuyerSuccessFunnel
<1>5. Leads(Filled(One, "cartAdd"), steps[5], Filled(One, "cartUpdate"), One)
  BY UpdateLeads, Expectations, Words, Names, TwoAllowed DEF BuyerSuccessFunnel
<1>6. Leads(Filled(One, "cartUpdate"), steps[6], Ordered(One, "orderCreate", "pending_payment"), One)
  BY OrderLeads, OrderExpectations, Words, Names DEF BuyerSuccessFunnel
<1>7. Leads(Ordered(One, "orderCreate", "pending_payment"), steps[7], Ordered(One, "orderCreate", "paid"), One)
  BY PayLeads, PaymentExpectations, Words, Names DEF BuyerSuccessFunnel
<1>8. Leads(Ordered(One, "orderCreate", "paid"), steps[8], Free(One), One)
  <2>1. Leads(Ordered(One, "orderCreate", "paid"), steps[8], Ordered(One, "orderCreate", "paid"), One)
    BY ZenonT(60), ShowLeads, OrderExpectations, Words, Names DEF BuyerSuccessFunnel
  <2> QED
    BY <2>1, EndsFree
<1>a. Len(steps) = 8 /\ Len(cuts) = 9
  BY DEF BuyerSuccessFunnel
<1>b. /\ cuts[1] = Free(One) /\ cuts[2] = Free(One) /\ cuts[3] = Free(One) /\ cuts[4] = Free(One)
      /\ cuts[5] = Filled(One, "cartAdd") /\ cuts[6] = Filled(One, "cartUpdate")
      /\ cuts[7] = Ordered(One, "orderCreate", "pending_payment")
      /\ cuts[8] = Ordered(One, "orderCreate", "paid") /\ cuts[9] = Free(One)
  OBVIOUS
<1> HIDE DEF steps, cuts
<1>c. \A k \in 1..8 : Leads(cuts[k], steps[k], cuts[k + 1], One)
  BY <1>1, <1>2, <1>3, <1>4, <1>5, <1>6, <1>7, <1>8, <1>b
<1>d. \A k \in 1..9 : cuts[k].who = One
  BY <1>b, WhoOf
<1>e. Course(steps, cuts, Free(One), One, One) /\ cuts[Len(steps) + 1] = Free(One)
  BY <1>a, <1>b, <1>c, <1>d DEF Course, IsScript
<1> QED
  BY <1>e DEF Returns, steps

\* The failing funnel leaves an order whose payment failed.
LEMMA FailureFunnel ==
  ASSUME MaxQuantity > 1
  PROVE  Returns(BuyerFailureFunnel, Free(Two), Two, Two)
<1> DEFINE steps == BuyerFailureFunnel
           cuts == <<Free(Two), Free(Two), Filled(Two, "cartAdd"), Filled(Two, "cartUpdate"),
                     Ordered(Two, "orderCreate", "pending_payment"),
                     Ordered(Two, "orderCreate", "payment_failed"), Free(Two)>>
<1>1. Leads(Free(Two), steps[1], Free(Two), Two)
  BY FunnelReads, QuietLeads DEF BuyerFailureFunnel
<1>2. Leads(Free(Two), steps[2], Filled(Two, "cartAdd"), Two)
  BY AddLeads, Expectations, Words DEF BuyerFailureFunnel
<1>3. Leads(Filled(Two, "cartAdd"), steps[3], Filled(Two, "cartUpdate"), Two)
  BY UpdateLeads, Expectations, Words, Names, TwoAllowed DEF BuyerFailureFunnel
<1>4. Leads(Filled(Two, "cartUpdate"), steps[4], Ordered(Two, "orderCreate", "pending_payment"), Two)
  BY OrderLeads, OrderExpectations, Words, Names DEF BuyerFailureFunnel
<1>5. Leads(Ordered(Two, "orderCreate", "pending_payment"), steps[5],
            Ordered(Two, "orderCreate", "payment_failed"), Two)
  BY PayLeads, PaymentExpectations, Words, Names DEF BuyerFailureFunnel
<1>6. Leads(Ordered(Two, "orderCreate", "payment_failed"), steps[6], Free(Two), Two)
  <2>1. Leads(Ordered(Two, "orderCreate", "payment_failed"), steps[6],
              Ordered(Two, "orderCreate", "payment_failed"), Two)
    BY ZenonT(60), ShowLeads, OrderExpectations, Words, Names DEF BuyerFailureFunnel
  <2> QED
    BY <2>1, EndsFree
<1>a. Len(steps) = 6 /\ Len(cuts) = 7
  BY DEF BuyerFailureFunnel
<1>b. /\ cuts[1] = Free(Two) /\ cuts[2] = Free(Two) /\ cuts[3] = Filled(Two, "cartAdd")
      /\ cuts[4] = Filled(Two, "cartUpdate")
      /\ cuts[5] = Ordered(Two, "orderCreate", "pending_payment")
      /\ cuts[6] = Ordered(Two, "orderCreate", "payment_failed") /\ cuts[7] = Free(Two)
  OBVIOUS
<1> HIDE DEF steps, cuts
<1>c. \A k \in 1..6 : Leads(cuts[k], steps[k], cuts[k + 1], Two)
  BY <1>1, <1>2, <1>3, <1>4, <1>5, <1>6, <1>b
<1>d. \A k \in 1..7 : cuts[k].who = Two
  BY <1>b, WhoOf
<1>e. Course(steps, cuts, Free(Two), Two, Two) /\ cuts[Len(steps) + 1] = Free(Two)
  BY <1>a, <1>b, <1>c, <1>d DEF Course, IsScript
<1> QED
  BY <1>e DEF Returns, steps

\* The slow cart keeps what is put into it.
LEMMA CartDelay ==
  Departs(FaultCartDelay, Free(Two), Two, Two)
<1> DEFINE steps == FaultCartDelay
           cuts == <<Free(Two), Filled(Two, "add")>>
<1>1. Leads(Free(Two), steps[1], Filled(Two, "add"), Two)
  BY PutLeads, CheckoutLeads, OrderExpectations, Words DEF FaultCartDelay
<1>a. Len(steps) = 1 /\ Len(cuts) = 2
  BY DEF FaultCartDelay
<1>b. /\ cuts[1] = Free(Two)
      /\ cuts[2] = Filled(Two, "add")
  OBVIOUS
<1> HIDE DEF steps, cuts
<1>c. \A k \in 1..1 : Leads(cuts[k], steps[k], cuts[k + 1], Two)
  BY <1>1, <1>b
<1>d. \A k \in 1..2 : cuts[k].who = Two
  BY <1>b, WhoOf
<1>e. Course(steps, cuts, Free(Two), Two, Two)
  BY <1>a, <1>b, <1>c, <1>d DEF Course, IsScript
<1> QED
  BY <1>e DEF Departs, steps

\* The slow order empties the cart again.
LEMMA OrderDelay ==
  Returns(FaultOrderDelay, Free(Two), Two, Two)
<1> DEFINE steps == FaultOrderDelay
           cuts == <<Free(Two), Filled(Two, "add"), Free(Two)>>
<1>1. Leads(Free(Two), steps[1], Filled(Two, "add"), Two)
  BY PutLeads, CheckoutLeads, OrderExpectations, Words DEF FaultOrderDelay
<1>2. Leads(Filled(Two, "add"), steps[2], Free(Two), Two)
  <2>1. Leads(Filled(Two, "add"), steps[2], Ordered(Two, "order", "pending_payment"), Two)
    BY PutLeads, CheckoutLeads, OrderExpectations, Words DEF FaultOrderDelay
  <2> QED
    BY <2>1, EndsFree
<1>a. Len(steps) = 2 /\ Len(cuts) = 3
  BY DEF FaultOrderDelay
<1>b. /\ cuts[1] = Free(Two)
      /\ cuts[2] = Filled(Two, "add") /\ cuts[3] = Free(Two)
  OBVIOUS
<1> HIDE DEF steps, cuts
<1>c. \A k \in 1..2 : Leads(cuts[k], steps[k], cuts[k + 1], Two)
  BY <1>1, <1>2, <1>b
<1>d. \A k \in 1..3 : cuts[k].who = Two
  BY <1>b, WhoOf
<1>e. Course(steps, cuts, Free(Two), Two, Two) /\ cuts[Len(steps) + 1] = Free(Two)
  BY <1>a, <1>b, <1>c, <1>d DEF Course, IsScript
<1> QED
  BY <1>e DEF Returns, steps

\* The slow payment pays the order.
LEMMA PaymentDelay ==
  Returns(FaultPaymentDelay, Free(Two), Two, Two)
<1> DEFINE steps == FaultPaymentDelay
           cuts == <<Free(Two), Filled(Two, "add"), Ordered(Two, "order", "pending_payment"),
                     Free(Two)>>
<1>1. Leads(Free(Two), steps[1], Filled(Two, "add"), Two)
  BY PutLeads, CheckoutLeads, OrderExpectations, Words DEF FaultPaymentDelay
<1>2. Leads(Filled(Two, "add"), steps[2], Ordered(Two, "order", "pending_payment"), Two)
  BY PutLeads, CheckoutLeads, OrderExpectations, Words DEF FaultPaymentDelay
<1>3. Leads(Ordered(Two, "order", "pending_payment"), steps[3], Free(Two), Two)
  <2>1. Leads(Ordered(Two, "order", "pending_payment"), steps[3], Ordered(Two, "order", "paid"), Two)
    BY PaymentLeads, PaymentExpectations, Words DEF FaultPaymentDelay
  <2> QED
    BY <2>1, EndsFree
<1>a. Len(steps) = 3 /\ Len(cuts) = 4
  BY DEF FaultPaymentDelay
<1>b. /\ cuts[1] = Free(Two) /\ cuts[2] = Filled(Two, "add")
      /\ cuts[3] = Ordered(Two, "order", "pending_payment") /\ cuts[4] = Free(Two)
  OBVIOUS
<1> HIDE DEF steps, cuts
<1>c. \A k \in 1..3 : Leads(cuts[k], steps[k], cuts[k + 1], Two)
  BY <1>1, <1>2, <1>3, <1>b
<1>d. \A k \in 1..4 : cuts[k].who = Two
  BY <1>b, WhoOf
<1>e. Course(steps, cuts, Free(Two), Two, Two) /\ cuts[Len(steps) + 1] = Free(Two)
  BY <1>a, <1>b, <1>c, <1>d DEF Course, IsScript
<1> QED
  BY <1>e DEF Returns, steps

\* A payment that fails leaves the order for another attempt.
LEMMA PaymentFailure ==
  Returns(BuyerPaymentFailure, Free(Two), Two, Two)
<1> DEFINE steps == BuyerPaymentFailure
           cuts == <<Free(Two), Filled(Two, "add"), Ordered(Two, "order", "pending_payment"),
                     Free(Two)>>
<1>1. Leads(Free(Two), steps[1], Filled(Two, "add"), Two)
  BY PutLeads, CheckoutLeads, OrderExpectations, Words DEF BuyerPaymentFailure, CartAdd, OrderCreate, Payment
<1>2. Leads(Filled(Two, "add"), steps[2], Ordered(Two, "order", "pending_payment"), Two)
  BY PutLeads, CheckoutLeads, OrderExpectations, Words DEF BuyerPaymentFailure, CartAdd, OrderCreate, Payment
<1>3. Leads(Ordered(Two, "order", "pending_payment"), steps[3], Free(Two), Two)
  <2>1. Leads(Ordered(Two, "order", "pending_payment"), steps[3], Ordered(Two, "order", "payment_failed"), Two)
    BY PaymentLeads, PaymentExpectations, Words DEF BuyerPaymentFailure, CartAdd, OrderCreate, Payment
  <2> QED
    BY <2>1, EndsFree
<1>a. Len(steps) = 3 /\ Len(cuts) = 4
  BY DEF BuyerPaymentFailure
<1>b. /\ cuts[1] = Free(Two) /\ cuts[2] = Filled(Two, "add")
      /\ cuts[3] = Ordered(Two, "order", "pending_payment") /\ cuts[4] = Free(Two)
  OBVIOUS
<1> HIDE DEF steps, cuts
<1>c. \A k \in 1..3 : Leads(cuts[k], steps[k], cuts[k + 1], Two)
  BY <1>1, <1>2, <1>3, <1>b
<1>d. \A k \in 1..4 : cuts[k].who = Two
  BY <1>b, WhoOf
<1>e. Course(steps, cuts, Free(Two), Two, Two) /\ cuts[Len(steps) + 1] = Free(Two)
  BY <1>a, <1>b, <1>c, <1>d DEF Course, IsScript
<1> QED
  BY <1>e DEF Returns, steps

\* Each way to fail is an attempt at the same order.
LEMMA FailureTypes ==
  Returns(PaymentFailureTypes, Free(Two), Two, Two)
<1> DEFINE steps == PaymentFailureTypes
           cuts == <<Free(Two), Filled(Two, "add"), Ordered(Two, "order", "pending_payment"),
                     Ordered(Two, "order", "payment_failed"),
                     Ordered(Two, "order", "payment_failed"), Free(Two)>>
<1>1. Leads(Free(Two), steps[1], Filled(Two, "add"), Two)
  BY PutLeads, CheckoutLeads, OrderExpectations, Words DEF PaymentFailureTypes, CartAdd, OrderCreate, Payment
<1>2. Leads(Filled(Two, "add"), steps[2], Ordered(Two, "order", "pending_payment"), Two)
  BY PutLeads, CheckoutLeads, OrderExpectations, Words DEF PaymentFailureTypes, CartAdd, OrderCreate, Payment
<1>3. Leads(Ordered(Two, "order", "pending_payment"), steps[3], Ordered(Two, "order", "payment_failed"), Two)
  BY PaymentLeads, PaymentExpectations, Words DEF PaymentFailureTypes, CartAdd, OrderCreate, Payment
<1>4. Leads(Ordered(Two, "order", "payment_failed"), steps[4], Ordered(Two, "order", "payment_failed"), Two)
  BY PaymentLeads, PaymentExpectations, Words DEF PaymentFailureTypes, CartAdd, OrderCreate, Payment
<1>5. Leads(Ordered(Two, "order", "payment_failed"), steps[5], Free(Two), Two)
  <2>1. Leads(Ordered(Two, "order", "payment_failed"), steps[5], Ordered(Two, "order", "payment_failed"), Two)
    BY PaymentLeads, PaymentExpectations, Words DEF PaymentFailureTypes, CartAdd, OrderCreate, Payment
  <2> QED
    BY <2>1, EndsFree
<1>a. Len(steps) = 5 /\ Len(cuts) = 6
  BY DEF PaymentFailureTypes
<1>b. /\ cuts[1] = Free(Two) /\ cuts[2] = Filled(Two, "add") /\ cuts[3] = Ordered(Two, "order", "pending_payment")
      /\ cuts[4] = Ordered(Two, "order", "payment_failed")
      /\ cuts[5] = Ordered(Two, "order", "payment_failed") /\ cuts[6] = Free(Two)
  OBVIOUS
<1> HIDE DEF steps, cuts
<1>c. \A k \in 1..5 : Leads(cuts[k], steps[k], cuts[k + 1], Two)
  BY <1>1, <1>2, <1>3, <1>4, <1>5, <1>b
<1>d. \A k \in 1..6 : cuts[k].who = Two
  BY <1>b, WhoOf
<1>e. Course(steps, cuts, Free(Two), Two, Two) /\ cuts[Len(steps) + 1] = Free(Two)
  BY <1>a, <1>b, <1>c, <1>d DEF Course, IsScript
<1> QED
  BY <1>e DEF Returns, steps

\* Every virtual user buys what its buyer puts.
LEMMA BusinessFunnel ==
  ASSUME NEW v, NEW b \in Buyer, b = BuyerOf(v)
  PROVE  Returns(BusinessSuccessFunnel(v), Free(b), b, b)
<1> DEFINE steps == BusinessSuccessFunnel(v)
           cuts == <<Free(b), Free(b), Filled(b, "add"), Ordered(b, "order", "pending_payment"),
                     Free(b)>>
<1>1. Leads(Free(b), steps[1], Free(b), b)
  BY FunnelReads, QuietLeads DEF BusinessSuccessFunnel, CartAdd, OrderCreate, Payment
<1>2. Leads(Free(b), steps[2], Filled(b, "add"), b)
  BY PutLeads, CheckoutLeads, OrderExpectations, Words, TurnOf DEF BusinessSuccessFunnel, CartAdd, OrderCreate, Payment
<1>3. Leads(Filled(b, "add"), steps[3], Ordered(b, "order", "pending_payment"), b)
  BY PutLeads, CheckoutLeads, OrderExpectations, Words, TurnOf DEF BusinessSuccessFunnel, CartAdd, OrderCreate, Payment
<1>4. Leads(Ordered(b, "order", "pending_payment"), steps[4], Free(b), b)
  <2>1. Leads(Ordered(b, "order", "pending_payment"), steps[4], Ordered(b, "order", "paid"), b)
    BY PaymentLeads, PaymentExpectations, Words DEF BusinessSuccessFunnel, CartAdd, OrderCreate, Payment
  <2> QED
    BY <2>1, EndsFree
<1>a. Len(steps) = 4 /\ Len(cuts) = 5
  BY DEF BusinessSuccessFunnel
<1>b. /\ cuts[1] = Free(b) /\ cuts[2] = Free(b)
      /\ cuts[3] = Filled(b, "add") /\ cuts[4] = Ordered(b, "order", "pending_payment") /\ cuts[5] = Free(b)
  OBVIOUS
<1> HIDE DEF steps, cuts
<1>c. \A k \in 1..4 : Leads(cuts[k], steps[k], cuts[k + 1], b)
  BY <1>1, <1>2, <1>3, <1>4, <1>b
<1>d. \A k \in 1..5 : cuts[k].who = b
  BY <1>b, WhoOf
<1>e. Course(steps, cuts, Free(b), b, b) /\ cuts[Len(steps) + 1] = Free(b)
  BY <1>a, <1>b, <1>c, <1>d DEF Course, IsScript
<1> QED
  BY <1>e DEF Returns, steps

\* What is put is deleted again.
LEMMA Roundtrip ==
  Returns(BuyerCartAddDeleteRoundtrip, Free(Two), Two, Two)
<1> DEFINE steps == BuyerCartAddDeleteRoundtrip
           cuts == <<Free(Two), Free(Two), Filled(Two, "add"), Free(Two)>>
<1>1. Leads(Free(Two), steps[1], Free(Two), Two)
  BY ZenonT(60), LookLeads, LeadsMore, Expectations DEF BuyerCartAddDeleteRoundtrip
<1>2. Leads(Free(Two), steps[2], Filled(Two, "add"), Two)
  BY AddLeads, Expectations, Words DEF BuyerCartAddDeleteRoundtrip
<1>3. Leads(Filled(Two, "add"), steps[3], Free(Two), Two)
  BY ZenonT(60), DeleteLeads, Expectations, Words, Names DEF BuyerCartAddDeleteRoundtrip
<1>a. Len(steps) = 3 /\ Len(cuts) = 4
  BY DEF BuyerCartAddDeleteRoundtrip
<1>b. /\ cuts[1] = Free(Two) /\ cuts[2] = Free(Two)
      /\ cuts[3] = Filled(Two, "add") /\ cuts[4] = Free(Two)
  OBVIOUS
<1> HIDE DEF steps, cuts
<1>c. \A k \in 1..3 : Leads(cuts[k], steps[k], cuts[k + 1], Two)
  BY <1>1, <1>2, <1>3, <1>b
<1>d. \A k \in 1..4 : cuts[k].who = Two
  BY <1>b, WhoOf
<1>e. Course(steps, cuts, Free(Two), Two, Two) /\ cuts[Len(steps) + 1] = Free(Two)
  BY <1>a, <1>b, <1>c, <1>d DEF Course, IsScript
<1> QED
  BY <1>e DEF Returns, steps

\* An empty cart is opened and not ordered.
LEMMA WebConflict ==
  Returns(BuyerEmptyCartCheckoutConflict, Free(Two), Two, "nobody")
<1> DEFINE steps == BuyerEmptyCartCheckoutConflict
           cuts == <<Free(Two), Looked(Two, "cart"), Free(Two)>>
<1>1. Leads(Free(Two), steps[1], Looked(Two, "cart"), "nobody")
  BY ZenonT(60), LookLeads, Expectations DEF BuyerEmptyCartCheckoutConflict
<1>2. Leads(Looked(Two, "cart"), steps[2], Free(Two), "nobody")
  BY ZenonT(60), ConflictLeads, Expectations, Names DEF BuyerEmptyCartCheckoutConflict
<1>a. Len(steps) = 2 /\ Len(cuts) = 3
  BY DEF BuyerEmptyCartCheckoutConflict
<1>b. /\ cuts[1] = Free(Two)
      /\ cuts[2] = Looked(Two, "cart") /\ cuts[3] = Free(Two)
  OBVIOUS
<1> HIDE DEF steps, cuts
<1>c. \A k \in 1..2 : Leads(cuts[k], steps[k], cuts[k + 1], "nobody")
  BY <1>1, <1>2, <1>b
<1>d. \A k \in 1..3 : cuts[k].who = Two
  BY <1>b, WhoOf
<1>e. Course(steps, cuts, Free(Two), Two, "nobody") /\ cuts[Len(steps) + 1] = Free(Two)
  BY <1>a, <1>b, <1>c, <1>d DEF Course, IsScript
<1> QED
  BY <1>e DEF Returns, steps

\* An empty cart needs no cleanup before its checkout is refused.
LEMMA CleanedConflict ==
  Returns(CleanedCheckoutConflict, Free(Two), Two, "nobody")
<1> DEFINE steps == CleanedCheckoutConflict
           cuts == <<Free(Two), Looked(Two, "cart"), Looked(Two, "cart"), Free(Two)>>
<1>1. Leads(Free(Two), steps[1], Looked(Two, "cart"), "nobody")
  BY ZenonT(60), LookLeads, Expectations DEF CleanedCheckoutConflict, CartGet
<1>2. Leads(Looked(Two, "cart"), steps[2], Looked(Two, "cart"), "nobody")
  BY CleanupOf DEF CleanedCheckoutConflict, CartGet
<1>3. Leads(Looked(Two, "cart"), steps[3], Free(Two), "nobody")
  BY ZenonT(60), ConflictLeads, Expectations, Names DEF CleanedCheckoutConflict, CartGet
<1>a. Len(steps) = 3 /\ Len(cuts) = 4
  BY DEF CleanedCheckoutConflict
<1>b. /\ cuts[1] = Free(Two) /\ cuts[2] = Looked(Two, "cart")
      /\ cuts[3] = Looked(Two, "cart") /\ cuts[4] = Free(Two)
  OBVIOUS
<1> HIDE DEF steps, cuts
<1>c. \A k \in 1..3 : Leads(cuts[k], steps[k], cuts[k + 1], "nobody")
  BY <1>1, <1>2, <1>3, <1>b
<1>d. \A k \in 1..4 : cuts[k].who = Two
  BY <1>b, WhoOf
<1>e. Course(steps, cuts, Free(Two), Two, "nobody") /\ cuts[Len(steps) + 1] = Free(Two)
  BY <1>a, <1>b, <1>c, <1>d DEF Course, IsScript
<1> QED
  BY <1>e DEF Returns, steps

\* The seeded line is found and left as it is.
LEMMA WebValidation ==
  Returns(BuyerCartValidationFailure, Seeded1, One, "nobody")
<1> DEFINE steps == BuyerCartValidationFailure
           cuts == <<Seeded1, Seen("cart"), Seeded1>>
<1>1. Leads(Seeded1, steps[1], Seen("cart"), "nobody")
  BY ZenonT(60), SeedLeads, Expectations DEF BuyerCartValidationFailure
<1>2. Leads(Seen("cart"), steps[2], Seeded1, "nobody")
  BY SeenLeads, Expectations, Names DEF BuyerCartValidationFailure
<1>a. Len(steps) = 2 /\ Len(cuts) = 3
  BY DEF BuyerCartValidationFailure
<1>b. /\ cuts[1] = Seeded1
      /\ cuts[2] = Seen("cart") /\ cuts[3] = Seeded1
  OBVIOUS
<1> HIDE DEF steps, cuts
<1>c. \A k \in 1..2 : Leads(cuts[k], steps[k], cuts[k + 1], "nobody")
  BY <1>1, <1>2, <1>b
<1>d. \A k \in 1..3 : cuts[k].who = One
  BY <1>b, WhoOf
<1>e. Course(steps, cuts, Seeded1, One, "nobody") /\ cuts[Len(steps) + 1] = Seeded1
  BY <1>a, <1>b, <1>c, <1>d DEF Course, IsScript
<1> QED
  BY <1>e DEF Returns, steps

\* The same by the number of the line.
LEMMA SeededUpdate ==
  Returns(SeededLineUpdate, Seeded1, One, "nobody")
<1> DEFINE steps == SeededLineUpdate
           cuts == <<Seeded1, Seeded1, Seeded1>>
<1>1. Leads(Seeded1, steps[1], Seeded1, "nobody")
  BY ZenonT(60), SeedLeads, Expectations DEF SeededLineUpdate, CartGet
<1>2. Leads(Seeded1, steps[2], Seeded1, "nobody")
  BY UpdateRefused, QuietLeads DEF SeededLineUpdate, CartGet
<1>a. Len(steps) = 2 /\ Len(cuts) = 3
  BY DEF SeededLineUpdate
<1>b. /\ cuts[1] = Seeded1
      /\ cuts[2] = Seeded1 /\ cuts[3] = Seeded1
  OBVIOUS
<1> HIDE DEF steps, cuts
<1>c. \A k \in 1..2 : Leads(cuts[k], steps[k], cuts[k + 1], "nobody")
  BY <1>1, <1>2, <1>b
<1>d. \A k \in 1..3 : cuts[k].who = One
  BY <1>b, WhoOf
<1>e. Course(steps, cuts, Seeded1, One, "nobody") /\ cuts[Len(steps) + 1] = Seeded1
  BY <1>a, <1>b, <1>c, <1>d DEF Course, IsScript
<1> QED
  BY <1>e DEF Returns, steps

\* Scripts of one step and of two, all of them quiet.
LEMMA QuietOne ==
  ASSUME NEW step, Quiet(step)
  PROVE  AllQuiet(<<step>>)
BY DEF AllQuiet, IsScript

\* Two quiet steps are a quiet scenario.
LEMMA QuietTwo ==
  ASSUME NEW step, NEW other, Quiet(step), Quiet(other)
  PROVE  AllQuiet(<<step, other>>)
BY DEF AllQuiet, IsScript

\* The template of an id.
LEMMA TemplateOf ==
  /\ Template["health-success"] = HealthSuccess
  /\ Template["metrics-text-check"] = MetricsTextCheck
  /\ Template["health-metrics-parallel"] = HealthMetricsParallel
  /\ Template["catalog-list-success"] = CatalogListSuccess
  /\ Template["catalog-price-sort"] = CatalogPriceSort
  /\ Template["catalog-product-not-found"] = CatalogProductNotFound
  /\ Template["search-notebook-success"] = SearchNotebookSuccess
  /\ Template["search-zero-result"] = SearchZeroResult
  /\ Template["search-validation-failure"] = SearchValidationFailure
  /\ Template["recommendation-success"] = RecommendationSuccess
  /\ Template["recommendation-limit-validation"] = RecommendationLimitValidation
  /\ Template["buyer-success-funnel"] = BuyerSuccessFunnel
  /\ Template["buyer-failure-funnel"] = BuyerFailureFunnel
  /\ Template["buyer-cart-validation-failure"] = BuyerCartValidationFailure
  /\ Template["buyer-cart-add-delete-roundtrip"] = BuyerCartAddDeleteRoundtrip
  /\ Template["buyer-empty-cart-checkout-conflict"] = BuyerEmptyCartCheckoutConflict
  /\ Template["buyer-payment-validation-failure"] = BuyerPaymentValidationFailure
  /\ Template["buyer-cross-order-access-denied"] = BuyerCrossOrderAccessDenied
  /\ Template["route-not-found"] = RouteNotFound
  /\ Template["fault-search-delay"] = FaultSearchDelay
  /\ Template["fault-search-error"] = FaultSearchError
  /\ Template["fault-cart-delay"] = FaultCartDelay
  /\ Template["fault-order-delay"] = FaultOrderDelay
  /\ Template["fault-payment-delay"] = FaultPaymentDelay
  /\ Template["fault-unhandled-exception"] = FaultUnhandledException
  /\ Template["label-coverage-missing-buyer"] = LabelCoverageMissingBuyer
BY DEF Template, Script, BuyerTemplates, OtherTemplates

\* The templates of these ids consist of quiet steps.
LEMMA QuietTemplates == \A id \in QuietIds : AllQuiet(Template[id])
<1>1. AllQuiet(HealthSuccess)
  <2>1. Quiet(Read("health", Ok))
    BY ReadQuiet DEF Reads, SeededRead, Ok
  <2> QED
    BY <2>1, QuietOne DEF HealthSuccess
<1>2. AllQuiet(MetricsTextCheck)
  <2>1. Quiet(Read("metrics", Ok))
    BY ReadQuiet DEF Reads, SeededRead, Ok
  <2> QED
    BY <2>1, QuietOne DEF MetricsTextCheck
<1>3. AllQuiet(HealthMetricsParallel)
  <2>1. Quiet(Read("health", Ok)) /\ Quiet(Read("metrics", Ok))
    BY ReadQuiet DEF Reads, SeededRead, Ok
  <2> QED
    BY <2>1, QuietTwo DEF HealthMetricsParallel
<1>4. AllQuiet(CatalogListSuccess)
  <2>1. Quiet(Read("newest", [status |-> 200, first |-> "notebook", total |-> 6]))
    BY ReadQuiet DEF Reads, SeededRead, Ok
  <2> QED
    BY <2>1, QuietOne DEF CatalogListSuccess
<1>5. AllQuiet(CatalogPriceSort)
  <2>1. Quiet(Read("cheapest", [status |-> 200, first |-> "sticker"]))
    BY ReadQuiet DEF Reads, SeededRead, Ok
  <2> QED
    BY <2>1, QuietOne DEF CatalogPriceSort
<1>6. AllQuiet(CatalogProductNotFound)
  <2>1. Quiet(Read("missing", [status |-> 404]))
    BY ReadQuiet DEF Reads, SeededRead, Ok
  <2> QED
    BY <2>1, QuietOne DEF CatalogProductNotFound
<1>7. AllQuiet(SearchNotebookSuccess)
  <2>1. Quiet(Read("notebook", [status |-> 200, first |-> "notebook"]))
    BY ReadQuiet DEF Reads, SeededRead, Ok
  <2> QED
    BY <2>1, QuietOne DEF SearchNotebookSuccess
<1>8. AllQuiet(SearchZeroResult)
  <2>1. Quiet(Read("nothing", [status |-> 200, total |-> 0]))
    BY ReadQuiet DEF Reads, SeededRead, Ok
  <2> QED
    BY <2>1, QuietOne DEF SearchZeroResult
<1>9. AllQuiet(SearchValidationFailure)
  <2>1. Quiet(Read("short", [status |-> 400]))
    BY ReadQuiet DEF Reads, SeededRead, Ok
  <2> QED
    BY <2>1, QuietOne DEF SearchValidationFailure
<1>10. AllQuiet(RecommendationSuccess)
  <2>1. Quiet(Read("recommend", Ok))
    BY ReadQuiet DEF Reads, SeededRead, Ok
  <2> QED
    BY <2>1, QuietOne DEF RecommendationSuccess
<1>11. AllQuiet(RecommendationLimitValidation)
  <2>1. Quiet(Read("too_many", [status |-> 400]))
    BY ReadQuiet DEF Reads, SeededRead, Ok
  <2> QED
    BY <2>1, QuietOne DEF RecommendationLimitValidation
<1>12. AllQuiet(BuyerPaymentValidationFailure)
  <2>1. Quiet(Step("pay", "pay", Two, Given(2), "fail_without_code", [status |-> 400]))
    BY PayRefused
  <2> QED
    BY <2>1, QuietOne DEF BuyerPaymentValidationFailure
<1>13. AllQuiet(BuyerCrossOrderAccessDenied)
  <2>1. Quiet(Step("read", "show", Two, Given(1), "", [status |-> 404]))
    BY ZenonT(60), ShowRefused
  <2> QED
    BY ZenonT(60), <2>1, QuietOne DEF BuyerCrossOrderAccessDenied
<1>14. AllQuiet(RouteNotFound)
  <2>1. Quiet(Read("no_route", [status |-> 404]))
    BY ReadQuiet DEF Reads, SeededRead, Ok
  <2> QED
    BY <2>1, QuietOne DEF RouteNotFound
<1>15. AllQuiet(FaultSearchDelay)
  <2>1. Quiet(Read("notebook", Ok))
    BY ReadQuiet DEF Reads, SeededRead, Ok
  <2> QED
    BY <2>1, QuietOne DEF FaultSearchDelay
<1>16. AllQuiet(FaultSearchError)
  <2>1. Quiet(Faulty(Read("notebook", Ok)))
    BY FaultQuiet
  <2> QED
    BY <2>1, QuietOne DEF FaultSearchError
<1>17. AllQuiet(FaultUnhandledException)
  <2>1. Quiet(Faulty(Read("notebook", Ok)))
    BY FaultQuiet
  <2> QED
    BY <2>1, QuietOne DEF FaultUnhandledException
<1>18. AllQuiet(LabelCoverageMissingBuyer)
  <2>1. Quiet(Read("no_buyer", [status |-> 401]))
    BY ReadQuiet DEF Reads, SeededRead, Ok
  <2> QED
    BY <2>1, QuietOne DEF LabelCoverageMissingBuyer
<1> QED
  BY <1>1, <1>2, <1>3, <1>4, <1>5, <1>6, <1>7, <1>8, <1>9,
     <1>10, <1>11, <1>12, <1>13, <1>14, <1>15, <1>16, <1>17, <1>18, TemplateOf DEF QuietIds

-----------------------------------------------------------------------------
(* A scenario on its way. *)

\* The homes a scenario may rely on when it starts.
IsHome(c, b) == c \in {Free(b)} \cup (IF b = One THEN {Seeded1} ELSE {})

\* After n steps; what it has found out and done so far lets it go on to its end, where it leaves home.
Amid(steps, n, s, context, home, on, by) ==
  \E cuts : Course(steps, cuts, home, on, by) /\ Holds(cuts[n + 1], s, context)

\* The same, where it returns home.
Returning(steps, n, s, context, home, on, by) ==
  \E cuts : /\ Course(steps, cuts, home, on, by) /\ cuts[Len(steps) + 1] = home
            /\ Holds(cuts[n + 1], s, context)

\* A home is about the shop only.
LEMMA HomeHolds ==
  ASSUME NEW b, NEW home, IsHome(home, b), NEW s, NEW context, NEW other, Holds(home, s, context)
  PROVE  Holds(home, s, other)
<1>1. CASE home = Free(b)
  BY <1>1, FreeCut
<1>2. CASE home = Seeded1
  BY <1>2, SeededCut
<1> QED
  BY <1>1, <1>2 DEF IsHome

\* What a buyer relies on outlives the steps of everybody else.
LEMMA HoldsElsewhere ==
  ASSUME NEW s, Sound(s), NEW t, NEW who, Leaves(who, s, t), NEW c, c.who \in Buyer, c.who # who,
         NEW context, Holds(c, s, context)
  PROVE  Holds(c, t, context)
<1> DEFINE b == c.who
<1>1. /\ t.lines[b] = s.lines[b] /\ (s.cart[b] # 0 => t.cart[b] = s.cart[b])
      /\ \A o \in Order : o.owner = b => (o \in t.orders <=> o \in s.orders)
  BY DEF Leaves
<1>2. s.orders \in SUBSET Order
  BY DEF Sound
<1>3. IsFree(s, b) => IsFree(t, b)
  BY <1>1 DEF IsFree
<1>4. HasSeededLine(s, b) => HasSeededLine(t, b)
  BY <1>1 DEF HasSeededLine
<1>5. ASSUME NEW answer, IsFilled(s, b, answer) PROVE IsFilled(t, b, answer)
  BY <1>1, <1>5 DEF IsFilled
<1>6. ASSUME NEW answer, NEW state, IsOrdered(s, b, answer, state) PROVE IsOrdered(t, b, answer, state)
  <2> DEFINE o == [id |-> answer["order"], owner |-> b, state |-> state]
  <2>1. o \in s.orders
    BY <1>6 DEF IsOrdered
  <2>2. o \in Order /\ o.owner = b
    BY <1>2, <2>1
  <2>3. o \in t.orders
    BY <1>1, <2>1, <2>2
  <2> QED
    BY <1>1, <1>6, <2>3 DEF IsOrdered
<1> QED
  BY <1>1, <1>3, <1>4, <1>5, <1>6 DEF Holds

\* Between two steps, somebody else's step is not noticed.
LEMMA AmidElsewhere ==
  ASSUME NEW steps, NEW n \in 0..Len(steps), NEW s, Sound(s), NEW t, NEW who, Leaves(who, s, t), NEW context,
         NEW home, NEW on \in Buyer, on # who, NEW by,
         Returning(steps, n, s, context, home, on, by)
  PROVE  Returning(steps, n, t, context, home, on, by)
<1>1. PICK cuts : /\ Course(steps, cuts, home, on, by) /\ cuts[Len(steps) + 1] = home
                  /\ Holds(cuts[n + 1], s, context)
  BY DEF Returning
<1>2. Len(steps) \in Nat /\ Len(cuts) = Len(steps) + 1
  BY <1>1 DEF Course, IsScript
<1>3. n + 1 \in 1..Len(cuts)
  BY <1>2
<1>4. cuts[n + 1].who = on
  BY <1>1, <1>3 DEF Course
<1>5. Holds(cuts[n + 1], t, context)
  BY <1>1, <1>4, HoldsElsewhere
<1> QED
  BY <1>1, <1>5 DEF Returning

\* The next step of a scenario passes and leaves the others alone.
Advances(steps, n, s, context, by) ==
  LET sent == Send(s, steps[n + 1], context)
  IN  Accepts(steps[n + 1], s, context) /\ Sound(sent.shop) /\ Leaves(by, s, sent.shop)

\* The answers so far, after the next one.
ContextAfter(steps, n, s, context) ==
  With(context, steps[n + 1].id, Send(s, steps[n + 1], context).answer)

\* From a cut the next step passes, and the next cut holds after it.
LEMMA CourseAdvances ==
  ASSUME NEW steps, NEW cuts, NEW home, NEW on, NEW by, Course(steps, cuts, home, on, by),
         NEW n \in 0..(Len(steps) - 1), NEW s, Sound(s), NEW context, Holds(cuts[n + 1], s, context)
  PROVE  /\ Advances(steps, n, s, context, by)
         /\ Holds(cuts[n + 2], Send(s, steps[n + 1], context).shop, ContextAfter(steps, n, s, context))
<1>1. Len(steps) \in Nat
  BY DEF Course, IsScript
<1>2. n + 1 \in 1..Len(steps) /\ (n + 1) + 1 = n + 2
  BY <1>1
<1>3. Leads(cuts[n + 1], steps[n + 1], cuts[n + 2], by)
  BY <1>2 DEF Course
<1> QED
  BY <1>3 DEF Leads, Advances, ContextAfter

\* So a scenario on its way gets on.
LEMMA AmidAdvances ==
  ASSUME NEW steps, NEW home, NEW on, NEW by, NEW n \in 0..(Len(steps) - 1), NEW s, Sound(s), NEW context,
         Amid(steps, n, s, context, home, on, by)
  PROVE  /\ Advances(steps, n, s, context, by)
         /\ Amid(steps, n + 1, Send(s, steps[n + 1], context).shop, ContextAfter(steps, n, s, context),
                 home, on, by)
<1>1. PICK cuts : Course(steps, cuts, home, on, by) /\ Holds(cuts[n + 1], s, context)
  BY DEF Amid
<1> DEFINE t == Send(s, steps[n + 1], context).shop
           later == ContextAfter(steps, n, s, context)
<1>2. Advances(steps, n, s, context, by) /\ Holds(cuts[n + 2], t, later)
  BY <1>1, CourseAdvances
<1>3. (n + 1) + 1 = n + 2
  BY DEF Course, IsScript
<1> HIDE DEF t, later
<1>4. Amid(steps, n + 1, t, later, home, on, by)
  BY <1>1, <1>2, <1>3 DEF Amid
<1> QED
  BY <1>2, <1>4 DEF t, later

\* And one that returns home gets on, and is home after its last step.
LEMMA ReturningAdvances ==
  ASSUME NEW steps, NEW home, NEW on, NEW by, NEW n \in 0..(Len(steps) - 1), NEW s, Sound(s), NEW context,
         Returning(steps, n, s, context, home, on, by), Len(steps) \in Nat
  PROVE  /\ Advances(steps, n, s, context, by)
         /\ Returning(steps, n + 1, Send(s, steps[n + 1], context).shop, ContextAfter(steps, n, s, context),
                 home, on, by)
         /\ n + 1 = Len(steps) => Holds(home, Send(s, steps[n + 1], context).shop, ContextAfter(steps, n, s, context))
<1>1. PICK cuts : /\ Course(steps, cuts, home, on, by) /\ cuts[Len(steps) + 1] = home
                  /\ Holds(cuts[n + 1], s, context)
  BY DEF Returning
<1> DEFINE t == Send(s, steps[n + 1], context).shop
           later == ContextAfter(steps, n, s, context)
<1>2. Advances(steps, n, s, context, by) /\ Holds(cuts[n + 2], t, later)
  BY <1>1, CourseAdvances
<1>3. (n + 1) + 1 = n + 2
  OBVIOUS
<1> HIDE DEF t, later
<1>4. Returning(steps, n + 1, t, later, home, on, by)
  BY <1>1, <1>2, <1>3 DEF Returning
<1>5. n + 1 = Len(steps) => Holds(home, t, later)
  BY <1>1, <1>2, <1>3
<1> QED
  BY <1>2, <1>4, <1>5 DEF t, later

\* The least of the places that are left.
LEMMA MinIn ==
  ASSUME NEW S, S \subseteq Nat, S # {}
  PROVE  Min(S) \in S /\ \A y \in S : Min(S) <= y
<1> DEFINE R == OpToRel(<, Nat)
<1>1. IsWellFoundedOn(R, Nat)
  BY NatLessThanWellFounded
<1> HIDE DEF R
<1>2. PICK x \in S : \A y \in S : ~(<<y, x>> \in R)
  BY <1>1, WFMin
<1>3. \A y \in S : x <= y
  <2>1. ASSUME NEW y \in S, y < x PROVE FALSE
    <3>1. <<y, x>> \in R
      BY <2>1 DEF R, OpToRel
    <3> QED
      BY <3>1, <1>2
  <2> QED
    BY <2>1
<1> QED
  BY <1>3 DEF Min

\* A reset gives every scenario its home.
LEMMA SeededSound ==
  ASSUME MaxQuantity > 1, NEW n \in Nat, n > 2
  PROVE  /\ Sound(Seeded(n))
         /\ \A context, b : \A c : b \in Buyer /\ IsHome(c, b) => Holds(c, Seeded(n), context)
<1> DEFINE s == Seeded(n)
           l == [id |-> 1, variant |-> "notebook", quantity |-> 1]
           orders == {[id |-> 1, owner |-> One, state |-> "paid"],
                      [id |-> 2, owner |-> Two, state |-> "payment_failed"]}
<1>1. /\ s.lines[One] = <<l>> /\ s.lines[Two] = <<>>
  BY DEF Seeded, Buyer, One, Two
<1>2. l \in Line /\ l.variant = "notebook" /\ l.quantity = 1 /\ l.id = 1
  BY DEF Line
<1>3. IsFree(s, One)
  BY <1>1, <1>2, MaxQuantityAssumption DEF IsFree
<1>4. IsFree(s, Two)
  BY <1>1 DEF IsFree
<1>5. HasSeededLine(s, One)
  BY <1>1, <1>2 DEF HasSeededLine
<1>6. orders \in SUBSET Order
  BY DEF Order, Buyer, State
<1>7. s.orders = orders /\ s.next = n
  BY DEF Seeded
<1>8. s.cart \in [Buyer -> Nat] /\ s.lines = [b \in Buyer |-> s.lines[b]]
  BY DEF Seeded
<1>9. s \in ShopOf(s.cart, s.lines, s.orders, s.next)
  BY DEF Seeded, ShopOf
<1>10. \A o \in orders : o.id < n /\ (o.id = 1 => o.owner = One)
  OBVIOUS
<1>11. \A o, p \in orders : o.id = p.id => o = p
  OBVIOUS
<1> HIDE DEF s, orders, l
<1>12. Sound(s)
  BY <1>6, <1>7, <1>8, <1>9, <1>10, <1>11 DEF Sound
<1>13. ASSUME NEW context, NEW b \in Buyer, NEW c, IsHome(c, b) PROVE Holds(c, s, context)
  <2>1. CASE c = Free(b)
    BY <2>1, <1>3, <1>4, FreeCut DEF Buyer
  <2>2. CASE c = Seeded1
    BY <2>2, <1>5, SeededCut
  <2> QED
    BY <1>13, <2>1, <2>2 DEF IsHome
<1> QED
  BY <1>12, <1>13 DEF s

-----------------------------------------------------------------------------
(* The templates. *)

\* No step is optional.
Plain(step) == step.optional = FALSE
AllPlain(steps) == \A k \in 1..Len(steps) : Plain(steps[k])

\* The reads are required.
LEMMA ReadPlain ==
  ASSUME NEW call, NEW expect
  PROVE  Plain(Read(call, expect)) /\ Plain(Faulty(Read(call, expect)))
BY DEF Plain, Step, Read, Faulty

\* The web has no optional step.
LEMMA PlainTemplates == \A id \in BuyerTemplates \cup OtherTemplates : AllPlain(Template[id])
<1>1. AllPlain(HealthSuccess)
  BY ReadPlain DEF AllPlain, HealthSuccess
<1>2. AllPlain(MetricsTextCheck)
  BY ReadPlain DEF AllPlain, MetricsTextCheck
<1>3. AllPlain(HealthMetricsParallel)
  BY ReadPlain DEF AllPlain, HealthMetricsParallel
<1>4. AllPlain(CatalogListSuccess)
  BY ReadPlain DEF AllPlain, CatalogListSuccess
<1>5. AllPlain(CatalogPriceSort)
  BY ReadPlain DEF AllPlain, CatalogPriceSort
<1>6. AllPlain(CatalogProductNotFound)
  BY ReadPlain DEF AllPlain, CatalogProductNotFound
<1>7. AllPlain(SearchNotebookSuccess)
  BY ReadPlain DEF AllPlain, SearchNotebookSuccess
<1>8. AllPlain(SearchZeroResult)
  BY ReadPlain DEF AllPlain, SearchZeroResult
<1>9. AllPlain(SearchValidationFailure)
  BY ReadPlain DEF AllPlain, SearchValidationFailure
<1>10. AllPlain(RecommendationSuccess)
  BY ReadPlain DEF AllPlain, RecommendationSuccess
<1>11. AllPlain(RecommendationLimitValidation)
  BY ReadPlain DEF AllPlain, RecommendationLimitValidation
<1>12. AllPlain(BuyerSuccessFunnel)
  <2>1. Plain(BuyerSuccessFunnel[1])
    BY DEF Plain, Step, Read, BuyerSuccessFunnel
  <2>2. Plain(BuyerSuccessFunnel[2])
    BY DEF Plain, Step, Read, BuyerSuccessFunnel
  <2>3. Plain(BuyerSuccessFunnel[3])
    BY DEF Plain, Step, Read, BuyerSuccessFunnel
  <2>4. Plain(BuyerSuccessFunnel[4])
    BY DEF Plain, Step, Read, BuyerSuccessFunnel
  <2>5. Plain(BuyerSuccessFunnel[5])
    BY DEF Plain, Step, Read, BuyerSuccessFunnel
  <2>6. Plain(BuyerSuccessFunnel[6])
    BY DEF Plain, Step, Read, BuyerSuccessFunnel
  <2>7. Plain(BuyerSuccessFunnel[7])
    BY DEF Plain, Step, Read, BuyerSuccessFunnel
  <2>8. Plain(BuyerSuccessFunnel[8])
    BY DEF Plain, Step, Read, BuyerSuccessFunnel
  <2>9. Len(BuyerSuccessFunnel) = 8
    BY DEF BuyerSuccessFunnel
  <2> QED
    BY <2>1, <2>2, <2>3, <2>4, <2>5, <2>6, <2>7, <2>8, <2>9 DEF AllPlain
<1>13. AllPlain(BuyerFailureFunnel)
  <2>1. Plain(BuyerFailureFunnel[1])
    BY DEF Plain, Step, Read, BuyerFailureFunnel
  <2>2. Plain(BuyerFailureFunnel[2])
    BY DEF Plain, Step, Read, BuyerFailureFunnel
  <2>3. Plain(BuyerFailureFunnel[3])
    BY DEF Plain, Step, Read, BuyerFailureFunnel
  <2>4. Plain(BuyerFailureFunnel[4])
    BY DEF Plain, Step, Read, BuyerFailureFunnel
  <2>5. Plain(BuyerFailureFunnel[5])
    BY DEF Plain, Step, Read, BuyerFailureFunnel
  <2>6. Plain(BuyerFailureFunnel[6])
    BY DEF Plain, Step, Read, BuyerFailureFunnel
  <2>7. Len(BuyerFailureFunnel) = 6
    BY DEF BuyerFailureFunnel
  <2> QED
    BY <2>1, <2>2, <2>3, <2>4, <2>5, <2>6, <2>7 DEF AllPlain
<1>14. AllPlain(BuyerCartValidationFailure)
  <2>1. Plain(BuyerCartValidationFailure[1])
    BY DEF Plain, Step, Read, BuyerCartValidationFailure
  <2>2. Plain(BuyerCartValidationFailure[2])
    BY DEF Plain, Step, Read, BuyerCartValidationFailure
  <2>3. Len(BuyerCartValidationFailure) = 2
    BY DEF BuyerCartValidationFailure
  <2> QED
    BY <2>1, <2>2, <2>3 DEF AllPlain
<1>15. AllPlain(BuyerCartAddDeleteRoundtrip)
  <2>1. Plain(BuyerCartAddDeleteRoundtrip[1])
    BY DEF Plain, Step, Read, BuyerCartAddDeleteRoundtrip
  <2>2. Plain(BuyerCartAddDeleteRoundtrip[2])
    BY DEF Plain, Step, Read, BuyerCartAddDeleteRoundtrip
  <2>3. Plain(BuyerCartAddDeleteRoundtrip[3])
    BY DEF Plain, Step, Read, BuyerCartAddDeleteRoundtrip
  <2>4. Len(BuyerCartAddDeleteRoundtrip) = 3
    BY DEF BuyerCartAddDeleteRoundtrip
  <2> QED
    BY <2>1, <2>2, <2>3, <2>4 DEF AllPlain
<1>16. AllPlain(BuyerEmptyCartCheckoutConflict)
  <2>1. Plain(BuyerEmptyCartCheckoutConflict[1])
    BY DEF Plain, Step, Read, BuyerEmptyCartCheckoutConflict
  <2>2. Plain(BuyerEmptyCartCheckoutConflict[2])
    BY DEF Plain, Step, Read, BuyerEmptyCartCheckoutConflict
  <2>3. Len(BuyerEmptyCartCheckoutConflict) = 2
    BY DEF BuyerEmptyCartCheckoutConflict
  <2> QED
    BY <2>1, <2>2, <2>3 DEF AllPlain
<1>17. AllPlain(BuyerPaymentValidationFailure)
  <2>1. Plain(BuyerPaymentValidationFailure[1])
    BY DEF Plain, Step, Read, BuyerPaymentValidationFailure
  <2>2. Len(BuyerPaymentValidationFailure) = 1
    BY DEF BuyerPaymentValidationFailure
  <2> QED
    BY <2>1, <2>2 DEF AllPlain
<1>18. AllPlain(BuyerCrossOrderAccessDenied)
  <2>1. Plain(BuyerCrossOrderAccessDenied[1])
    BY DEF Plain, Step, Read, BuyerCrossOrderAccessDenied
  <2>2. Len(BuyerCrossOrderAccessDenied) = 1
    BY DEF BuyerCrossOrderAccessDenied
  <2> QED
    BY <2>1, <2>2 DEF AllPlain
<1>19. AllPlain(RouteNotFound)
  BY ReadPlain DEF AllPlain, RouteNotFound
<1>20. AllPlain(FaultSearchDelay)
  BY ReadPlain DEF AllPlain, FaultSearchDelay
<1>21. AllPlain(FaultSearchError)
  BY ReadPlain DEF AllPlain, FaultSearchError
<1>22. AllPlain(FaultCartDelay)
  <2>1. Plain(FaultCartDelay[1])
    BY DEF Plain, Step, Read, FaultCartDelay
  <2>2. Len(FaultCartDelay) = 1
    BY DEF FaultCartDelay
  <2> QED
    BY <2>1, <2>2 DEF AllPlain
<1>23. AllPlain(FaultOrderDelay)
  <2>1. Plain(FaultOrderDelay[1])
    BY DEF Plain, Step, Read, FaultOrderDelay
  <2>2. Plain(FaultOrderDelay[2])
    BY DEF Plain, Step, Read, FaultOrderDelay
  <2>3. Len(FaultOrderDelay) = 2
    BY DEF FaultOrderDelay
  <2> QED
    BY <2>1, <2>2, <2>3 DEF AllPlain
<1>24. AllPlain(FaultPaymentDelay)
  <2>1. Plain(FaultPaymentDelay[1])
    BY DEF Plain, Step, Read, FaultPaymentDelay
  <2>2. Plain(FaultPaymentDelay[2])
    BY DEF Plain, Step, Read, FaultPaymentDelay
  <2>3. Plain(FaultPaymentDelay[3])
    BY DEF Plain, Step, Read, FaultPaymentDelay
  <2>4. Len(FaultPaymentDelay) = 3
    BY DEF FaultPaymentDelay
  <2> QED
    BY <2>1, <2>2, <2>3, <2>4 DEF AllPlain
<1>25. AllPlain(FaultUnhandledException)
  BY ReadPlain DEF AllPlain, FaultUnhandledException
<1>26. AllPlain(LabelCoverageMissingBuyer)
  BY ReadPlain DEF AllPlain, LabelCoverageMissingBuyer
<1> QED
  BY <1>1, <1>2, <1>3, <1>4, <1>5, <1>6, <1>7, <1>8, <1>9, <1>10, <1>11, <1>12, <1>13, <1>14,
     <1>15, <1>16, <1>17, <1>18, <1>19, <1>20, <1>21, <1>22, <1>23, <1>24, <1>25, <1>26,
     TemplateOf DEF BuyerTemplates, OtherTemplates

\* From its home a scenario runs to its end.
Fits(steps) ==
  \/ AllQuiet(steps)
  \/ \E on \in Buyer : \E home, by : IsHome(home, on) /\ Departs(steps, home, on, by)

\* What returns home has left it.
LEMMA ReturnsDeparts ==
  ASSUME NEW steps, NEW home, NEW on, NEW by, Returns(steps, home, on, by)
  PROVE  Departs(steps, home, on, by)
BY DEF Returns, Departs

\* The homes there are.
LEMMA HomesAre ==
  IsHome(Free(One), One) /\ IsHome(Seeded1, One) /\ IsHome(Free(Two), Two)
BY DEF IsHome

\* A scenario fits if it has a course from the home of a buyer.
LEMMA FitsWhen ==
  ASSUME NEW steps, NEW on \in Buyer, NEW home, NEW by, IsHome(home, on), Departs(steps, home, on, by)
  PROVE  Fits(steps)
BY DEF Fits

\* Every template does.
LEMMA TemplatesFit ==
  ASSUME MaxQuantity > 1
  PROVE  \A id \in BuyerTemplates \cup OtherTemplates : Fits(Template[id])
<1>1. \A id \in QuietIds : Fits(Template[id])
  BY QuietTemplates DEF Fits
<1>2. Fits(BuyerSuccessFunnel)
  BY SuccessFunnel, ReturnsDeparts, HomesAre, FitsWhen, Words
<1>3. Fits(BuyerFailureFunnel)
  BY FailureFunnel, ReturnsDeparts, HomesAre, FitsWhen, Words
<1>4. Fits(BuyerCartValidationFailure)
  BY WebValidation, ReturnsDeparts, HomesAre, FitsWhen, Words
<1>5. Fits(BuyerCartAddDeleteRoundtrip)
  BY Roundtrip, ReturnsDeparts, HomesAre, FitsWhen, Words
<1>6. Fits(BuyerEmptyCartCheckoutConflict)
  BY WebConflict, ReturnsDeparts, HomesAre, FitsWhen, Words
<1>7. Fits(FaultCartDelay)
  BY CartDelay, HomesAre, FitsWhen, Words
<1>8. Fits(FaultOrderDelay)
  BY OrderDelay, ReturnsDeparts, HomesAre, FitsWhen, Words
<1>9. Fits(FaultPaymentDelay)
  BY PaymentDelay, ReturnsDeparts, HomesAre, FitsWhen, Words
<1> QED
  BY <1>1, <1>2, <1>3, <1>4, <1>5, <1>6, <1>7, <1>8, <1>9, TemplateOf
     DEF BuyerTemplates, OtherTemplates, QuietIds

\* Of the readers, all but the faults that write are quiet.
LEMMA OthersQuiet == \A id \in OtherTemplates : id \in FaultWriters \/ AllQuiet(Template[id])
BY QuietTemplates DEF OtherTemplates, QuietIds, FaultWriters

-----------------------------------------------------------------------------
(* A batch. *)

\* Groups that do not disturb each other: at most one of them is not quiet, and only the buyers' one
\* goes on to another scenario, after a reset.
Peaceful(ids) ==
  /\ ids \in Seq(BuyerTemplates \cup OtherTemplates)
  /\ \A i, j \in DOMAIN ids :
       /\ Group(ids[i]) = "buyer" => Group(ids[j]) = "buyer"
       /\ Group(ids[i]) = Group(ids[j]) => i = j \/ Group(ids[i]) = "buyer"
       /\ Group(ids[i]) # Group(ids[j]) => AllQuiet(Template[ids[i]]) \/ AllQuiet(Template[ids[j]])
       /\ Group(ids[i]) # "single"

\* A set of at most one element has no two.
LEMMA AtMostOne ==
  ASSUME NEW S, IsFiniteSet(S), Cardinality(S) <= 1, NEW x \in S, NEW y \in S
  PROVE  x = y
<1>1. SUFFICES ASSUME x # y PROVE FALSE
  OBVIOUS
<1> DEFINE T == {x}
<1>2. IsFiniteSet(T) /\ Cardinality(T) = 1 /\ y \notin T
  BY <1>1, FS_Singleton
<1> HIDE DEF T
<1>3. Cardinality(T \cup {y}) = Cardinality(T) + 1
  BY <1>2, FS_AddElement
<1>4. Cardinality({x, y}) <= Cardinality(S) /\ Cardinality(S) \in Nat
  BY FS_Subset, FS_CardinalityType
<1>5. T \cup {y} = {x, y}
  BY DEF T
<1> QED
  BY <1>2, <1>3, <1>4, <1>5

\* The group of a scenario.
LEMMA GroupOf ==
  /\ \A id \in BuyerTemplates : Group(id) = "buyer"
  /\ \A id \in OtherTemplates : Group(id) = id /\ id # "buyer" /\ id # "single" /\ id \notin BuyerTemplates
  /\ Group("buyer-success-funnel") = "buyer" /\ "buyer" # "single"
BY DEF Group, BuyerTemplates, OtherTemplates

\* The faults that write are three.
LEMMA WritersFinite == IsFiniteSet(FaultWriters)
<1>1. IsFiniteSet({"fault-cart-delay"})
  BY FS_Singleton
<1>2. IsFiniteSet({"fault-cart-delay"} \cup {"fault-order-delay"})
  BY <1>1, FS_AddElement
<1>3. IsFiniteSet({"fault-cart-delay"} \cup {"fault-order-delay"} \cup {"fault-payment-delay"})
  BY <1>2, FS_AddElement
<1>4. FaultWriters = {"fault-cart-delay"} \cup {"fault-order-delay"} \cup {"fault-payment-delay"}
  BY DEF FaultWriters
<1> QED
  BY <1>3, <1>4

\* Both kinds of batches of BatchesGreen are like that.
LEMMA BatchesPeaceful ==
  ASSUME batch \in Seq(DOMAIN Template), IsInjective(batch), single = <<>>, IsBuyers \/ IsReaders
  PROVE  Peaceful(batch)
<1>1. batch \in Seq(BuyerTemplates \cup OtherTemplates)
  BY DEF Template
<1>2. \A i \in DOMAIN batch : batch[i] \in BuyerTemplates \cup OtherTemplates /\ batch[i] \in Elements(batch)
  BY <1>1 DEF Elements
<1>3. CASE IsBuyers
  <2>1. \A i \in DOMAIN batch : batch[i] \in BuyerTemplates
    BY <1>2, <1>3 DEF IsBuyers
  <2>2. \A i \in DOMAIN batch : Group(batch[i]) = "buyer"
    BY <2>1, GroupOf
  <2> QED
    BY <1>1, <2>2, GroupOf DEF Peaceful
<1>4. CASE IsReaders
  <2>1. \A i \in DOMAIN batch : Group(batch[i]) \in Groups
    BY <1>2 DEF Groups
  <2>2. "buyer" \notin Groups
    BY <1>4, GroupOf DEF IsReaders
  <2>3. \A i \in DOMAIN batch : batch[i] \in OtherTemplates
    BY <1>2, <2>1, <2>2, GroupOf
  <2>4. \A i \in DOMAIN batch : Group(batch[i]) = batch[i] /\ Group(batch[i]) # "buyer" /\ Group(batch[i]) # "single"
    BY <2>3, GroupOf
  <2>5. \A i, j \in DOMAIN batch : batch[i] = batch[j] => i = j
    BY DEF IsInjective
  <2>6. ASSUME NEW i \in DOMAIN batch, NEW j \in DOMAIN batch, batch[i] # batch[j]
        PROVE  AllQuiet(Template[batch[i]]) \/ AllQuiet(Template[batch[j]])
    <3> DEFINE S == Elements(batch) \cap FaultWriters
    <3>1. IsFiniteSet(S) /\ Cardinality(S) <= 1
      BY <1>4, WritersFinite, FS_Subset DEF IsReaders
    <3>2. ~(batch[i] \in FaultWriters /\ batch[j] \in FaultWriters)
      <4>1. SUFFICES ASSUME batch[i] \in FaultWriters, batch[j] \in FaultWriters PROVE FALSE
        OBVIOUS
      <4>2. batch[i] \in S /\ batch[j] \in S
        BY <1>2, <4>1
      <4> HIDE DEF S
      <4>3. batch[i] = batch[j]
        BY <3>1, <4>2, AtMostOne
      <4> QED
        BY <2>6, <4>3
    <3> QED
      BY <2>3, <3>2, OthersQuiet
  <2> QED
    BY <1>1, <2>4, <2>5, <2>6 DEF Peaceful
<1> QED
  BY <1>3, <1>4

\* Where in the batch the scenarios of a group are.
Places(g) == {i \in DOMAIN batch : Group(batch[i]) = g}

\* Before the groups start.
Before == phase \in {"wipe", "fill"}

\* A scenario with the run r so far goes on to its end on the shop s.
Going(id, r, s) ==
  \/ AllQuiet(Template[id])
  \/ /\ ~IsParallel(id)
     /\ \E n, home, on, by : /\ n \in 0..(Len(Template[id]) - 1) /\ r.sent = 1..n
                              /\ Amid(Template[id], n, s, r.context, home, on, by)

\* No scenario has failed and the current one will not.
GroupInv(g) ==
  /\ left[g] \subseteq Places(g) /\ (stage[g] # "done" => left[g] # {})
  /\ run[g].passed = TRUE
  /\ stage[g] \in {"wipe", "fill"} => g = "buyer"
  /\ Before => stage[g] = First(g)
  /\ Before \/ stage[g] \in {"wipe", "fill"} => run[g] = NewRun
  /\ ~Before /\ stage[g] = "steps" => Going(Current(g), run[g], shop)

\* No k6 test was started.
NoK6 == stageK6 = "wipe" /\ test.vus = 0 /\ vu = [v \in Vu |-> Idle]

\* A batch that has the shop to itself: its scenarios do not spoil each other, and none has failed.
BatchInv ==
  /\ Peaceful(batch) /\ single = <<>> /\ NoK6 /\ phase # "failed"
  /\ shop.next \in Nat /\ shop.next > 2
  /\ Before \/ Sound(shop) \/ \E g \in Groups : stage[g] = "fill"
  /\ DOMAIN left = Groups /\ \A g \in Groups : GroupInv(g)
  /\ \A id \in DOMAIN results : results[id] = TRUE

\* The groups are those of the batch.
LEMMA GroupsAre ==
  ASSUME BatchInv, NEW g \in Groups
  PROVE  /\ g # "single" /\ Chosen(g) = batch
         /\ \E i \in DOMAIN batch : Group(batch[i]) = g
         /\ \A i \in DOMAIN batch : batch[i] \in BuyerTemplates \cup OtherTemplates
<1>1. Elements(single) = {}
  BY DEF BatchInv, Elements
<1>2. PICK i \in DOMAIN batch : Group(batch[i]) = g
  BY <1>1 DEF Groups, Elements
<1>3. g # "single"
  BY <1>2 DEF BatchInv, Peaceful
<1>4. \A j \in DOMAIN batch : batch[j] \in BuyerTemplates \cup OtherTemplates
  BY DEF BatchInv, Peaceful
<1> QED
  BY <1>2, <1>3, <1>4 DEF Chosen

\* They move in their phase only.
LEMMA GroupsGo ==
  ASSUME BatchInv, NEW g \in Groups, NEW at, MayGo(g, at)
  PROVE  phase = "groups" /\ stage[g] = at
<1>1. g # "single"
  BY GroupsAre
<1> QED
  BY <1>1 DEF BatchInv, MayGo

\* The buyers are alone.
LEMMA BuyersAlone ==
  ASSUME BatchInv, NEW g \in Groups, g = "buyer", NEW h \in Groups
  PROVE  h = g
BY GroupsAre DEF BatchInv, Peaceful

\* What a group is at.
LEMMA CurrentIn ==
  ASSUME BatchInv, NEW g \in Groups, left[g] # {}
  PROVE  /\ Min(left[g]) \in left[g] /\ Min(left[g]) \in DOMAIN batch
         /\ Current(g) = batch[Min(left[g])]
         /\ Group(Current(g)) = g /\ Current(g) \in BuyerTemplates \cup OtherTemplates
<1>1. left[g] \subseteq Places(g)
  BY DEF BatchInv, GroupInv
<1>2. DOMAIN batch \subseteq Nat
  BY DEF BatchInv, Peaceful
<1>3. left[g] \subseteq Nat
  BY <1>1, <1>2 DEF Places
<1>4. Min(left[g]) \in left[g]
  BY <1>3, MinIn
<1>5. Current(g) = batch[Min(left[g])]
  BY GroupsAre DEF Current
<1> QED
  BY <1>1, <1>4, <1>5, GroupsAre DEF Places

\* The shop is whole unless a group is about to fill it.
LEMMA SoundNow ==
  ASSUME BatchInv, ~Before, NEW g \in Groups, stage[g] # "fill"
  PROVE  Sound(shop)
<1>1. SUFFICES ASSUME NEW h \in Groups, stage[h] = "fill" PROVE FALSE
  BY DEF BatchInv
<1>2. h = "buyer"
  BY <1>1 DEF BatchInv, GroupInv
<1> QED
  BY <1>1, <1>2, BuyersAlone

\* A step of g does not disturb the others if it leaves the shop alone, or if g is the one that may.
LEMMA GroupMoves ==
  ASSUME BatchInv, NEW g \in Groups, OnlyIn(g), UNCHANGED <<batch, single, phase, k6Vars>>, phase = "groups",
         DOMAIN left' = Groups, \A h \in Groups \ {g} : left'[h] = left[h],
         \/ shop' = shop
         \/ g = "buyer"
         \/ stage[g] # "done" /\ ~AllQuiet(Template[Current(g)]),
         shop'.next \in Nat /\ shop'.next > 2,
         Sound(shop)' \/ stage'[g] = "fill",
         GroupInv(g)',
         \A id \in DOMAIN results' : results'[id] = TRUE
  PROVE  BatchInv'
<1>1. Groups' = Groups
  BY DEF OnlyIn
<1>2. ~Before /\ ~Before'
  BY DEF Before
<1>3. ASSUME NEW h \in Groups, h # g PROVE GroupInv(h)'
  <2>1. GroupInv(h)
    BY DEF BatchInv
  <2>2. stage'[h] = stage[h] /\ run'[h] = run[h] /\ left'[h] = left[h]
    BY <1>3 DEF OnlyIn
  <2>3. Places(h)' = Places(h)
    BY DEF Places
  <2>4. Current(h)' = Current(h)
    BY <2>2 DEF Current, Chosen
  <2>5. ASSUME stage[h] = "steps", Going(Current(h), run[h], shop) PROVE Going(Current(h), run[h], shop')
    <3>1. CASE shop' = shop
      BY <2>5, <3>1
    <3>2. CASE g = "buyer"
      BY <1>3, <3>2, BuyersAlone
    <3>3. CASE stage[g] # "done" /\ ~AllQuiet(Template[Current(g)])
      <4>1. left[g] # {} /\ left[h] # {}
        BY <2>1, <2>5, <3>3 DEF BatchInv, GroupInv
      <4>2. /\ Current(g) = batch[Min(left[g])] /\ Min(left[g]) \in DOMAIN batch /\ Group(Current(g)) = g
            /\ Current(h) = batch[Min(left[h])] /\ Min(left[h]) \in DOMAIN batch /\ Group(Current(h)) = h
        BY <4>1, CurrentIn
      <4>3. AllQuiet(Template[Current(g)]) \/ AllQuiet(Template[Current(h)])
        BY <1>3, <4>2 DEF BatchInv, Peaceful
      <4> QED
        BY <3>3, <4>3 DEF Going
    <3> QED
      BY <3>1, <3>2, <3>3
  <2> QED
    BY <1>2, <2>1, <2>2, <2>3, <2>4, <2>5 DEF GroupInv
<1>4. \A h \in Groups' : GroupInv(h)'
  BY <1>1, <1>3
<1>5. NoK6'
  BY DEF BatchInv, NoK6, k6Vars
<1>6. Peaceful(batch') /\ single' = <<>> /\ phase' # "failed"
  BY DEF BatchInv
<1>7. Before' \/ Sound(shop)' \/ \E h \in Groups' : stage'[h] = "fill"
  BY <1>1
<1> QED
  BY <1>1, <1>4, <1>5, <1>6, <1>7 DEF BatchInv

\* On the shop that was just filled every scenario starts well.
LEMMA StartsGoing ==
  ASSUME MaxQuantity > 1, NEW n \in Nat, n > 2, NEW id \in BuyerTemplates \cup OtherTemplates
  PROVE  Going(id, NewRun, Seeded(n))
<1> DEFINE steps == Template[id]
           s == Seeded(n)
<1>1. Fits(steps)
  BY TemplatesFit
<1>2. IsParallel(id) => AllQuiet(steps)
  BY QuietTemplates DEF IsParallel, QuietIds
<1>3. \A context, b : \A c : b \in Buyer /\ IsHome(c, b) => Holds(c, s, context)
  BY SeededSound
<1> HIDE DEF steps, s
<1>4. CASE AllQuiet(steps)
  BY <1>4 DEF Going, steps
<1>5. CASE ~AllQuiet(steps)
  <2>0. PICK on \in Buyer : \E home, by : IsHome(home, on) /\ Departs(steps, home, on, by)
    BY <1>1, <1>5 DEF Fits
  <2>1. PICK home, by : IsHome(home, on) /\ Departs(steps, home, on, by)
    BY <2>0
  <2>2. PICK cuts : Course(steps, cuts, home, on, by)
    BY <2>1 DEF Departs
  <2>3. Len(steps) \in Nat \ {0} /\ cuts[0 + 1] = home
    BY <2>2 DEF Course, IsScript
  <2>4. Holds(cuts[0 + 1], s, NewRun.context)
    BY <1>3, <2>1, <2>3
  <2>5. Amid(steps, 0, s, NewRun.context, home, on, by)
    BY <2>2, <2>4 DEF Amid
  <2>6. 0 \in 0..(Len(steps) - 1) /\ NewRun.sent = 1..0
    BY <2>3 DEF NewRun
  <2> QED
    BY <1>2, <1>5, <2>5, <2>6 DEF Going, steps, s
<1> QED
  BY <1>4, <1>5

\* A step of a scenario on its way: the answer passes, and the rest will.
LEMMA StepPasses ==
  ASSUME NEW id \in BuyerTemplates \cup OtherTemplates, NEW r, NEW s, Sound(s), Going(id, r, s),
         NEW i \in DOMAIN Template[id] \ r.sent,
         IsParallel(id) \/ \A j \in DOMAIN Template[id] \ r.sent : i <= j,
         NEW sent, sent = Send(s, Template[id][i], r.context),
         NEW t, t.sent = r.sent \cup {i}, t.context = With(r.context, Template[id][i].id, sent.answer)
  PROVE  /\ Passes(Template[id][i], sent.answer) /\ Sound(sent.shop)
         /\ t.sent # DOMAIN Template[id] => Going(id, t, sent.shop)
         /\ sent.shop = s \/ ~AllQuiet(Template[id])
<1> DEFINE steps == Template[id]
<1>a. AllPlain(steps)
  BY PlainTemplates
<1> HIDE DEF steps
<1>1. CASE AllQuiet(steps)
  <2>1. Quiet(steps[i])
    BY <1>1 DEF AllQuiet, IsScript, steps
  <2>2. sent.shop = s /\ Passes(steps[i], sent.answer)
    BY <2>1 DEF Quiet, steps
  <2> QED
    BY <1>1, <2>2 DEF Going, steps
<1>2. CASE ~AllQuiet(steps)
  <2>1. PICK n, home, on, by : /\ n \in 0..(Len(steps) - 1) /\ r.sent = 1..n
                                /\ Amid(steps, n, s, r.context, home, on, by)
    BY <1>2 DEF Going, steps
  <2>2. Len(steps) \in Nat /\ DOMAIN steps = 1..Len(steps)
    BY <2>1 DEF Amid, Course, IsScript
  <2>3. ~IsParallel(id)
    BY <1>2 DEF Going, steps
  <2>4. i = n + 1
    <3>1. i \in 1..Len(steps) /\ i \notin 1..n
      BY <2>1, <2>2 DEF steps
    <3>2. n + 1 \in DOMAIN steps \ r.sent
      BY <2>1, <2>2
    <3>3. i <= n + 1
      BY <2>3, <3>2 DEF steps
    <3> QED
      BY <2>1, <3>1, <3>3
  <2>5. sent = Send(s, steps[n + 1], r.context)
    BY <2>4 DEF steps
  <2>6. /\ Advances(steps, n, s, r.context, by)
        /\ Amid(steps, n + 1, sent.shop, ContextAfter(steps, n, s, r.context), home, on, by)
    BY <2>1, <2>5, AmidAdvances
  <2>7. Accepts(steps[n + 1], s, r.context) /\ Sound(sent.shop)
    BY <2>5, <2>6 DEF Advances
  <2>8. Plain(steps[n + 1])
    BY <1>a, <2>1, <2>2 DEF AllPlain
  <2>9. Passes(steps[n + 1], sent.answer)
    BY <2>5, <2>7, <2>8 DEF Accepts, Plain
  <2>10. t.context = ContextAfter(steps, n, s, r.context)
    BY <2>4, <2>5 DEF ContextAfter, steps
  <2>11. ASSUME t.sent # DOMAIN steps PROVE Going(id, t, sent.shop)
    <3>1. t.sent = 1..(n + 1)
      BY <2>1, <2>2, <2>4
    <3>2. n + 1 \in 0..(Len(steps) - 1)
      BY <2>1, <2>2, <2>11, <3>1
    <3>3. Amid(steps, n + 1, sent.shop, t.context, home, on, by)
      BY <2>6, <2>10
    <3> QED
      BY <2>3, <3>1, <3>2, <3>3 DEF Going, steps
  <2> QED
    BY <1>2, <2>4, <2>7, <2>9, <2>11 DEF steps
<1> QED
  BY <1>1, <1>2 DEF steps

\* A step of the current scenario of a group passes, and the other groups do not notice it.
LEMMA SendKeeps ==
  ASSUME BatchInv, KpiInv, NEW g \in Groups, SendStep(g), UNCHANGED k6Vars
  PROVE  BatchInv'
<1> DEFINE id == Current(g)
           steps == Template[id]
<1>1. /\ phase = "groups" /\ stage[g] = "steps" /\ UNCHANGED <<batch, single, phase, left, results>>
  BY GroupsGo DEF SendStep
<1>2. GroupInv(g) /\ ~Before
  BY <1>1 DEF BatchInv, Before
<1>3. left[g] # {} /\ run[g].passed = TRUE /\ Going(id, run[g], shop) /\ left[g] \subseteq Places(g)
  BY <1>1, <1>2 DEF GroupInv
<1>4. id \in BuyerTemplates \cup OtherTemplates
  BY <1>3, CurrentIn
<1>5. Sound(shop)
  BY <1>1, <1>2, SoundNow
<1>6. PICK i \in Sendable(g) :
        /\ shop' = Send(shop, Steps(g)[i], run[g].context).shop
        /\ run' = [run EXCEPT ![g].sent = @ \cup {i},
                              ![g].context = With(@, Steps(g)[i].id,
                                                  Send(shop, Steps(g)[i], run[g].context).answer),
                              ![g].passed = @ /\ Passes(Steps(g)[i],
                                                        Send(shop, Steps(g)[i], run[g].context).answer)]
  BY Zenon DEF SendStep
<1>7. Steps(g) = steps
  BY DEF Steps
<1> DEFINE sent == Send(shop, steps[i], run[g].context)
           ids == run[g].sent \cup {i}
           context == With(run[g].context, steps[i].id, sent.answer)
           passed == run[g].passed /\ Passes(steps[i], sent.answer)
           r == [run[g] EXCEPT !.sent = ids, !.context = context, !.passed = passed]
           to == IF run'[g].sent = DOMAIN steps THEN "count" ELSE "steps"
<1>8. run' = [run EXCEPT ![g] = r] /\ shop' = sent.shop
  BY <1>6, <1>7, Zenon
<1>9. i \in DOMAIN steps \ run[g].sent /\ (IsParallel(id) \/ \A j \in DOMAIN steps \ run[g].sent : i <= j)
  BY <1>6, <1>7 DEF Sendable
<1>10. stage' = [stage EXCEPT ![g] = to]
  BY <1>7 DEF SendStep, Go
<1>11. IsRun(run[g])
  BY DEF KpiInv, RunTyped
<1>12. passed \in BOOLEAN
  OBVIOUS
<1>13. IsRun(r)
  <2> HIDE DEF ids, context, passed
  <2> QED
    BY <1>11, <1>12, RunAfter
<1>14. r.sent = ids /\ r.context = context /\ r.passed = passed
  <2> HIDE DEF ids, context, passed
  <2>1. r \in [sent : {ids}, context : {context}, passed : {passed}, drilled : BOOLEAN]
    BY <1>11 DEF IsRun
  <2> QED
    BY <2>1
<1> HIDE DEF r, to
<1>15. KpiInv /\ kpi' = kpi /\ kpi' \in Counters
  BY DEF KpiInv, RunTyped, SendStep, kpiVars
<1>16. OnlyIn(g) /\ stage'[g] = to
  BY <1>1, <1>8, <1>10, <1>13, <1>15, TypedAfter DEF KpiInv
<1>17. run'[g] = r
  BY <1>8 DEF KpiInv, RunTyped
<1> HIDE DEF sent
<1>18. /\ Passes(steps[i], sent.answer) /\ Sound(sent.shop)
       /\ r.sent # DOMAIN steps => Going(id, r, sent.shop)
       /\ sent.shop = shop \/ ~AllQuiet(steps)
  <2>1. sent = Send(shop, steps[i], run[g].context)
    BY DEF sent
  <2>2. r.sent = run[g].sent \cup {i} /\ r.context = With(run[g].context, steps[i].id, sent.answer)
    BY <1>14
  <2> HIDE DEF id
  <2> QED
    BY <1>3, <1>4, <1>5, <1>9, <2>1, <2>2, StepPasses
<1>19. Current(g)' = id
  BY <1>1 DEF Current, Chosen
<1>20. GroupInv(g)'
  <2>1. run'[g].passed = TRUE
    BY <1>3, <1>14, <1>17, <1>18
  <2>2. to \in {"count", "steps"} /\ (to = "steps" => r.sent # DOMAIN steps)
    BY <1>17 DEF to
  <2>3. stage'[g] = "steps" => Going(id, run'[g], shop')
    BY <1>8, <1>16, <1>17, <1>18, <2>2
  <2>4. Places(g)' = Places(g) /\ ~Before'
    BY <1>1 DEF Places, Before
  <2> HIDE DEF id
  <2> QED
    BY <1>1, <1>3, <1>16, <1>19, <2>1, <2>2, <2>3, <2>4 DEF GroupInv
<1>21. DOMAIN left' = Groups
  BY <1>1 DEF BatchInv
<1>22. shop' = shop \/ (stage[g] # "done" /\ ~AllQuiet(Template[Current(g)]))
  BY <1>1, <1>8, <1>18
<1>23. Sound(shop)' /\ shop'.next \in Nat /\ shop'.next > 2
  <2>1. Sound(shop')
    BY <1>8, <1>18
  <2> QED
    BY <2>1 DEF Sound
<1>24. \A x \in DOMAIN results' : results'[x] = TRUE
  BY <1>1 DEF BatchInv
<1> HIDE DEF id, steps
<1> QED
  BY <1>1, <1>16, <1>20, <1>21, <1>22, <1>23, <1>24, GroupMoves

\* The reset before a scenario of the buyers.
LEMMA ResetKeeps ==
  ASSUME MaxQuantity > 1, BatchInv, KpiInv, NEW g \in Groups, WipeAgain(g) \/ FillAgain(g), UNCHANGED k6Vars
  PROVE  BatchInv'
<1>1. /\ phase = "groups" /\ stage[g] \in {"wipe", "fill"} /\ UNCHANGED <<batch, single, phase, left, run, results>>
  BY GroupsGo DEF WipeAgain, FillAgain
<1>2. /\ WipeAgain(g) => shop' = Wiped(shop.next) /\ stage' = [stage EXCEPT ![g] = "fill"]
      /\ FillAgain(g) => shop' = Seeded(shop.next) /\ stage' = [stage EXCEPT ![g] = "steps"]
  BY DEF WipeAgain, FillAgain, Go
<1>3. PICK to \in {"fill", "steps"} :
        /\ stage' = [stage EXCEPT ![g] = to]
        /\ to = "fill" => shop' = Wiped(shop.next)
        /\ to = "steps" => shop' = Seeded(shop.next)
  BY <1>2
<1>4. KpiInv /\ kpi' = kpi /\ kpi' \in Counters
  BY DEF KpiInv, RunTyped, WipeAgain, FillAgain, kpiVars
<1>5. OnlyIn(g) /\ stage'[g] = to
  BY <1>1, <1>3, <1>4, TypedAfter DEF KpiInv
<1>6. /\ GroupInv(g) /\ ~Before /\ shop.next \in Nat /\ shop.next > 2
  BY <1>1 DEF BatchInv, Before
<1>7. g = "buyer" /\ run[g] = NewRun /\ left[g] # {} /\ left[g] \subseteq Places(g) /\ run[g].passed = TRUE
  BY <1>1, <1>6 DEF GroupInv
<1>8. Current(g) \in BuyerTemplates \cup OtherTemplates
  BY <1>7, CurrentIn
<1>9. Going(Current(g), NewRun, Seeded(shop.next)) /\ Sound(Seeded(shop.next))
  BY <1>6, <1>8, StartsGoing, SeededSound
<1>10. shop'.next = shop.next
  BY <1>3 DEF Wiped, Seeded
<1>11. GroupInv(g)'
  <2>1. Places(g)' = Places(g) /\ ~Before' /\ Current(g)' = Current(g)
    BY <1>1 DEF Places, Before, Current, Chosen
  <2>2. run'[g] = NewRun /\ run'[g].passed = TRUE
    BY <1>1, <1>7
  <2>3. stage'[g] = "steps" => Going(Current(g), run'[g], shop')
    BY <1>3, <1>5, <1>9, <2>2
  <2> QED
    BY <1>1, <1>5, <1>7, <2>1, <2>2, <2>3 DEF GroupInv
<1>12. Sound(shop)' \/ stage'[g] = "fill"
  BY <1>3, <1>5, <1>9
<1>13. DOMAIN left' = Groups /\ \A x \in DOMAIN results' : results'[x] = TRUE
  BY <1>1 DEF BatchInv
<1> QED
  BY <1>1, <1>5, <1>6, <1>7, <1>10, <1>11, <1>12, <1>13, GroupMoves

\* What is counted and probed after a scenario does not touch it.
LEMMA KpisKeep ==
  ASSUME BatchInv, KpiInv, NEW g \in Groups,
         Count(g) \/ Drilldown(g) \/ Coverage(g) \/ Alarm(g) \/ Telemetry(g), UNCHANGED k6Vars
  PROVE  BatchInv'
<1> DEFINE Probed == {"drilldown", "coverage", "alarm", "telemetry", "gauges"}
<1>1. /\ phase = "groups" /\ stage[g] \notin {"fill", "done", "steps"}
      /\ UNCHANGED <<batch, single, phase, left, results, shop>>
  <2>1. PICK at \in {"count", "drilldown", "coverage", "alarm", "telemetry"} : MayGo(g, at)
    BY ZenonT(60) DEF Count, Drilldown, Coverage, Alarm, Telemetry, Kpi
  <2>2. UNCHANGED <<batch, single, phase, left, results, shop>>
    BY DEF Count, Drilldown, Coverage, Alarm, Telemetry, Kpi
  <2> QED
    BY <2>1, <2>2, GroupsGo
<1>2. PICK to \in Probed : stage' = [stage EXCEPT ![g] = to]
  BY DEF Count, Drilldown, Coverage, Alarm, Telemetry, Kpi, Go
<1>3. IsRun(run[g]) /\ stage'[g] = to /\ \A h \in Groups \ {g} : stage'[h] = stage[h]
  BY <1>2 DEF KpiInv, RunTyped
<1>4. run'[g].passed = run[g].passed /\ \A h \in Groups \ {g} : run'[h] = run[h]
  <2>1. CASE Drilldown(g)
    <3>1. PICK found \in Probes(batch) : run' = [run EXCEPT ![g].drilled = found]
      BY <2>1 DEF Drilldown
    <3>2. found \in BOOLEAN
      BY DEF KpiInv, RunTyped
    <3>3. run' = [run EXCEPT ![g] = [run[g] EXCEPT !.drilled = found]]
      BY <3>1
    <3>4. [run[g] EXCEPT !.drilled = found].passed = run[g].passed
      BY <1>3, <3>2, RunAfter
    <3> QED
      BY <3>3, <3>4 DEF KpiInv, RunTyped
  <2>2. CASE run' = run
    BY <2>2
  <2> QED
    BY <2>1, <2>2 DEF Count, Coverage, Alarm, Telemetry
<1>5. OnlyIn(g)
  BY <1>1, <1>3, <1>4 DEF OnlyIn, Groups, Elements
<1>6. GroupInv(g) /\ ~Before
  BY <1>1 DEF BatchInv, Before
<1>7. left[g] \subseteq Places(g) /\ left[g] # {} /\ run[g].passed = TRUE
  BY <1>1, <1>6 DEF GroupInv
<1>8. GroupInv(g)'
  <2>1. Places(g)' = Places(g) /\ ~Before'
    BY <1>1 DEF Places, Before
  <2> QED
    BY <1>1, <1>3, <1>4, <1>7, <2>1 DEF GroupInv
<1>9. Sound(shop)
  BY <1>1, <1>6, SoundNow
<1>10. DOMAIN left' = Groups /\ \A x \in DOMAIN results' : results'[x] = TRUE
  BY <1>1 DEF BatchInv
<1>11. shop' = shop /\ Sound(shop)' /\ shop'.next \in Nat /\ shop'.next > 2
  BY <1>1, <1>9 DEF Sound
<1> QED
  BY <1>1, <1>5, <1>8, <1>10, <1>11, GroupMoves

\* The result of a scenario, which has passed; only the buyers have another one.
LEMMA PublishKeeps ==
  ASSUME BatchInv, KpiInv, NEW g \in Groups, Publish(g), UNCHANGED k6Vars
  PROVE  BatchInv'
<1>1. /\ phase = "groups" /\ stage[g] = "gauges" /\ UNCHANGED <<batch, single, phase, shop>>
      /\ results' = With(results, Current(g), run[g].passed)
      /\ left' = [left EXCEPT ![g] = @ \ {Min(@)}] /\ run' = [run EXCEPT ![g] = NewRun]
      /\ stage' = [stage EXCEPT ![g] = IF left[g] = {Min(left[g])} THEN "done" ELSE First(g)]
  BY GroupsGo DEF Publish, Go
<1>2. GroupInv(g) /\ ~Before
  BY <1>1 DEF BatchInv, Before
<1>3. left[g] \subseteq Places(g) /\ left[g] # {} /\ run[g].passed = TRUE
  BY <1>1, <1>2 DEF GroupInv
<1>4. Min(left[g]) \in left[g]
  BY <1>3, CurrentIn
<1>5. /\ left'[g] = left[g] \ {Min(left[g])} /\ DOMAIN left' = Groups
      /\ \A h \in Groups \ {g} : left'[h] = left[h]
  BY <1>1 DEF BatchInv
<1>6. run'[g] = NewRun /\ \A h \in Groups \ {g} : run'[h] = run[h]
  BY <1>1 DEF KpiInv, RunTyped
<1> DEFINE to == IF left[g] = {Min(left[g])} THEN "done" ELSE First(g)
<1>7. stage'[g] = to /\ \A h \in Groups \ {g} : stage'[h] = stage[h]
  BY <1>1 DEF KpiInv, RunTyped
<1>8. OnlyIn(g)
  BY <1>1, <1>6, <1>7 DEF OnlyIn, Groups, Elements
<1>9. to \in {"done", "wipe"} /\ (to = "wipe" => g = "buyer" /\ left'[g] # {}) /\ (to # "done" => left'[g] # {})
  <2>1. CASE left[g] = {Min(left[g])}
    BY <2>1
  <2>2. CASE left[g] # {Min(left[g])}
    <3>1. PICK i \in left[g] : i # Min(left[g])
      BY <1>4, <2>2
    <3>2. i \in DOMAIN batch /\ Min(left[g]) \in DOMAIN batch /\ Group(batch[i]) = g /\ Group(batch[Min(left[g])]) = g
      BY <1>3, <1>4, <3>1 DEF Places
    <3>3. g = "buyer"
      BY <3>1, <3>2 DEF BatchInv, Peaceful
    <3> QED
      BY <1>5, <2>2, <3>1, <3>3 DEF First
  <2> QED
    BY <2>1, <2>2
<1> HIDE DEF to
<1>10. GroupInv(g)'
  <2>1. Places(g)' = Places(g) /\ ~Before'
    BY <1>1 DEF Places, Before
  <2>2. NewRun.passed = TRUE
    BY DEF NewRun
  <2> QED
    BY <1>3, <1>5, <1>6, <1>7, <1>9, <2>1, <2>2 DEF GroupInv
<1>11. Sound(shop)
  BY <1>1, <1>2, SoundNow
<1>12. \A x \in DOMAIN results' : results'[x] = TRUE
  BY <1>1, <1>3 DEF BatchInv, With
<1>13. shop' = shop /\ Sound(shop)' /\ shop'.next \in Nat /\ shop'.next > 2
  BY <1>1, <1>11 DEF Sound
<1>14. UNCHANGED <<batch, single, phase, k6Vars>> /\ phase = "groups"
  BY <1>1
<1> QED
  BY <1>5, <1>8, <1>10, <1>12, <1>13, <1>14, GroupMoves

\* The reset before the groups and the answer after them.
LEMMA PhasesKeep ==
  ASSUME MaxQuantity > 1, BatchInv, Wipe \/ Fill \/ AnswerBatch, UNCHANGED k6Vars
  PROVE  BatchInv'
<1>1. /\ UNCHANGED <<batch, single, left, stage, run, results>>
  BY DEF Wipe, Fill, AnswerBatch, groupVars
<1>2. Groups' = Groups /\ \A g \in Groups : Places(g)' = Places(g) /\ Current(g)' = Current(g)
  BY <1>1 DEF Groups, Elements, Places, Current, Chosen
<1>3. NoK6' /\ Peaceful(batch') /\ single' = <<>> /\ phase' # "failed"
  BY <1>1 DEF BatchInv, NoK6, k6Vars, Wipe, Fill, AnswerBatch
<1>4. CASE Wipe
  <2>1. Before /\ Before' /\ shop'.next = shop.next
    BY <1>4 DEF Wipe, Before, Wiped
  <2>2. \A g \in Groups : GroupInv(g)'
    BY <1>1, <1>2, <2>1 DEF BatchInv, GroupInv, First
  <2> QED
    BY <1>1, <1>2, <1>3, <2>1, <2>2 DEF BatchInv
<1>5. CASE Fill
  <2>1. Before /\ ~Before' /\ shop' = Seeded(shop.next) /\ shop'.next = shop.next
    BY <1>5 DEF Fill, Before, Seeded
  <2>2. shop.next \in Nat /\ shop.next > 2
    BY DEF BatchInv
  <2>3. Sound(shop')
    BY <2>1, <2>2, SeededSound
  <2>4. ASSUME NEW g \in Groups PROVE GroupInv(g)'
    <3>1. GroupInv(g)
      BY DEF BatchInv
    <3>2. stage[g] = First(g) /\ run[g] = NewRun /\ run[g].passed = TRUE /\ left[g] # {}
      BY <2>1, <3>1 DEF GroupInv, First
    <3>3. Current(g) \in BuyerTemplates \cup OtherTemplates
      BY <3>2, CurrentIn
    <3>4. Going(Current(g), run[g], shop')
      BY <2>1, <2>2, <3>2, <3>3, StartsGoing
    <3> QED
      BY <1>1, <1>2, <2>1, <3>1, <3>2, <3>4 DEF GroupInv
  <2> QED
    BY <1>1, <1>2, <1>3, <2>1, <2>2, <2>3, <2>4 DEF BatchInv
<1>6. CASE AnswerBatch
  <2>1. ~Before /\ ~Before' /\ shop' = shop
    BY <1>6 DEF AnswerBatch, Before
  <2>2. \A g \in Groups : GroupInv(g)'
    BY <1>1, <1>2, <2>1 DEF BatchInv, GroupInv
  <2> QED
    BY <1>1, <1>2, <1>3, <2>1, <2>2 DEF BatchInv
<1> QED
  BY <1>4, <1>5, <1>6

\* No k6 test runs beside it.
LEMMA NoK6Steps == ASSUME BatchInv, K6Next PROVE FALSE
<1>1. stageK6 = "wipe" /\ test.vus = 0 /\ \A v \in Vu : vu[v] = Idle
  BY DEF BatchInv, NoK6
<1>2. ~SetupWipe /\ ~SetupFill
  BY <1>1 DEF SetupWipe, SetupFill
<1>3. ASSUME NEW v \in Vu PROVE ~Begin(v) /\ ~Request(v)
  <2>1. ~Begin(v)
    BY <1>1 DEF Begin
  <2>2. ~Request(v)
    BY <1>1 DEF Request
  <2> QED
    BY <2>1, <2>2
<1> QED
  BY <1>2, <1>3 DEF K6Next

\* No reset is refused: before the groups start nobody sends requests, and the only group that resets is alone.
LEMMA NoRefusals == ASSUME BatchInv, RefuseNext PROVE FALSE
<1>1. test.vus = 0 /\ ~IsTesting
  BY DEF BatchInv, NoK6, IsTesting
<1>2. \A h \in Groups : h # "single"
  BY GroupsAre
<1>3. ~RefuseSetup
  BY <1>1 DEF RefuseSetup
<1>4. ASSUME MayRefuse("batch"), RefuseReset PROVE FALSE
  <2>1. phase \in {"wipe", "fill"}
    BY <1>4 DEF RefuseReset
  <2> QED
    BY <1>1, <1>2, <1>4, <2>1 DEF MayRefuse, IsGoing
<1>5. ASSUME NEW g \in Groups, MayRefuse(g), RefuseAgain(g) PROVE FALSE
  <2>1. stage[g] \in {"wipe", "fill"}
    BY <1>5 DEF RefuseAgain, MayGo
  <2>2. g = "buyer"
    BY <2>1 DEF BatchInv, GroupInv
  <2>3. Groups \ {g} = {}
    BY <2>2, BuyersAlone
  <2> QED
    BY <1>1, <1>5, <2>3 DEF MayRefuse
<1> QED
  BY <1>3, <1>4, <1>5 DEF RefuseNext

\* Every step keeps what a batch with the shop to itself relies on.
LEMMA BatchNextKeeps ==
  ASSUME MaxQuantity > 1, BatchInv, KpiInv, [Next]_vars
  PROVE  BatchInv'
<1>1. CASE (Wipe \/ Fill \/ AnswerBatch) /\ UNCHANGED k6Vars
  BY <1>1, PhasesKeep
<1>2. ASSUME NEW g \in Groups, UNCHANGED k6Vars,
             \/ WipeAgain(g) \/ FillAgain(g) \/ SendStep(g) \/ Count(g) \/ Drilldown(g)
             \/ Coverage(g) \/ Alarm(g) \/ Telemetry(g) \/ Publish(g)
      PROVE  BatchInv'
  BY <1>2, ResetKeeps, SendKeeps, KpisKeep, PublishKeeps
<1>3. CASE UNCHANGED vars
  BY <1>3 DEF vars, batchVars, k6Vars, BatchInv, GroupInv, Groups, Elements, Places, Current, Chosen,
              Before, NoK6, First
<1> QED
  BY ZenonT(60), <1>1, <1>2, <1>3, NoK6Steps, NoRefusals DEF Next, BatchNext

-----------------------------------------------------------------------------
(* What is proved of the batches. *)

\* What was started stays what it is.
LEMMA StartStays == [Next]_vars => UNCHANGED <<batch, single, test>>
<1> SUFFICES ASSUME [Next]_vars PROVE UNCHANGED <<batch, single, test>>
  OBVIOUS
<1>1. ASSUME BatchNext, UNCHANGED k6Vars PROVE UNCHANGED <<batch, single, test>>
  <2>1. test' = test
    BY <1>1 DEF k6Vars
  <2>2. CASE Wipe \/ Fill \/ AnswerBatch
    BY <2>1, <2>2 DEF Wipe, Fill, AnswerBatch
  <2>3. ASSUME NEW g \in Groups,
               \/ WipeAgain(g) \/ FillAgain(g) \/ SendStep(g) \/ Count(g) \/ Drilldown(g)
               \/ Coverage(g) \/ Alarm(g) \/ Telemetry(g) \/ Publish(g)
        PROVE  UNCHANGED <<batch, single, test>>
    BY ZenonT(60), <2>1, <2>3 DEF WipeAgain, FillAgain, SendStep, Count, Drilldown, Coverage, Alarm, Telemetry,
                      Publish, Kpi
  <2> QED
    BY <1>1, <2>2, <2>3 DEF BatchNext
<1>2. ASSUME K6Next, UNCHANGED batchVars PROVE UNCHANGED <<batch, single, test>>
  <2>1. UNCHANGED <<batch, single>>
    BY <1>2 DEF batchVars
  <2> QED
    BY <1>2, <2>1 DEF K6Next, SetupWipe, SetupFill, Begin, Request
<1>3. CASE UNCHANGED vars
  BY <1>3 DEF vars, batchVars, k6Vars
<1>4. CASE RefuseNext
  BY ZenonT(60), <1>4 DEF RefuseNext, RefuseReset, RefuseAgain, RefuseSetup, batchVars, k6Vars
<1> QED
  BY <1>1, <1>2, <1>3, <1>4 DEF Next

\* The batches BatchesGreen is about.
Alone == HasShopAlone /\ (IsBuyers \/ IsReaders)

\* They keep the invariant.
GreenInv == Alone => BatchInv

\* It holds when the batch is started.
LEMMA GreenInit ==
  ASSUME MaxQuantity > 1, Init
  PROVE  GreenInv
<1> SUFFICES ASSUME Alone PROVE BatchInv
  BY DEF GreenInv
<1>1. PICK s \in Starts : batch = s.batch /\ single = s.single /\ test = s.test
  BY DEF Init
<1>2. batch \in Seq(DOMAIN Template) /\ IsInjective(batch)
  BY <1>1, StartsAreKnown
<1>3. single = <<>> /\ test.vus = 0
  BY DEF Alone, HasShopAlone
<1>4. Peaceful(batch)
  BY <1>2, <1>3, BatchesPeaceful DEF Alone
<1>5. NoK6
  BY <1>3 DEF Init, K6Init, NoK6
<1>6. shop.next = 10
  BY DEF Init, Seeded
<1>7. /\ phase = IF batch = <<>> THEN "answered" ELSE "wipe"
      /\ left = [g \in Groups |-> PlacesOf(g)]
      /\ stage = [g \in Groups |-> First(g)] /\ run = [g \in Groups |-> NewRun]
      /\ results = [id \in {} |-> TRUE]
  BY DEF Init, BatchInit
<1>8. ASSUME NEW g \in Groups PROVE GroupInv(g)
  <2>1. Elements(single) = {}
    BY <1>3 DEF Elements
  <2>2. PICK i \in DOMAIN batch : Group(batch[i]) = g
    BY <2>1 DEF Groups, Elements
  <2>3. g # "single"
    BY <1>4, <2>2 DEF Peaceful
  <2>4. left[g] = Places(g) /\ i \in left[g]
    BY <1>7, <2>2, <2>3 DEF Places, PlacesOf, Chosen
  <2>5. batch # <<>>
    BY <2>2
  <2>6. Before /\ stage[g] = First(g) /\ run[g] = NewRun
    BY <1>7, <2>5 DEF Before
  <2>7. stage[g] \in {"wipe", "fill"} => g = "buyer"
    BY <2>6 DEF First
  <2>8. run[g].passed = TRUE
    BY <2>6 DEF NewRun
  <2> QED
    BY <2>4, <2>6, <2>7, <2>8 DEF GroupInv
<1>9. Before \/ Sound(shop)
  <2>2. shop = Seeded(10)
    BY DEF Init
  <2>3. Sound(shop)
    BY <2>2, SeededSound
  <2> QED
    BY <2>3
<1> QED
  BY <1>3, <1>4, <1>5, <1>6, <1>7, <1>8, <1>9 DEF BatchInv

\* And for as long as it runs.
LEMMA GreenNext ==
  ASSUME MaxQuantity > 1, GreenInv, KpiInv, [Next]_vars
  PROVE  GreenInv'
<1>1. Alone' = Alone
  BY StartStays DEF Alone, HasShopAlone, IsBuyers, IsReaders, Groups, Elements
<1> QED
  BY <1>1, BatchNextKeeps DEF GreenInv

\* A batch that has the shop to itself passes, whatever its length and in whatever order the groups send
\* their requests: if all its scenarios are buyers, each finds the seed again; if none is, the groups
\* that are not quiet are at most one, and the others do not notice it.
THEOREM BatchesAlwaysGreen ==
  ASSUME MaxQuantity > 1
  PROVE  Spec => []BatchesGreen
<1>1. Init => GreenInv
  BY GreenInit
<1>2. GreenInv /\ KpiInv /\ [Next]_vars => GreenInv'
  BY GreenNext
<1>3. GreenInv => BatchesGreen
  BY DEF GreenInv, BatchInv, BatchesGreen, Failed, Alone
<1> QED
  BY <1>1, <1>2, <1>3, AlwaysKpiInv, PTL DEF Spec

-----------------------------------------------------------------------------
(* The scenarios of k6. *)

\* They return to where they started, also when they leave the buyer's cart as it was.
LEMMA ReturnsMore ==
  ASSUME NEW steps, NEW home, NEW on, Returns(steps, home, on, "nobody"), NEW by
  PROVE  Returns(steps, home, on, by)
<1>1. PICK cuts : Course(steps, cuts, home, on, "nobody") /\ cuts[Len(steps) + 1] = home
  BY DEF Returns
<1>2. Course(steps, cuts, home, on, by)
  BY <1>1, LeadsMore DEF Course
<1> QED
  BY <1>1, <1>2 DEF Returns

\* The handlers of k6, one by one.
LEMMA HandlerOf ==
  ASSUME NEW v
  PROVE  /\ Handler("business-success-funnel", v) = BusinessSuccessFunnel(v)
         /\ Handler("buyer-payment-failure", v) = BuyerPaymentFailure
         /\ Handler("payment-failure-types", v) = PaymentFailureTypes
         /\ Handler("validation-4xx-burst", v) = Validation4xxBurst
         /\ Handler("buyer-cart-validation-failure", v) = SeededLineUpdate
         /\ Handler("buyer-empty-cart-checkout-conflict", v) = CleanedCheckoutConflict
BY DEF Handler, ContractHandlers, FunnelHandlers, RoundtripHandlers, RefusedHandlers, FaultHandlers,
       LabelHandlers

\* Those it shares with the scenario web.
LEMMA HandlerShared ==
  ASSUME NEW v
  PROVE  /\ \A id \in QuietIds : Handler(id, v) = Template[id]
         /\ Handler("buyer-success-funnel", v) = BuyerSuccessFunnel
         /\ Handler("buyer-failure-funnel", v) = BuyerFailureFunnel
         /\ Handler("buyer-cart-add-delete-roundtrip", v) = BuyerCartAddDeleteRoundtrip
         /\ Handler("fault-order-delay", v) = FaultOrderDelay
         /\ Handler("fault-payment-delay", v) = FaultPaymentDelay
<1> DEFINE Shared == ContractHandlers \cup FunnelHandlers \cup RoundtripHandlers \cup RefusedHandlers
                       \cup FaultHandlers \cup LabelHandlers
<1>1. QuietIds \subseteq Shared
  BY DEF QuietIds, ContractHandlers, RefusedHandlers, FaultHandlers, LabelHandlers
<1>2. /\ "buyer-success-funnel" \in Shared /\ "buyer-failure-funnel" \in Shared
      /\ "buyer-cart-add-delete-roundtrip" \in Shared /\ "fault-order-delay" \in Shared
      /\ "fault-payment-delay" \in Shared
  BY DEF FunnelHandlers, RoundtripHandlers, FaultHandlers
<1>3. \A id \in Shared : Handler(id, v) = Template[id]
  BY DEF Handler, ContractHandlers, FunnelHandlers, RoundtripHandlers, RefusedHandlers, FaultHandlers,
         LabelHandlers
<1> HIDE DEF Shared
<1> QED
  BY <1>1, <1>2, <1>3, TemplateOf

\* The burst of invalid requests is quiet.
LEMMA BurstQuiet == AllQuiet(Validation4xxBurst)
<1>1. Quiet(Validation4xxBurst[1])
  <2>1. Quiet(Read("short", [status |-> 400]))
    BY ReadQuiet DEF Reads, SeededRead
  <2> QED
    BY <2>1 DEF Validation4xxBurst
<1>2. Quiet(Validation4xxBurst[2])
  <2>1. Quiet(Read("no_quantity", [status |-> 400]))
    BY ReadQuiet DEF Reads, SeededRead
  <2> QED
    BY <2>1 DEF Validation4xxBurst
<1>3. Quiet(Validation4xxBurst[3])
  <2>1. Quiet(Step("pay", "pay", Two, Given(2), "fail_without_code", [status |-> 400]))
    BY PayRefused
  <2> QED
    BY <2>1 DEF Validation4xxBurst
<1>4. Len(Validation4xxBurst) = 3 /\ DOMAIN Validation4xxBurst = 1..3
  BY DEF Validation4xxBurst
<1> QED
  BY <1>1, <1>2, <1>3, <1>4 DEF AllQuiet, IsScript

\* Whoever runs them, these handlers consist of quiet steps.
LEMMA K6QuietQuiet == \A v : \A id \in K6Quiet : AllQuiet(Handler(id, v))
<1>1. \A v : \A id \in QuietIds : AllQuiet(Handler(id, v))
  BY HandlerShared, QuietTemplates
<1>2. \A v : AllQuiet(Handler("validation-4xx-burst", v))
  BY HandlerOf, BurstQuiet
<1> QED
  BY <1>1, <1>2 DEF K6Quiet

\* Whose cart a virtual user v may change, by who owns it; nobody's is owned by 0.
By(owner, b, v) == IF owner[b] = v THEN b ELSE "nobody"

\* A virtual user only runs scenarios that rely on a buyer of its own, or on one that nobody changes.
May(steps, v, owner, home) ==
  \/ AllQuiet(steps)
  \/ \E b \in Buyer : owner[b] \in {0, v} /\ Returns(steps, home[b], b, By(owner, b, v))

\* Owners and homes that allow all the scenarios of a test.
Plan(t, owner, home) ==
  /\ \A b \in Buyer : owner[b] \in Nat /\ IsHome(home[b], b)
  /\ \A v \in Vu, id \in Elements(t.ids) : v <= t.vus => May(Handler(id, v), v, owner, home)

\* A virtual user may run what returns a buyer of its own.
LEMMA MayOwn ==
  ASSUME NEW steps, NEW v, NEW owner, NEW home, NEW b \in Buyer, owner[b] = v, Returns(steps, home[b], b, b)
  PROVE  May(steps, v, owner, home)
BY DEF May, By

\* It may look at a buyer that nobody else owns.
LEMMA MayLook ==
  ASSUME NEW steps, NEW v, NEW owner, NEW home, NEW b \in Buyer, owner[b] \in {0, v},
         Returns(steps, home[b], b, "nobody")
  PROVE  May(steps, v, owner, home)
<1>1. Returns(steps, home[b], b, By(owner, b, v))
  BY ReturnsMore
<1> QED
  BY <1>1 DEF May

\* A virtual user that is alone may run every scenario that returns its buyer to where a purchase can start.
LEMMA SoloMay ==
  ASSUME MaxQuantity > 1, NEW id \in SoloIds, NEW owner, NEW home, owner[One] = 1, owner[Two] = 1,
         home[One] = Free(One), home[Two] = Free(Two)
  PROVE  May(Handler(id, 1), 1, owner, home)
<1>1. CASE id \in K6Quiet
  BY <1>1, K6QuietQuiet DEF May
<1>2. CASE id = "business-success-funnel"
  <2>1. BuyerOf(1) = One
    BY DEF BuyerOf
  <2>2. Returns(BusinessSuccessFunnel(1), Free(One), One, One)
    BY <2>1, BusinessFunnel, Words
  <2> QED
    BY <1>2, <2>2, HandlerOf, MayOwn, Words
<1>3. CASE id = "buyer-payment-failure"
  BY <1>3, PaymentFailure, HandlerOf, MayOwn, Words
<1>4. CASE id = "payment-failure-types"
  BY <1>4, FailureTypes, HandlerOf, MayOwn, Words
<1>5. CASE id = "buyer-success-funnel"
  BY <1>5, SuccessFunnel, HandlerShared, MayOwn, Words
<1>6. CASE id = "buyer-failure-funnel"
  BY <1>6, FailureFunnel, HandlerShared, MayOwn, Words
<1>7. CASE id = "buyer-cart-add-delete-roundtrip"
  BY <1>7, Roundtrip, HandlerShared, MayOwn, Words
<1>8. CASE id = "buyer-empty-cart-checkout-conflict"
  BY <1>8, CleanedConflict, HandlerOf, MayLook, Words
<1>9. CASE id = "fault-order-delay"
  BY <1>9, OrderDelay, HandlerShared, MayOwn, Words
<1>10. CASE id = "fault-payment-delay"
  BY <1>10, PaymentDelay, HandlerShared, MayOwn, Words
<1> QED
  BY <1>1, <1>2, <1>3, <1>4, <1>5, <1>6, <1>7, <1>8, <1>9, <1>10 DEF SoloIds

\* Every such test has owners and homes.
LEMMA TestsPlanned ==
  ASSUME MaxQuantity > 1, NEW t, Peaceable(t)
  PROVE  \E owner, home : Plan(t, owner, home)
<1> DEFINE free == [b \in Buyer |-> Free(b)]
           looking == [b \in Buyer |-> IF b = One THEN Seeded1 ELSE Free(b)]
           solo == [b \in Buyer |-> 1]
           pair == [b \in Buyer |-> IF b = One THEN 1 ELSE 2]
           none == [b \in Buyer |-> 0]
<1>1. /\ free[One] = Free(One) /\ free[Two] = Free(Two) /\ looking[One] = Seeded1 /\ looking[Two] = Free(Two)
      /\ solo[One] = 1 /\ solo[Two] = 1 /\ pair[One] = 1 /\ pair[Two] = 2 /\ none[One] = 0 /\ none[Two] = 0
  BY Words
<1>2. \A b \in Buyer : solo[b] \in Nat /\ pair[b] \in Nat /\ none[b] \in Nat
  OBVIOUS
<1> HIDE DEF free, looking, solo, pair, none
<1>3. \A b \in Buyer : IsHome(free[b], b) /\ IsHome(looking[b], b)
  BY <1>1, HomesAre DEF Buyer
<1>4. CASE t.vus = 1 /\ Elements(t.ids) \subseteq SoloIds
  <2>1. ASSUME NEW v \in Vu, NEW id \in Elements(t.ids), v <= t.vus PROVE May(Handler(id, v), v, solo, free)
    <3>1. v = 1
      BY <1>4, <2>1 DEF Vu
    <3> QED
      BY <1>1, <1>4, <3>1, SoloMay
  <2>2. Plan(t, solo, free)
    BY <1>2, <1>3, <2>1 DEF Plan
  <2> QED
    BY <2>2
<1>5. CASE t.vus <= 2 /\ Elements(t.ids) \subseteq K6Quiet \cup {"business-success-funnel"}
  <2>1. ASSUME NEW v \in Vu, NEW id \in Elements(t.ids), v <= t.vus PROVE May(Handler(id, v), v, pair, free)
    <3>1. CASE id \in K6Quiet
      BY <3>1, K6QuietQuiet DEF May
    <3>2. CASE id = "business-success-funnel"
      <4>1. v \in {1, 2}
        BY <1>5, <2>1 DEF Vu, Peaceable
      <4>2. BuyerOf(1) = One /\ BuyerOf(2) = Two
        BY DEF BuyerOf
      <4>3. Returns(BusinessSuccessFunnel(1), Free(One), One, One)
        BY <4>2, BusinessFunnel, Words
      <4>4. Returns(BusinessSuccessFunnel(2), Free(Two), Two, Two)
        BY <4>2, BusinessFunnel, Words
      <4>5. May(BusinessSuccessFunnel(1), 1, pair, free)
        BY <1>1, <4>3, MayOwn, Words
      <4>6. May(BusinessSuccessFunnel(2), 2, pair, free)
        BY <1>1, <4>4, MayOwn, Words
      <4> QED
        BY <3>2, <4>1, <4>5, <4>6, HandlerOf
    <3> QED
      BY <1>5, <3>1, <3>2
  <2>2. Plan(t, pair, free)
    BY <1>2, <1>3, <2>1 DEF Plan
  <2> QED
    BY <2>2
<1>6. CASE Elements(t.ids) \subseteq LookingIds
  <2>1. ASSUME NEW v \in Vu, NEW id \in Elements(t.ids) PROVE May(Handler(id, v), v, none, looking)
    <3>1. CASE id \in K6Quiet
      BY <3>1, K6QuietQuiet DEF May
    <3>2. CASE id = "buyer-cart-validation-failure"
      BY <1>1, <3>2, SeededUpdate, HandlerOf, MayLook, Words
    <3>3. CASE id = "buyer-empty-cart-checkout-conflict"
      BY <1>1, <3>3, CleanedConflict, HandlerOf, MayLook, Words
    <3> QED
      BY <1>6, <3>1, <3>2, <3>3 DEF LookingIds
  <2>2. Plan(t, none, looking)
    BY <1>2, <1>3, <2>1 DEF Plan
  <2> QED
    BY <2>2
<1> QED
  BY <1>4, <1>5, <1>6 DEF Peaceable

\* The iteration r of the virtual user v will return the buyer b to its home.
OnWay(r, v, b, s, owner, home) ==
  /\ owner[b] \in {0, v}
  /\ Returning(Handler(r.id, v), r.sent, s, r.context, home[b], b, By(owner, b, v))

\* An iteration that has passed so far.
IsVu(r) == r \in [id : {r.id}, sent : Nat, context : {r.context}, passed : {TRUE}]

\* An iteration has passed so far and will to its end.
VuOk(r, v, s, owner, home) ==
  /\ IsVu(r)
  /\ r # Idle => /\ r.sent < Len(Handler(r.id, v)) /\ Len(Handler(r.id, v)) \in Nat
                 /\ \/ AllQuiet(Handler(r.id, v))
                    \/ \E b \in Buyer : OnWay(r, v, b, s, owner, home)

\* The buyer b is at home, or its owner is on the way there.
BuyerOk(b, s, owner, home) ==
  \/ Holds(home[b], s, NoContext)
  \/ owner[b] \in Vu /\ vu[owner[b]] # Idle /\ OnWay(vu[owner[b]], owner[b], b, s, owner, home)

\* Nothing was started on the scenario web.
NoBatch == batch = <<>> /\ single = <<>> /\ phase = "answered"

\* No scenario has failed, every iteration relies on a buyer of its own or one left alone, and every buyer is at
\* home or being returned there.
K6With(owner, home) ==
  /\ Plan(test, owner, home) /\ Peaceable(test) /\ NoBatch
  /\ counted \in [started : Nat, finished : Nat, failed : {0}]
  /\ stageK6 \in {"wipe", "fill", "iterations"}
  /\ shop.next \in Nat /\ shop.next > 2
  /\ vu = [v \in Vu |-> vu[v]] /\ \A v \in Vu : VuOk(vu[v], v, shop, owner, home)
  /\ stageK6 # "iterations" => \A v \in Vu : vu[v] = Idle
  /\ stageK6 = "iterations" => Sound(shop) /\ \A b \in Buyer : BuyerOk(b, shop, owner, home)

\* A virtual user without an iteration relies on nothing.
LEMMA IdleOk ==
  ASSUME NEW v, NEW s, NEW owner, NEW home
  PROVE  VuOk(Idle, v, s, owner, home)
BY DEF VuOk, Idle, IsVu

\* An iteration that starts finds what its scenario relies on.
LEMMA BeginKeeps ==
  ASSUME NEW owner, NEW home, K6With(owner, home), NEW v \in Vu, Begin(v), UNCHANGED batchVars
  PROVE  K6With(owner, home)'
<1> DEFINE id == Selected(v)
           r == [Idle EXCEPT !.id = id]
<1>1. /\ stageK6 = "iterations" /\ v <= test.vus /\ vu[v] = Idle
      /\ UNCHANGED <<shop, test, stageK6>> /\ counted' = [counted EXCEPT !.started = @ + 1]
  BY DEF Begin
<1>2. vu' = [vu EXCEPT ![v] = r]
  BY <1>1 DEF Begin
<1>3. id \in Elements(test.ids)
  <2>1. test.ids \in Seq(Elements(test.ids)) /\ test.ids # <<>>
    BY DEF K6With, Peaceable
  <2>2. Len(test.ids) \in Nat \ {0} /\ DOMAIN test.ids = 1..Len(test.ids)
    BY <2>1
  <2>3. counted.started + v \in Nat
    BY DEF K6With, Vu
  <2>4. ((counted.started + v) % Len(test.ids)) + 1 \in DOMAIN test.ids
    BY <2>2, <2>3
  <2> QED
    BY <2>4 DEF Selected, Elements
<1> HIDE DEF id
<1>4. /\ r \in [id : {id}, sent : {0}, context : {NoContext}, passed : {TRUE}]
      /\ r \in [id : {id}, sent : Nat, context : {NoContext}, passed : {TRUE}]
  BY DEF Idle
<1> HIDE DEF r
<1>5. r.id = id /\ r.sent = 0 /\ r.context = NoContext /\ IsVu(r)
  <2>1. r.id = id /\ r.sent = 0 /\ r.context = NoContext /\ r.passed = TRUE
    BY <1>4
  <2> QED
    BY <1>4, <2>1 DEF IsVu
<1>6. May(Handler(id, v), v, owner, home)
  BY <1>1, <1>3 DEF K6With, Plan
<1>7. \A b \in Buyer : BuyerOk(b, shop, owner, home)
  BY <1>1 DEF K6With
<1>8. VuOk(r, v, shop, owner, home)
  <2> DEFINE steps == Handler(id, v)
  <2> HIDE DEF steps
  <2>1. CASE AllQuiet(steps)
    <3>1. Len(steps) \in Nat /\ 0 < Len(steps)
      BY <2>1 DEF AllQuiet, IsScript
    <3> QED
      BY <1>5, <2>1, <3>1 DEF VuOk, steps
  <2>2. CASE ~AllQuiet(steps)
    <3>1. PICK b \in Buyer : owner[b] \in {0, v} /\ Returns(steps, home[b], b, By(owner, b, v))
      BY <1>6, <2>2 DEF May, steps
    <3>2. PICK cuts : Course(steps, cuts, home[b], b, By(owner, b, v)) /\ cuts[Len(steps) + 1] = home[b]
      BY <3>1 DEF Returns
    <3>3. Len(steps) \in Nat /\ 0 < Len(steps) /\ cuts[0 + 1] = home[b]
      BY <3>2 DEF Course, IsScript
    <3>4. Holds(home[b], shop, NoContext)
      <4>1. ~(owner[b] \in Vu /\ vu[owner[b]] # Idle)
        BY <1>1, <3>1 DEF Vu
      <4> QED
        BY <1>7, <4>1 DEF BuyerOk
    <3>5. Returning(steps, 0, shop, NoContext, home[b], b, By(owner, b, v))
      BY <3>2, <3>3, <3>4 DEF Returning
    <3>6. OnWay(r, v, b, shop, owner, home)
      BY <1>5, <3>1, <3>5 DEF OnWay, steps
    <3> QED
      BY <1>5, <3>3, <3>6 DEF VuOk, steps
  <2> QED
    BY <2>1, <2>2
<1>9. vu' = [u \in Vu |-> vu'[u]] /\ vu'[v] = r /\ \A u \in Vu \ {v} : vu'[u] = vu[u]
  BY <1>2 DEF K6With
<1>10. \A u \in Vu : VuOk(vu'[u], u, shop', owner, home)
  <2>1. \A u \in Vu : VuOk(vu[u], u, shop, owner, home)
    BY DEF K6With
  <2> QED
    BY <1>1, <1>8, <1>9, <2>1
<1>11. ASSUME NEW b \in Buyer PROVE BuyerOk(b, shop, owner, home)'
  <2>1. CASE Holds(home[b], shop, NoContext)
    BY <1>1, <2>1 DEF BuyerOk
  <2>2. CASE ~Holds(home[b], shop, NoContext)
    <3>1. /\ owner[b] \in Vu /\ vu[owner[b]] # Idle
          /\ OnWay(vu[owner[b]], owner[b], b, shop, owner, home)
      BY <1>7, <2>2 DEF BuyerOk
    <3>2. vu'[owner[b]] = vu[owner[b]]
      BY <1>1, <1>9, <3>1
    <3> QED
      BY <1>1, <3>1, <3>2 DEF BuyerOk
  <2> QED
    BY <2>1, <2>2
<1>12. counted' \in [started : Nat, finished : Nat, failed : {0}]
  BY <1>1 DEF K6With
<1>13. NoBatch' /\ Plan(test, owner, home)' /\ Peaceable(test)'
  BY <1>1 DEF K6With, NoBatch, batchVars
<1> QED
  BY <1>1, <1>9, <1>10, <1>11, <1>12, <1>13 DEF K6With

\* A request passes; at most the buyer its virtual user owns notices it.
LEMMA RequestPasses ==
  ASSUME NEW owner, NEW home, NEW v \in Vu, NEW r, NEW s, Sound(s), VuOk(r, v, s, owner, home), r # Idle,
         NEW steps, steps = Handler(r.id, v), NEW sent, sent = Send(s, steps[r.sent + 1], r.context)
  PROVE  \E who : /\ Accepts(steps[r.sent + 1], s, r.context) /\ Sound(sent.shop)
                  /\ Leaves(who, s, sent.shop)
                  /\ who \in Buyer => owner[who] = v /\ OnWay(r, v, who, s, owner, home)
                  /\ AllQuiet(steps) \/ \E b \in Buyer : OnWay(r, v, b, s, owner, home)
<1>1. r.sent \in Nat /\ r.sent < Len(steps) /\ Len(steps) \in Nat
  BY DEF VuOk, IsVu
<1>2. r.sent \in 0..(Len(steps) - 1) /\ r.sent + 1 \in 1..Len(steps)
  BY <1>1
<1>3. CASE AllQuiet(steps)
  <2>1. Quiet(steps[r.sent + 1])
    BY <1>2, <1>3 DEF AllQuiet
  <2>2. sent.shop = s /\ Passes(steps[r.sent + 1], sent.answer)
    BY <2>1 DEF Quiet
  <2>3. Leaves("nobody", s, sent.shop)
    BY <2>2, LeavesItself
  <2>4. "nobody" \notin Buyer
    BY DEF Buyer, One, Two
  <2> QED
    BY <1>3, <2>2, <2>3, <2>4 DEF Accepts
<1>4. CASE ~AllQuiet(steps)
  <2>1. PICK b \in Buyer : OnWay(r, v, b, s, owner, home)
    BY <1>4 DEF VuOk
  <2>2. Returning(steps, r.sent, s, r.context, home[b], b, By(owner, b, v))
    BY <2>1 DEF OnWay
  <2>3. Advances(steps, r.sent, s, r.context, By(owner, b, v))
    BY <1>1, <1>2, <2>2, ReturningAdvances
  <2>4. By(owner, b, v) \in Buyer => By(owner, b, v) = b /\ owner[b] = v
    BY DEF By, Buyer, One, Two
  <2> QED
    BY <2>1, <2>3, <2>4 DEF Advances
<1> QED
  BY <1>3, <1>4

\* The iteration after the answer to its next step.
Follows(t, r, steps, sent) ==
  /\ t.id = r.id /\ t.sent = r.sent + 1
  /\ t.context = With(r.context, steps[r.sent + 1].id, sent.answer)

\* The buyer is on the way home still, or there.
GotOn(owner, home, v, r, b, steps, sent) ==
  /\ r.sent + 1 = Len(steps) => Holds(home[b], sent.shop, NoContext)
  /\ \A t : Follows(t, r, steps, sent) => OnWay(t, v, b, sent.shop, owner, home)

\* And its virtual user gets on.
LEMMA RequestAdvances ==
  ASSUME NEW owner, NEW home, NEW v \in Vu, NEW r, NEW s, Sound(s), VuOk(r, v, s, owner, home), r # Idle,
         NEW steps, steps = Handler(r.id, v), NEW sent, sent = Send(s, steps[r.sent + 1], r.context),
         NEW b \in Buyer, IsHome(home[b], b), OnWay(r, v, b, s, owner, home)
  PROVE  GotOn(owner, home, v, r, b, steps, sent)
<1>1. r.sent \in 0..(Len(steps) - 1) /\ Len(steps) \in Nat
  BY DEF VuOk, IsVu
<1>2. Returning(steps, r.sent, s, r.context, home[b], b, By(owner, b, v)) /\ owner[b] \in {0, v}
  BY DEF OnWay
<1> DEFINE later == ContextAfter(steps, r.sent, s, r.context)
<1>3. later = With(r.context, steps[r.sent + 1].id, sent.answer)
  BY DEF ContextAfter
<1> HIDE DEF later
<1>4. /\ Returning(steps, r.sent + 1, sent.shop, later, home[b], b, By(owner, b, v))
      /\ r.sent + 1 = Len(steps) => Holds(home[b], sent.shop, later)
  BY <1>1, <1>2, ReturningAdvances DEF later
<1>5. r.sent + 1 = Len(steps) => Holds(home[b], sent.shop, NoContext)
  BY <1>4, HomeHolds
<1>6. ASSUME NEW t, Follows(t, r, steps, sent)
      PROVE  OnWay(t, v, b, sent.shop, owner, home)
  BY <1>2, <1>3, <1>4, <1>6 DEF OnWay, Follows
<1> QED
  BY <1>5, <1>6 DEF GotOn

\* The others do not notice it.
LEMMA OthersOk ==
  ASSUME NEW owner, NEW home, NEW v \in Vu, NEW u \in Vu, u # v, NEW r, NEW s, Sound(s), NEW t, NEW who,
         Leaves(who, s, t), who \in Buyer => owner[who] = v,
         VuOk(r, u, s, owner, home)
  PROVE  /\ VuOk(r, u, t, owner, home)
         /\ r # Idle => \A b \in Buyer : OnWay(r, u, b, s, owner, home) => OnWay(r, u, b, t, owner, home)
<1>1. ASSUME r # Idle, NEW b \in Buyer, OnWay(r, u, b, s, owner, home) PROVE OnWay(r, u, b, t, owner, home)
  <2> DEFINE steps == Handler(r.id, u)
  <2>1. owner[b] \in {0, u} /\ Returning(steps, r.sent, s, r.context, home[b], b, By(owner, b, u))
    BY <1>1 DEF OnWay
  <2>2. b # who
    BY <2>1 DEF Vu
  <2>3. r.sent \in 0..Len(steps)
    BY <1>1 DEF VuOk, IsVu
  <2> HIDE DEF steps
  <2>4. Returning(steps, r.sent, t, r.context, home[b], b, By(owner, b, u))
    BY <2>1, <2>2, <2>3, AmidElsewhere
  <2> QED
    BY <2>1, <2>4 DEF OnWay, steps
<1> QED
  BY <1>1 DEF VuOk

\* The iteration after one more step that passed.
Next1(r, n, context) == [r EXCEPT !.sent = n, !.context = context, !.passed = TRUE]

\* It is an iteration again.
LEMMA NextVu ==
  ASSUME NEW r, IsVu(r), NEW n, n \in Nat, NEW context, NEW t, t = Next1(r, n, context)
  PROVE  t.id = r.id /\ t.sent = n /\ t.context = context /\ IsVu(t)
<1> USE DEF Next1
<1>1. t \in [id : {r.id}, sent : {n}, context : {context}, passed : {TRUE}]
  BY DEF IsVu
<1>2. t.id = r.id /\ t.sent = n /\ t.context = context
  BY <1>1
<1>3. t \in [id : {r.id}, sent : Nat, context : {context}, passed : {TRUE}]
  BY DEF IsVu
<1> QED
  BY <1>2, <1>3 DEF IsVu

\* A request of a virtual user keeps the plan of the test.
LEMMA RequestKeeps ==
  ASSUME NEW owner, NEW home, K6With(owner, home), NEW v \in Vu, Request(v), UNCHANGED batchVars
  PROVE  K6With(owner, home)'
<1> DEFINE r == vu[v]
           steps == Handler(r.id, v)
           step == steps[r.sent + 1]
           sent == Send(shop, step, r.context)
           context == With(r.context, step.id, sent.answer)
           passed == r.passed /\ (Passes(step, sent.answer) \/ (step.optional /\ ~IsResolved(step, r.context)))
           next == [r EXCEPT !.sent = @ + 1, !.context = context, !.passed = passed]
<1>1. /\ vu[v] # Idle /\ shop' = sent.shop /\ UNCHANGED <<test, stageK6>>
      /\ r.sent + 1 = Len(steps)
           => /\ vu' = [vu EXCEPT ![v] = Idle]
              /\ counted' = [counted EXCEPT !.finished = @ + 1, !.failed = IF passed THEN @ ELSE @ + 1]
      /\ r.sent + 1 # Len(steps)
           => vu' = [vu EXCEPT ![v].sent = @ + 1, ![v].context = With(@, step.id, sent.answer),
                               ![v].passed = passed] /\ counted' = counted
  BY Zenon DEF Request
<1>2. r.sent + 1 # Len(steps) => vu' = [vu EXCEPT ![v] = next]
  BY <1>1
<1>3. VuOk(r, v, shop, owner, home) /\ IsVu(r) /\ r.passed = TRUE /\ r.sent \in Nat
  BY DEF K6With, VuOk, IsVu
<1>4. stageK6 = "iterations" /\ Sound(shop) /\ \A b \in Buyer : BuyerOk(b, shop, owner, home)
  BY <1>1 DEF K6With
<1>a. \A b \in Buyer : IsHome(home[b], b) /\ home[b].who = b
  BY WhoOf DEF K6With, Plan, IsHome
<1>5. PICK who :
        /\ Accepts(step, shop, r.context) /\ Sound(sent.shop) /\ Leaves(who, shop, sent.shop)
        /\ who \in Buyer => owner[who] = v /\ OnWay(r, v, who, shop, owner, home)
        /\ AllQuiet(steps) \/ \E b \in Buyer : OnWay(r, v, b, shop, owner, home)
  BY <1>1, <1>3, <1>4, RequestPasses
<1>6. passed = TRUE
  BY <1>3, <1>5 DEF Accepts
<1>7. /\ next.id = r.id /\ next.sent = r.sent + 1 /\ next.context = context /\ IsVu(next)
  <2>1. r.sent + 1 \in Nat
    BY <1>3
  <2> HIDE DEF context, passed
  <2>2. next = Next1(r, r.sent + 1, context)
    BY <1>6 DEF Next1
  <2> HIDE DEF next, r
  <2> QED
    BY <1>3, <2>1, <2>2, NextVu
<1>b. Follows(next, r, steps, sent)
  BY <1>7 DEF Follows
<1> HIDE DEF next, passed
<1>c. steps = Handler(r.id, v) /\ sent = Send(shop, steps[r.sent + 1], r.context)
  OBVIOUS
<1>9. r.sent < Len(steps) /\ Len(steps) \in Nat
  BY <1>1, <1>3 DEF VuOk
<1> HIDE DEF steps, step, context, sent
<1>8. ASSUME NEW b \in Buyer, OnWay(r, v, b, shop, owner, home)
      PROVE  /\ r.sent + 1 = Len(steps) => Holds(home[b], sent.shop, NoContext)
             /\ OnWay(next, v, b, sent.shop, owner, home)
  <2>1. IsHome(home[b], b) /\ r # Idle /\ Sound(shop)
    BY <1>1, <1>4, <1>a
  <2>2. VuOk(r, v, shop, owner, home)
    BY <1>3
  <2>3. OnWay(r, v, b, shop, owner, home)
    BY <1>8
  <2> HIDE DEF r
  <2>4. GotOn(owner, home, v, r, b, steps, sent)
    BY <1>c, <2>1, <2>2, <2>3, RequestAdvances
  <2> QED
    BY <1>b, <2>4 DEF GotOn
<1>10. /\ vu' = [u \in Vu |-> vu'[u]] /\ \A u \in Vu \ {v} : vu'[u] = vu[u]
       /\ vu'[v] = IF r.sent + 1 = Len(steps) THEN Idle ELSE next
  <2>1. vu = [u \in Vu |-> vu[u]]
    BY DEF K6With
  <2>2. \/ r.sent + 1 = Len(steps) /\ vu' = [vu EXCEPT ![v] = Idle]
        \/ r.sent + 1 # Len(steps) /\ vu' = [vu EXCEPT ![v] = next]
    BY <1>1, <1>2
  <2> QED
    BY <2>1, <2>2
<1>11. VuOk(vu'[v], v, shop', owner, home)
  <2>1. CASE r.sent + 1 = Len(steps)
    BY <1>10, <2>1, IdleOk
  <2>2. CASE r.sent + 1 # Len(steps)
    <3>1. Handler(next.id, v) = steps
      BY <1>7 DEF steps
    <3>2. next.sent < Len(steps)
      BY <1>3, <1>7, <1>9, <2>2
    <3>3. AllQuiet(steps) \/ \E b \in Buyer : OnWay(next, v, b, shop', owner, home)
      BY <1>1, <1>5, <1>8
    <3> QED
      BY <1>7, <1>9, <1>10, <2>2, <3>1, <3>2, <3>3 DEF VuOk
  <2> QED
    BY <2>1, <2>2
<1>12. ASSUME NEW u \in Vu \ {v}
       PROVE  /\ VuOk(vu'[u], u, shop', owner, home) /\ vu'[u] = vu[u]
              /\ vu[u] # Idle => \A b \in Buyer : OnWay(vu[u], u, b, shop, owner, home)
                                                    => OnWay(vu[u], u, b, shop', owner, home)
  <2>1. VuOk(vu[u], u, shop, owner, home) /\ vu'[u] = vu[u]
    BY <1>10 DEF K6With
  <2>2. Leaves(who, shop, shop') /\ (who \in Buyer => owner[who] = v)
    BY <1>1, <1>5
  <2> QED
    BY <1>4, <2>1, <2>2, OthersOk
<1>13. ASSUME NEW b \in Buyer PROVE BuyerOk(b, shop, owner, home)'
  <2>1. CASE OnWay(r, v, b, shop, owner, home) /\ owner[b] = v
    <3>1. CASE r.sent + 1 = Len(steps)
      <4>1. Holds(home[b], shop', NoContext)
        BY <1>1, <1>8, <2>1, <3>1
      <4> QED
        BY <4>1 DEF BuyerOk
    <3>2. CASE r.sent + 1 # Len(steps)
      <4>1. OnWay(vu'[v], v, b, shop', owner, home) /\ vu'[v] = next
        BY <1>1, <1>8, <1>10, <2>1, <3>2
      <4>2. next # Idle
        <5>1. next.sent # Idle.sent
          BY <1>3, <1>7 DEF Idle
        <5> QED
          BY <5>1
      <4> QED
        BY <2>1, <4>1, <4>2 DEF BuyerOk
    <3> QED
      BY <3>1, <3>2
  <2>2. CASE ~(OnWay(r, v, b, shop, owner, home) /\ owner[b] = v)
    <3>1. b # who
      BY <1>5, <2>2
    <3>2. CASE Holds(home[b], shop, NoContext)
      <4>1. Holds(home[b], shop', NoContext)
        BY <1>1, <1>4, <1>5, <1>a, <3>1, <3>2, HoldsElsewhere
      <4> QED
        BY <4>1 DEF BuyerOk
    <3>3. CASE ~Holds(home[b], shop, NoContext)
      <4>1. /\ owner[b] \in Vu /\ vu[owner[b]] # Idle
            /\ OnWay(vu[owner[b]], owner[b], b, shop, owner, home)
        BY <1>4, <3>3 DEF BuyerOk
      <4>2. owner[b] # v
        BY <2>2, <4>1
      <4>3. vu'[owner[b]] = vu[owner[b]] /\ OnWay(vu[owner[b]], owner[b], b, shop', owner, home)
        BY <1>12, <4>1, <4>2
      <4> QED
        BY <4>1, <4>3 DEF BuyerOk
    <3> QED
      BY <3>2, <3>3
  <2> QED
    BY <2>1, <2>2
<1>14. counted' \in [started : Nat, finished : Nat, failed : {0}]
  <2>1. counted \in [started : Nat, finished : Nat, failed : {0}]
    BY DEF K6With
  <2>2. \/ counted' = counted
        \/ counted' = [counted EXCEPT !.finished = @ + 1, !.failed = IF passed THEN @ ELSE @ + 1]
    BY <1>1
  <2>3. CASE counted' = [counted EXCEPT !.finished = @ + 1, !.failed = IF passed THEN @ ELSE @ + 1]
    <3>1. counted' = [counted EXCEPT !.finished = counted.finished + 1, !.failed = counted.failed]
      BY <1>6, <2>3
    <3>2. counted.finished + 1 \in Nat /\ counted.failed = 0
      BY <2>1
    <3> QED
      BY <2>1, <3>1, <3>2
  <2> QED
    BY <2>1, <2>2, <2>3
<1>15. NoBatch' /\ Plan(test, owner, home)' /\ Peaceable(test)'
  BY <1>1 DEF K6With, NoBatch, batchVars
<1>16. Sound(shop') /\ shop'.next \in Nat /\ shop'.next > 2
  <2>1. Sound(shop')
    BY <1>1, <1>5
  <2> QED
    BY <2>1 DEF Sound
<1>17. \A u \in Vu : VuOk(vu'[u], u, shop', owner, home)
  BY <1>11, <1>12
<1> HIDE DEF r
<1>18. \A b \in Buyer : BuyerOk(b, shop, owner, home)'
  BY <1>13
<1> QED
  BY <1>1, <1>4, <1>10, <1>14, <1>15, <1>16, <1>17, <1>18 DEF K6With

\* The reset that k6 starts with.
LEMMA SetupKeeps ==
  ASSUME MaxQuantity > 1, NEW owner, NEW home, K6With(owner, home), SetupWipe \/ SetupFill, UNCHANGED batchVars
  PROVE  K6With(owner, home)'
<1>1. /\ stageK6 # "iterations" /\ UNCHANGED <<test, counted, vu>>
      /\ SetupWipe => shop' = Wiped(shop.next) /\ stageK6' = "fill"
      /\ SetupFill => shop' = Seeded(shop.next) /\ stageK6' = "iterations"
  BY DEF SetupWipe, SetupFill
<1>2. /\ shop.next \in Nat /\ shop.next > 2
      /\ vu = [v \in Vu |-> vu[v]] /\ \A v \in Vu : vu[v] = Idle
      /\ counted \in [started : Nat, finished : Nat, failed : {0}]
  BY <1>1 DEF K6With
<1>3. shop'.next = shop.next
  BY <1>1 DEF Wiped, Seeded
<1>4. \A v \in Vu : VuOk(vu'[v], v, shop', owner, home)
  BY <1>1, <1>2, IdleOk
<1>5. NoBatch' /\ Plan(test, owner, home)' /\ Peaceable(test)'
  BY <1>1 DEF K6With, NoBatch, batchVars
<1>6. stageK6' \in {"fill", "iterations"}
  BY <1>1
<1>7. stageK6' = "iterations" => Sound(shop') /\ \A b \in Buyer : BuyerOk(b, shop, owner, home)'
  <2>1. SUFFICES ASSUME stageK6' = "iterations"
                 PROVE  Sound(shop') /\ \A b \in Buyer : BuyerOk(b, shop, owner, home)'
    OBVIOUS
  <2>2. shop' = Seeded(shop.next)
    BY <1>1, <2>1
  <2>3. Sound(shop')
    BY <1>2, <2>2, SeededSound
  <2>4. ASSUME NEW b \in Buyer PROVE BuyerOk(b, shop, owner, home)'
    <3>1. IsHome(home[b], b)
      BY DEF K6With, Plan
    <3>2. Holds(home[b], shop', NoContext)
      BY <1>2, <2>2, <3>1, SeededSound
    <3> QED
      BY <3>2 DEF BuyerOk
  <2> QED
    BY <2>3, <2>4
<1> QED
  BY <1>1, <1>2, <1>3, <1>4, <1>5, <1>6, <1>7 DEF K6With

\* No batch runs beside it.
LEMMA NoBatchSteps == ASSUME NoBatch, BatchNext \/ RefuseNext PROVE FALSE
<1>1. Groups = {}
  BY DEF NoBatch, Groups, Elements
<1>2. ~Wipe /\ ~Fill /\ ~AnswerBatch /\ ~RefuseReset /\ AtRest
  BY <1>1 DEF NoBatch, Wipe, Fill, AnswerBatch, RefuseReset, AtRest
<1> QED
  BY <1>1, <1>2 DEF BatchNext, RefuseNext

\* Every step keeps it.
LEMMA K6NextKeeps ==
  ASSUME MaxQuantity > 1, NEW owner, NEW home, K6With(owner, home), [Next]_vars
  PROVE  K6With(owner, home)'
<1>1. CASE (BatchNext /\ UNCHANGED k6Vars) \/ RefuseNext
  BY <1>1, NoBatchSteps DEF K6With
<1>2. CASE (SetupWipe \/ SetupFill) /\ UNCHANGED batchVars
  BY <1>2, SetupKeeps
<1>3. ASSUME NEW v \in Vu, Begin(v), UNCHANGED batchVars PROVE K6With(owner, home)'
  BY <1>3, BeginKeeps
<1>4. ASSUME NEW v \in Vu, Request(v), UNCHANGED batchVars PROVE K6With(owner, home)'
  BY <1>4, RequestKeeps
<1>5. CASE UNCHANGED vars
  <2>1. UNCHANGED <<shop, batch, single, phase, test, stageK6, counted, vu>>
    BY <1>5 DEF vars, batchVars, k6Vars
  <2>2. \A b \in Buyer : BuyerOk(b, shop, owner, home)' = BuyerOk(b, shop, owner, home)
    BY <2>1 DEF BuyerOk
  <2> QED
    BY <2>1, <2>2 DEF K6With, NoBatch
<1> QED
  BY <1>1, <1>2, <1>3, <1>4, <1>5 DEF Next, K6Next

\* A peaceable test that has the shop to itself.
TestAlone == batch = <<>> /\ single = <<>> /\ Peaceable(test)

\* It has a plan.
PackInv == TestAlone => \E owner, home : K6With(owner, home)

\* A test has a plan when it is started.
LEMMA PackInit ==
  ASSUME MaxQuantity > 1, Init
  PROVE  PackInv
<1> SUFFICES ASSUME TestAlone PROVE \E owner, home : K6With(owner, home)
  BY DEF PackInv
<1>1. PICK owner, home : Plan(test, owner, home)
  BY TestsPlanned DEF TestAlone
<1>2. NoBatch /\ Peaceable(test)
  BY DEF TestAlone, NoBatch, Init, BatchInit
<1>3. /\ stageK6 = "wipe" /\ counted = [started |-> 0, finished |-> 0, failed |-> 0]
      /\ vu = [v \in Vu |-> Idle]
  BY DEF Init, K6Init
<1>4. shop.next = 10
  BY DEF Init, Seeded
<1>5. \A v \in Vu : VuOk(vu[v], v, shop, owner, home)
  BY <1>3, IdleOk
<1>6. /\ counted \in [started : Nat, finished : Nat, failed : {0}]
      /\ vu = [v \in Vu |-> vu[v]] /\ \A v \in Vu : vu[v] = Idle
  BY <1>3
<1>7. K6With(owner, home)
  BY <1>1, <1>2, <1>3, <1>4, <1>5, <1>6 DEF K6With
<1> QED
  BY <1>7

\* And keeps it.
LEMMA PackNext ==
  ASSUME MaxQuantity > 1, PackInv, [Next]_vars
  PROVE  PackInv'
<1> SUFFICES ASSUME TestAlone' PROVE (\E owner, home : K6With(owner, home))'
  BY DEF PackInv
<1>1. TestAlone
  <2>1. UNCHANGED <<batch, single, test>>
    BY StartStays
  <2> QED
    BY <2>1 DEF TestAlone
<1>2. PICK owner, home : K6With(owner, home)
  BY <1>1 DEF PackInv
<1>3. K6With(owner, home)'
  BY <1>2, K6NextKeeps
<1> QED
  BY <1>3

\* A k6 test whose scenarios do not spoil each other has no failed scenario at all: with one virtual user
\* a purchase starts on what the one before it has left, with two each keeps to its buyer, and those that
\* only look leave the carts alone, however many they are and however long they go on.
THEOREM PacksAlwaysPass ==
  ASSUME MaxQuantity > 1
  PROVE  Spec => [](Peaceable(test) => PackPasses)
<1>1. Init => PackInv
  BY PackInit
<1>2. PackInv /\ [Next]_vars => PackInv'
  BY PackNext
<1>3. PackInv => (Peaceable(test) => PackPasses)
  <2> SUFFICES ASSUME PackInv, Peaceable(test), batch = <<>>, single = <<>>, IsOver PROVE ThresholdHolds
    BY DEF PackPasses
  <2>1. PICK owner, home : K6With(owner, home)
    BY DEF PackInv, TestAlone
  <2>2. counted.failed = 0 /\ counted.finished \in Nat
    BY <2>1 DEF K6With
  <2>3. counted.finished \in Nat \ {0}
    BY DEF IsOver, Peaceable
  <2> QED
    BY <2>2, <2>3 DEF ThresholdHolds
<1> QED
  BY <1>1, <1>2, <1>3, PTL DEF Spec

-----------------------------------------------------------------------------
(* What becomes of a batch: no group goes back, none is left without work, *)
(* and in the end everything is accounted for.                             *)

\* The awaits of a group for one scenario, in the order they come in.
Await == [wipe |-> 0, fill |-> 1, steps |-> 2, count |-> 3, drilldown |-> 4, coverage |-> 5, alarm |-> 6,
          telemetry |-> 7, gauges |-> 8]

\* Before the last answer of a scenario.
Early == {"wipe", "fill", "steps"}

\* A group goes on: to a later await of its scenario, to one request less to send, or to one scenario less to run.
Nearer(g) ==
  \/ /\ left'[g] = left[g] /\ run[g].sent \subseteq run'[g].sent
     /\ stage[g] \in DOMAIN Await /\ stage'[g] \in DOMAIN Await /\ Await[stage[g]] < Await[stage'[g]]
  \/ /\ left'[g] = left[g] /\ stage[g] = "steps" /\ stage'[g] = "steps"
     /\ \E i \in DOMAIN Steps(g) \ run[g].sent : run'[g].sent = run[g].sent \cup {i}
  \/ /\ stage[g] = "gauges" /\ \E i \in left[g] : left'[g] = left[g] \ {i}
     /\ stage'[g] = IF left'[g] = {} THEN "done" ELSE First(g)

\* A refused reset stops the groups S in front of what they have left, and nothing else.
Stops(S) ==
  /\ phase' = "failed" /\ UNCHANGED <<left, run>>
  /\ \A g \in S : stage'[g] = "stopped" /\ left[g] # {}
  /\ \A g \in Groups \ S : stage'[g] = stage[g]

\* One group goes on, and the others are where they were.
Moves(g) ==
  /\ UNCHANGED phase /\ Nearer(g) /\ OnlyIn(g)
  /\ \A h \in Groups \ {g} : left'[h] = left[h]

\* The resets before the groups, then one group at a time, then the answer; a refused reset stops all groups before
\* they start, or the group that resets.
BatchGoesOn ==
  \/ UNCHANGED groupVars /\ <<phase, phase'>> \in {<<"wipe", "fill">>, <<"fill", "groups">>, <<"groups", "answered">>}
  \/ \E g \in Groups : Moves(g)
  \/ phase \in {"wipe", "fill"} /\ Stops(Groups \ {"single"})
  \/ /\ phase \in {"groups", "failed"}
     /\ \E g \in Groups \ {"single"} : stage[g] \in {"wipe", "fill"} /\ Stops({g})

\* A group that is not done has a scenario, and before the last answer of it a request to send.
GroupWork(g) ==
  /\ left[g] \subseteq PlacesOf(g)
  /\ stage[g] \in (DOMAIN Await) \cup {"done", "stopped"} /\ (stage[g] = "done" <=> left[g] = {})
  /\ left[g] # {} => run[g].sent \subseteq DOMAIN Steps(g)
  /\ stage[g] \in Early => run[g].sent # DOMAIN Steps(g)

WorkInv ==
  /\ batch \in Seq(DOMAIN Template) /\ single \in Seq(DOMAIN Template)
  /\ phase \in {"wipe", "fill", "groups", "answered", "failed"}
  /\ DOMAIN left = Groups /\ \A g \in Groups : GroupWork(g)

\* What the phase says of the groups: somebody has stopped when the batch has failed and nobody otherwise, and all
\* are done when it is answered.  What runs alone has no reset that could stop it.
PhaseWork ==
  /\ phase \in {"wipe", "fill"} => Groups \ {"single"} # {}
  /\ phase = "answered" => \A g \in Groups \ {"single"} : stage[g] = "done"
  /\ phase = "failed" <=> \E g \in Groups : stage[g] = "stopped"
  /\ "single" \in Groups => stage["single"] \notin {"wipe", "fill", "stopped"}

\* Every template has a step.
LEMMA TemplatesHaveSteps ==
  \A id \in DOMAIN Template : DOMAIN Template[id] # {} /\ DOMAIN Template[id] \subseteq Nat
<1> DEFINE Some(steps) == DOMAIN steps # {} /\ DOMAIN steps \subseteq Nat
<1>1. Some(HealthSuccess) /\ Some(MetricsTextCheck) /\ Some(HealthMetricsParallel)
  BY DEF HealthSuccess, MetricsTextCheck, HealthMetricsParallel
<1>2. Some(CatalogListSuccess) /\ Some(CatalogPriceSort) /\ Some(CatalogProductNotFound)
  BY DEF CatalogListSuccess, CatalogPriceSort, CatalogProductNotFound
<1>3. Some(SearchNotebookSuccess) /\ Some(SearchZeroResult) /\ Some(SearchValidationFailure)
  BY DEF SearchNotebookSuccess, SearchZeroResult, SearchValidationFailure
<1>4. Some(RecommendationSuccess) /\ Some(RecommendationLimitValidation)
  BY DEF RecommendationSuccess, RecommendationLimitValidation
<1>5. Some(BuyerSuccessFunnel) /\ Some(BuyerFailureFunnel)
  BY DEF BuyerSuccessFunnel, BuyerFailureFunnel
<1>6. Some(BuyerCartValidationFailure) /\ Some(BuyerCartAddDeleteRoundtrip) /\ Some(BuyerEmptyCartCheckoutConflict)
  BY DEF BuyerCartValidationFailure, BuyerCartAddDeleteRoundtrip, BuyerEmptyCartCheckoutConflict
<1>7. Some(BuyerPaymentValidationFailure) /\ Some(BuyerCrossOrderAccessDenied) /\ Some(RouteNotFound)
  BY DEF BuyerPaymentValidationFailure, BuyerCrossOrderAccessDenied, RouteNotFound
<1>8. Some(FaultSearchDelay) /\ Some(FaultSearchError) /\ Some(FaultCartDelay)
  BY DEF FaultSearchDelay, FaultSearchError, FaultCartDelay
<1>9. Some(FaultOrderDelay) /\ Some(FaultPaymentDelay) /\ Some(FaultUnhandledException)
  BY DEF FaultOrderDelay, FaultPaymentDelay, FaultUnhandledException
<1>10. Some(LabelCoverageMissingBuyer)
  BY DEF LabelCoverageMissingBuyer
<1>11. DOMAIN Template = BuyerTemplates \cup OtherTemplates
  BY DEF Template
<1> HIDE DEF Some
<1>12. \A id \in BuyerTemplates : Some(Template[id])
  BY <1>5, <1>6, <1>7, TemplateOf DEF BuyerTemplates
<1>13. \A id \in OtherTemplates : Some(Template[id])
  BY <1>1, <1>2, <1>3, <1>4, <1>7, <1>8, <1>9, <1>10, TemplateOf DEF OtherTemplates
<1> QED
  BY <1>11, <1>12, <1>13 DEF Some

\* A sequence of templates has places that are numbers, and "single" is the group of none.
LEMMA TemplatesAt ==
  ASSUME NEW s \in Seq(DOMAIN Template)
  PROVE  /\ DOMAIN s = 1..Len(s) /\ Len(s) \in Nat /\ DOMAIN s \subseteq Nat
         /\ \A i \in DOMAIN s : s[i] \in DOMAIN Template /\ Group(s[i]) # "single"
<1>1. \A id \in DOMAIN Template : Group(id) # "single"
  BY DEF Template, Group, BuyerTemplates, OtherTemplates
<1>2. DOMAIN s = 1..Len(s) /\ Len(s) \in Nat /\ \A i \in DOMAIN s : s[i] \in DOMAIN Template
  OBVIOUS
<1> QED
  BY <1>1, <1>2

\* What a group with scenarios left is at.
LEMMA WorkAt ==
  ASSUME batch \in Seq(DOMAIN Template), single \in Seq(DOMAIN Template), NEW g \in Groups,
         NEW L, L \subseteq PlacesOf(g), L # {}
  PROVE  /\ Min(L) \in L /\ Min(L) \in DOMAIN Chosen(g) /\ Chosen(g)[Min(L)] \in DOMAIN Template
         /\ DOMAIN Template[Chosen(g)[Min(L)]] # {} /\ DOMAIN Template[Chosen(g)[Min(L)]] \subseteq Nat
<1>1. Chosen(g) \in Seq(DOMAIN Template)
  BY DEF Chosen
<1>2. L \subseteq DOMAIN Chosen(g) /\ L \subseteq Nat
  BY <1>1, TemplatesAt DEF PlacesOf
<1>3. Min(L) \in L
  BY <1>2, MinIn
<1> QED
  BY <1>1, <1>2, <1>3, TemplatesAt, TemplatesHaveSteps

\* The steps that lead to the next await of the same scenario.
LEMMA AwaitsPass ==
  ASSUME KpiInv, NEW g \in Groups,
         \/ WipeAgain(g) \/ FillAgain(g) \/ Count(g) \/ Drilldown(g) \/ Coverage(g) \/ Alarm(g) \/ Telemetry(g)
  PROVE  /\ OnlyIn(g) /\ UNCHANGED <<batch, single, phase, left, results>>
         /\ run'[g].sent = run[g].sent /\ run'[g].passed = run[g].passed
         /\ stage[g] \in DOMAIN Await /\ stage'[g] \in DOMAIN Await /\ Await[stage[g]] < Await[stage'[g]]
         /\ stage'[g] \in Early => stage[g] \in Early
         /\ \/ Count(g) /\ stage[g] = "count" /\ stage'[g] = "drilldown"
            \/ /\ kpi'.runs = kpi.runs /\ kpi'.passed = kpi.passed
               /\ stage[g] \in Updating <=> stage'[g] \in Updating
<1>1. UNCHANGED <<batch, single, phase, left, results>>
  BY ZenonT(60) DEF WipeAgain, FillAgain, Count, Drilldown, Coverage, Alarm, Telemetry, Kpi
<1>2. Groups' = Groups
  BY <1>1 DEF Groups, Elements
<1>3. /\ IsRun(run[g]) /\ kpi \in Counters /\ run = [h \in Groups |-> run[h]]
      /\ stage = [h \in Groups |-> stage[h]]
  BY DEF KpiInv, RunTyped
<1> DEFINE Turns(at, to) == stage[g] = at /\ stage' = [stage EXCEPT ![g] = to]
<1>4. /\ \/ Turns("wipe", "fill") \/ Turns("fill", "steps") \/ Turns("coverage", "alarm")
         \/ Turns("alarm", "telemetry") \/ Turns("telemetry", "gauges") \/ Turns("drilldown", "alarm")
         \/ Turns("drilldown", "coverage")
         \/ Count(g) /\ Turns("count", "drilldown")
  BY DEF WipeAgain, FillAgain, Count, Drilldown, Coverage, Alarm, Telemetry, Kpi, MayGo, Go
<1>5. \A to : stage' = [stage EXCEPT ![g] = to] => stage'[g] = to /\ \A h \in Groups \ {g} : stage'[h] = stage[h]
  BY <1>3
<1>6. /\ stage[g] \in DOMAIN Await /\ stage'[g] \in DOMAIN Await /\ Await[stage[g]] < Await[stage'[g]]
      /\ stage'[g] \in Early => stage[g] \in Early
      /\ \A h \in Groups \ {g} : stage'[h] = stage[h]
      /\ \/ Count(g) /\ stage[g] = "count" /\ stage'[g] = "drilldown"
         \/ stage[g] \in Updating <=> stage'[g] \in Updating
  BY <1>4, <1>5 DEF Await, Early, Updating
<1>7. run'[g].sent = run[g].sent /\ run'[g].passed = run[g].passed /\ \A h \in Groups \ {g} : run'[h] = run[h]
  <2>1. CASE run' = run
    BY <2>1
  <2>2. CASE Drilldown(g)
    <3>1. PICK found \in BOOLEAN : run' = [run EXCEPT ![g].drilled = found]
      BY <2>2 DEF Drilldown, KpiInv, RunTyped
    <3>2. run'[g] = [run[g] EXCEPT !.drilled = found] /\ \A h \in Groups \ {g} : run'[h] = run[h]
      BY <1>3, <3>1
    <3> QED
      BY <1>3, <3>2 DEF IsRun
  <2> QED
    BY <2>1, <2>2 DEF WipeAgain, FillAgain, Count, Coverage, Alarm, Telemetry
<1>8. Count(g) \/ (kpi'.runs = kpi.runs /\ kpi'.passed = kpi.passed)
  BY <1>3 DEF WipeAgain, FillAgain, Drilldown, Coverage, Alarm, Telemetry, kpiVars, Counters
<1>9. Count(g) => stage[g] = "count" /\ stage'[g] = "drilldown"
  BY <1>3 DEF Count, Kpi, MayGo, Go
<1> QED
  BY <1>1, <1>2, <1>6, <1>7, <1>8, <1>9 DEF OnlyIn

\* A request.
LEMMA RequestPassesOn ==
  ASSUME KpiInv, NEW g \in Groups, SendStep(g)
  PROVE  /\ OnlyIn(g) /\ UNCHANGED <<batch, single, phase, left, results, kpi>>
         /\ stage[g] = "steps"
         /\ \E i \in Sendable(g) : run'[g].sent = run[g].sent \cup {i}
         /\ stage'[g] = IF run'[g].sent = DOMAIN Steps(g) THEN "count" ELSE "steps"
<1>1. UNCHANGED <<batch, single, phase, left, results, kpi>> /\ stage[g] = "steps"
  BY DEF SendStep, kpiVars, MayGo
<1>2. IsRun(run[g]) /\ run = [h \in Groups |-> run[h]] /\ stage = [h \in Groups |-> stage[h]]
  BY DEF KpiInv, RunTyped
<1>3. /\ stage'[g] = IF run'[g].sent = DOMAIN Steps(g) THEN "count" ELSE "steps"
      /\ \A h \in Groups \ {g} : stage'[h] = stage[h]
  BY <1>2 DEF SendStep, Go
<1>4. PICK i \in Sendable(g) : \E sent :
         run' = [run EXCEPT ![g].sent = @ \cup {i},
                            ![g].context = With(@, Steps(g)[i].id, sent.answer),
                            ![g].passed = @ /\ Passes(Steps(g)[i], sent.answer)]
  BY Zenon DEF SendStep
<1>5. run'[g].sent = run[g].sent \cup {i} /\ \A h \in Groups \ {g} : run'[h] = run[h]
  <2>1. PICK sent : run' = [run EXCEPT ![g].sent = @ \cup {i},
                                       ![g].context = With(@, Steps(g)[i].id, sent.answer),
                                       ![g].passed = @ /\ Passes(Steps(g)[i], sent.answer)]
    BY <1>4
  <2> DEFINE ids == run[g].sent \cup {i}
             context == With(run[g].context, Steps(g)[i].id, sent.answer)
             passed == run[g].passed /\ Passes(Steps(g)[i], sent.answer)
             r == [run[g] EXCEPT !.sent = ids, !.context = context, !.passed = passed]
  <2>2. run' = [run EXCEPT ![g] = r]
    BY <2>1, Zenon
  <2>3. run'[g] = r /\ \A h \in Groups \ {g} : run'[h] = run[h]
    <3> HIDE DEF r
    <3> QED
      BY <1>2, <2>2
  <2> HIDE DEF ids, context, passed
  <2>4. r.sent = ids
    BY <1>2 DEF IsRun
  <2> QED
    BY <2>3, <2>4 DEF ids
<1> QED
  BY <1>1, <1>3, <1>5 DEF OnlyIn, Groups, Elements

\* The end of a scenario.
LEMMA PublishPassesOn ==
  ASSUME KpiInv, DOMAIN left = Groups, NEW g \in Groups, Publish(g)
  PROVE  /\ OnlyIn(g) /\ UNCHANGED <<batch, single, phase, kpi>>
         /\ stage[g] = "gauges" /\ run'[g] = NewRun
         /\ DOMAIN left' = Groups /\ left'[g] = left[g] \ {Min(left[g])}
         /\ \A h \in Groups \ {g} : left'[h] = left[h]
         /\ stage'[g] = IF left[g] = {Min(left[g])} THEN "done" ELSE First(g)
         /\ results' = With(results, Current(g), run[g].passed)
<1>1. run = [h \in Groups |-> run[h]] /\ stage = [h \in Groups |-> stage[h]]
  BY DEF KpiInv, RunTyped
<1> QED
  BY <1>1 DEF Publish, MayGo, Go, OnlyIn, Groups, Elements

\* Every group starts with a scenario.
LEMMA WorkInit == Init => WorkInv
<1> SUFFICES ASSUME Init PROVE WorkInv
  OBVIOUS
<1>1. batch \in Seq(DOMAIN Template) /\ single \in Seq(DOMAIN Template)
  BY StartsAreKnown DEF Init
<1>2. /\ phase \in {"wipe", "groups", "answered"} /\ left = [g \in Groups |-> PlacesOf(g)]
      /\ stage = [g \in Groups |-> First(g)] /\ run = [g \in Groups |-> NewRun]
  BY DEF Init, BatchInit
<1>3. ASSUME NEW g \in Groups PROVE GroupWork(g)
  <2>1. left[g] = PlacesOf(g) /\ stage[g] \in {"wipe", "steps"} /\ run[g].sent = {}
    BY <1>2, <1>3 DEF First, NewRun
  <2>2. PlacesOf(g) # {}
    <3>1. CASE \E id \in Elements(batch) : g = Group(id)
      <4>1. PICK i \in DOMAIN batch : g = Group(batch[i])
        BY <3>1 DEF Elements
      <4>2. g # "single"
        BY <1>1, <4>1, TemplatesAt
      <4> QED
        BY <4>1, <4>2 DEF PlacesOf, Chosen
    <3>2. CASE \E id \in Elements(single) : g = "single"
      BY <3>2 DEF Elements, PlacesOf, Chosen
    <3> QED
      BY <1>3, <3>1, <3>2 DEF Groups
  <2>3. DOMAIN Steps(g) # {}
    BY <1>1, <2>1, <2>2, WorkAt DEF Steps, Current
  <2> QED
    BY <2>1, <2>2, <2>3 DEF GroupWork, Await
<1> QED
  BY <1>1, <1>2, <1>3 DEF WorkInv

\* The reset comes first if there is a batch.
LEMMA PhaseInit == Init => PhaseWork
<1> SUFFICES ASSUME Init PROVE PhaseWork
  OBVIOUS
<1>1. /\ phase = IF batch = <<>> THEN "answered" ELSE "wipe"
      /\ stage = [g \in Groups |-> First(g)]
  BY DEF Init, BatchInit
<1>2. batch \in Seq(DOMAIN Template)
  BY StartsAreKnown DEF Init
<1>3. CASE batch = <<>>
  <2>1. Groups \subseteq {"single"}
    BY <1>3 DEF Groups, Elements
  <2> QED
    BY <1>1, <1>3, <2>1 DEF PhaseWork, First
<1>4. CASE batch # <<>>
  <2>1. 1 \in DOMAIN batch
    BY <1>2, <1>4
  <2>2. Group(batch[1]) \in Groups /\ Group(batch[1]) # "single"
    BY <1>2, <2>1, TemplatesAt DEF Groups, Elements
  <2> QED
    BY <1>1, <1>4, <2>2 DEF PhaseWork, First
<1> QED
  BY <1>3, <1>4

\* A group that goes on is none that has stopped, and what runs alone goes on without a reset.
LEMMA PhaseAfter ==
  ASSUME PhaseWork, NEW g \in Groups, Moves(g), phase \in {"groups", "failed"} \/ g = "single"
  PROVE  PhaseWork'
<1>1. /\ Groups' = Groups /\ phase' = phase
      /\ \A h \in Groups \ {g} : stage'[h] = stage[h]
  BY DEF Moves, OnlyIn
<1>2. stage[g] \notin {"done", "stopped"} /\ stage'[g] # "stopped"
  BY DEF Moves, Nearer, Await, First
<1>3. ASSUME g = "single" PROVE stage'[g] \notin {"wipe", "fill"}
  <2>1. stage[g] \notin {"wipe", "fill"}
    BY <1>3 DEF PhaseWork
  <2>2. CASE stage[g] \in DOMAIN Await /\ stage'[g] \in DOMAIN Await /\ Await[stage[g]] < Await[stage'[g]]
    BY <2>1, <2>2 DEF Await
  <2>3. CASE stage'[g] \in {"steps", "done", First(g)}
    BY <1>3, <2>3 DEF First
  <2> QED
    BY <2>2, <2>3 DEF Moves, Nearer
<1> QED
  BY <1>1, <1>2, <1>3 DEF PhaseWork

\* A step of g keeps the invariant if g still has work.
LEMMA WorkAfter ==
  ASSUME WorkInv, NEW g \in Groups, OnlyIn(g), UNCHANGED <<batch, single, phase>>,
         DOMAIN left' = Groups, \A h \in Groups \ {g} : left'[h] = left[h],
         GroupWork(g)'
  PROVE  WorkInv'
<1>1. ASSUME NEW h \in Groups, h # g PROVE GroupWork(h)'
  <2>1. stage'[h] = stage[h] /\ run'[h] = run[h] /\ left'[h] = left[h]
    BY <1>1 DEF OnlyIn
  <2>2. PlacesOf(h)' = PlacesOf(h) /\ Steps(h)' = Steps(h)
    BY <2>1 DEF PlacesOf, Steps, Current, Chosen
  <2> QED
    BY <1>1, <2>1, <2>2 DEF WorkInv, GroupWork
<1> QED
  BY <1>1 DEF WorkInv, OnlyIn

\* A request of a group is one of its scenario that it has not sent.
LEMMA SendableIn == \A g : Sendable(g) \subseteq DOMAIN Steps(g) \ run[g].sent
BY DEF Sendable

\* A step of a group takes it on and keeps it with work.
LEMMA GroupGoes ==
  ASSUME KpiInv, WorkInv, NEW g \in Groups, GroupStep(g)
  PROVE  Moves(g) /\ WorkInv'
<1>1. DOMAIN left = Groups /\ GroupWork(g)
  BY DEF WorkInv
<1>2. ASSUME UNCHANGED <<batch, single, left>>
      PROVE  PlacesOf(g)' = PlacesOf(g) /\ Steps(g)' = Steps(g)
  BY <1>2 DEF PlacesOf, Steps, Current, Chosen
<1>3. CASE WipeAgain(g) \/ FillAgain(g) \/ Count(g) \/ Drilldown(g) \/ Coverage(g) \/ Alarm(g) \/ Telemetry(g)
  <2>1. /\ OnlyIn(g) /\ UNCHANGED <<batch, single, phase, left>> /\ run'[g].sent = run[g].sent
        /\ stage[g] \in DOMAIN Await /\ stage'[g] \in DOMAIN Await /\ Await[stage[g]] < Await[stage'[g]]
        /\ stage'[g] \in Early => stage[g] \in Early
    BY <1>3, AwaitsPass
  <2>2. "done" \notin DOMAIN Await
    BY DEF Await
  <2>3. GroupWork(g)'
    BY <1>1, <1>2, <2>1, <2>2 DEF GroupWork
  <2>4. Nearer(g)
    BY <2>1 DEF Nearer
  <2> QED
    BY <1>1, <2>1, <2>3, <2>4, WorkAfter DEF Moves
<1>4. CASE SendStep(g)
  <2>1. /\ OnlyIn(g) /\ UNCHANGED <<batch, single, phase, left>> /\ stage[g] = "steps"
        /\ stage'[g] = IF run'[g].sent = DOMAIN Steps(g) THEN "count" ELSE "steps"
    BY <1>4, RequestPassesOn
  <2>2. PICK i \in DOMAIN Steps(g) \ run[g].sent : run'[g].sent = run[g].sent \cup {i}
    BY <1>4, RequestPassesOn, SendableIn
  <2>3. left[g] # {} /\ run'[g].sent \subseteq DOMAIN Steps(g)
    BY <1>1, <2>1, <2>2 DEF GroupWork
  <2>4. GroupWork(g)'
    BY <1>1, <1>2, <2>1, <2>3 DEF GroupWork, Await, Early
  <2>5. Nearer(g)
    BY <2>1, <2>2 DEF Nearer, Await
  <2> QED
    BY <1>1, <2>1, <2>4, <2>5, WorkAfter DEF Moves
<1>5. CASE Publish(g)
  <2>1. /\ OnlyIn(g) /\ UNCHANGED <<batch, single, phase>> /\ stage[g] = "gauges" /\ run'[g] = NewRun
        /\ DOMAIN left' = Groups /\ left'[g] = left[g] \ {Min(left[g])}
        /\ \A h \in Groups \ {g} : left'[h] = left[h]
        /\ stage'[g] = IF left[g] = {Min(left[g])} THEN "done" ELSE First(g)
    BY <1>1, <1>5, PublishPassesOn
  <2>2. left[g] # {} /\ left[g] \subseteq PlacesOf(g)
    BY <1>1, <2>1 DEF GroupWork
  <2>3. Min(left[g]) \in left[g]
    BY <2>2, WorkAt DEF WorkInv
  <2>4. stage'[g] = IF left'[g] = {} THEN "done" ELSE First(g)
    BY <2>1, <2>3
  <2>5. PlacesOf(g)' = PlacesOf(g) /\ Groups' = Groups
    BY <2>1 DEF PlacesOf, Chosen, Groups, Elements
  <2>6. NewRun.sent = {}
    BY DEF NewRun
  <2>7. left'[g] # {} => DOMAIN Steps(g)' # {}
    <3> SUFFICES ASSUME left'[g] # {} PROVE DOMAIN Steps(g)' # {}
      OBVIOUS
    <3>1. DOMAIN Template[Chosen(g)[Min(left'[g])]] # {}
      BY <2>1, <2>2, WorkAt DEF WorkInv
    <3>2. Steps(g)' = Template[Chosen(g)[Min(left'[g])]]
      BY <2>1 DEF Steps, Current, Chosen
    <3> QED
      BY <3>1, <3>2
  <2>8. First(g) \in {"wipe", "steps"}
    BY DEF First
  <2>9. GroupWork(g)'
    BY <2>1, <2>2, <2>4, <2>5, <2>6, <2>7, <2>8 DEF GroupWork, Await, Early
  <2>10. Nearer(g)
    BY <2>1, <2>3, <2>4 DEF Nearer
  <2> QED
    BY <2>1, <2>9, <2>10, WorkAfter DEF Moves
<1> QED
  BY <1>3, <1>4, <1>5 DEF GroupStep

\* Refused resets stop groups that have scenarios left.
LEMMA RefusedStops ==
  ASSUME KpiInv, Unstarted, WorkInv, PhaseWork, RefuseReset \/ \E g \in Groups : RefuseAgain(g)
  PROVE  WorkInv' /\ PhaseWork' /\ BatchGoesOn
<1> DEFINE Stopped == IF RefuseReset THEN Groups \ {"single"} ELSE {g \in Groups : RefuseAgain(g)}
<1>1. UNCHANGED <<batch, single, left, run>> /\ phase' = "failed"
  BY DEF RefuseReset, RefuseAgain
<1>2. Groups' = Groups /\ stage = [g \in Groups |-> stage[g]]
  BY <1>1 DEF Groups, Elements, KpiInv, RunTyped
<1>3. ASSUME RefuseReset
      PROVE  phase \in {"wipe", "fill"} /\ Groups \ {"single"} # {} /\ Stops(Groups \ {"single"})
  <2>1. /\ phase \in {"wipe", "fill"}
        /\ stage' = [g \in Groups |-> IF g = "single" THEN stage[g] ELSE "stopped"]
    BY <1>3 DEF RefuseReset
  <2>2. \A g \in Groups \ {"single"} : left[g] # {}
    BY <2>1 DEF Unstarted, First, WorkInv, GroupWork
  <2> QED
    BY <1>1, <2>1, <2>2 DEF PhaseWork, Stops
<1>4. ASSUME NEW g \in Groups, RefuseAgain(g)
      PROVE  /\ g # "single" /\ phase \in {"groups", "failed"} /\ stage[g] \in {"wipe", "fill"}
             /\ Stops({g})
  <2>1. /\ stage[g] \in {"wipe", "fill"} /\ (phase \in {"groups", "failed"} \/ g = "single")
        /\ stage' = [stage EXCEPT ![g] = "stopped"]
    BY <1>4 DEF RefuseAgain, MayGo, Go
  <2>2. left[g] # {}
    BY <2>1 DEF WorkInv, GroupWork
  <2> QED
    BY <1>1, <1>2, <2>1, <2>2 DEF PhaseWork, Stops
<1>5. PICK S \in SUBSET (Groups \ {"single"}) : S # {} /\ Stops(S)
  BY <1>3, <1>4
<1>6. ASSUME NEW g \in Groups PROVE GroupWork(g)'
  <2>1. PlacesOf(g)' = PlacesOf(g) /\ Steps(g)' = Steps(g)
    BY <1>1 DEF PlacesOf, Steps, Current, Chosen
  <2>2. GroupWork(g)
    BY DEF WorkInv
  <2>3. CASE g \in S
    BY <1>1, <1>5, <2>1, <2>2, <2>3 DEF Stops, GroupWork, Early
  <2>4. CASE g \notin S
    BY <1>1, <1>5, <2>1, <2>2, <2>4 DEF Stops, GroupWork
  <2> QED
    BY <2>3, <2>4
<1>7. WorkInv'
  BY <1>1, <1>2, <1>6 DEF WorkInv
<1>8. PhaseWork'
  BY <1>1, <1>2, <1>5 DEF PhaseWork, Stops
<1>9. BatchGoesOn
  BY <1>3, <1>4 DEF BatchGoesOn
<1> QED
  BY <1>7, <1>8, <1>9

\* Every step does, or takes the batch from one phase to the next.
LEMMA WorkNext ==
  KpiInv /\ Unstarted /\ WorkInv /\ PhaseWork /\ [Next]_vars => WorkInv' /\ PhaseWork' /\ [BatchGoesOn]_batchVars
<1> SUFFICES ASSUME KpiInv, Unstarted, WorkInv, PhaseWork, [Next]_vars
             PROVE  WorkInv' /\ PhaseWork' /\ [BatchGoesOn]_batchVars
  OBVIOUS
<1>1. ASSUME UNCHANGED <<batch, single, groupVars>>, phase' \in {"wipe", "fill", "groups", "answered", "failed"}
      PROVE  WorkInv' /\ Groups' = Groups
  <2>1. UNCHANGED <<batch, single, left, stage, run>>
    BY <1>1 DEF groupVars
  <2>2. Groups' = Groups
    BY <2>1 DEF Groups, Elements
  <2>3. \A g \in Groups : GroupWork(g)' = GroupWork(g)
    BY <2>1 DEF GroupWork, PlacesOf, Steps, Current, Chosen
  <2> QED
    BY <1>1, <2>1, <2>2, <2>3 DEF WorkInv
<1>2. CASE Wipe \/ Fill \/ AnswerBatch
  <2>1. /\ UNCHANGED <<batch, single, groupVars>>
        /\ <<phase, phase'>> \in {<<"wipe", "fill">>, <<"fill", "groups">>, <<"groups", "answered">>}
        /\ phase' = "answered" => \A g \in Groups \ {"single"} : stage[g] = "done"
    BY <1>2 DEF Wipe, Fill, AnswerBatch
  <2>2. phase' \in {"wipe", "fill", "groups", "answered", "failed"}
    BY <2>1
  <2>3. PhaseWork'
    BY <1>1, <2>1, <2>2 DEF PhaseWork, groupVars
  <2> QED
    BY <1>1, <2>1, <2>2, <2>3 DEF BatchGoesOn
<1>3. CASE UNCHANGED batchVars
  <2>1. UNCHANGED <<batch, single, groupVars, phase>> /\ UNCHANGED stage
    BY <1>3 DEF batchVars, groupVars
  <2>2. WorkInv' /\ Groups' = Groups
    BY <1>1, <2>1 DEF WorkInv
  <2> QED
    BY <1>3, <2>1, <2>2 DEF PhaseWork
<1>4. CASE UNCHANGED vars
  BY <1>3, <1>4 DEF vars
<1>5. ASSUME NEW g \in Groups, GroupStep(g)
      PROVE  WorkInv' /\ PhaseWork' /\ BatchGoesOn
  <2>1. Moves(g) /\ WorkInv'
    BY <1>5, GroupGoes
  <2>2. PhaseWork'
    BY <1>5, <2>1, GroupStepGoes, PhaseAfter
  <2> QED
    BY <2>1, <2>2 DEF BatchGoesOn
<1>6. CASE RefuseNext
  BY <1>3, <1>6, RefusedStops DEF RefuseNext
<1> QED
  BY ZenonT(60), <1>2, <1>3, <1>4, <1>5, <1>6 DEF Next, BatchNext, GroupStep

\* They hold all the time.
LEMMA AlwaysWork == Spec => [](WorkInv /\ PhaseWork)
BY AlwaysKpiInv, AlwaysUnstarted, WorkInit, PhaseInit, WorkNext, PTL DEF Spec

\* executeScenarioBatch and executeScenarioForBatch: each step takes one group on, and that one forward, to its next
\* await, to a request less to send, or to a scenario less to run; only a refused reset stops a group, before the
\* scenario it was to run, and it takes no other group with it once they have started.  No group is sent back or
\* revived, whatever the other groups, the run alone and k6 do to the shop in between, and the batch is reset once
\* and answered with success once, if at all.
THEOREM BatchesGoOn == Spec => [][BatchGoesOn]_batchVars
BY AlwaysKpiInv, AlwaysUnstarted, AlwaysWork, WorkNext, PTL DEF Spec

\* A group that is not done has a scenario of its own to run, and a request while it sends them.
HasWork ==
  \A g \in Groups :
    /\ stage[g] # "done" => Min(left[g]) \in PlacesOf(g)
    /\ stage[g] = "steps" => Sendable(g) # {}

\* Between two scenarios and within one, a group is never left without work: as long as it is not
\* done it has a scenario of its own to run, and while it sends requests there is one left to send.
THEOREM GroupsHaveWork == Spec => []HasWork
<1>1. ASSUME WorkInv, NEW g \in Groups, stage[g] # "done"
      PROVE  Min(left[g]) \in PlacesOf(g) /\ (stage[g] = "steps" => Sendable(g) # {})
  <2>1. left[g] # {} /\ left[g] \subseteq PlacesOf(g)
    BY <1>1 DEF WorkInv, GroupWork
  <2>2. Min(left[g]) \in left[g] /\ DOMAIN Steps(g) \subseteq Nat
    BY <1>1, <2>1, WorkAt DEF WorkInv, Steps, Current
  <2>3. ASSUME stage[g] = "steps" PROVE Sendable(g) # {}
    <3> DEFINE open == DOMAIN Steps(g) \ run[g].sent
    <3>1. open # {} /\ open \subseteq Nat
      BY <1>1, <2>1, <2>2, <2>3 DEF WorkInv, GroupWork, Early
    <3>2. Min(open) \in open /\ \A y \in open : Min(open) <= y
      BY <3>1, MinIn
    <3>3. Sendable(g) = IF IsParallel(Current(g)) THEN open ELSE {i \in open : \A j \in open : i <= j}
      BY DEF Sendable
    <3> HIDE DEF open
    <3> QED
      BY <3>1, <3>2, <3>3
  <2> QED
    BY <2>1, <2>2, <2>3
<1>2. WorkInv => HasWork
  BY <1>1 DEF HasWork
<1> QED
  BY <1>2, AlwaysWork, PTL

\* The scenarios a group has not finished.
Waiting(g) == {Chosen(g)[i] : i \in left[g]}

\* The groups with a scenario that is counted and not finished, and those of them with one that passed.
Counted == {g \in Groups : stage[g] \in Updating}
CountedPassed == {g \in Groups : stage[g] \in Updating /\ run[g].passed}

\* The finished scenarios that passed.
Passed == {id \in DOMAIN results : results[id]}

\* Nothing is started twice, in the batch and alone.
AllApart == IsInjective(batch \o single)

\* Every scenario is still to be finished or has its one result, and is in the counters once.
AccountInv ==
  /\ IsFiniteSet(DOMAIN results) /\ \A id \in DOMAIN results : results[id] \in BOOLEAN
  /\ DOMAIN results \cup UNION {Waiting(g) : g \in Groups} = Elements(batch) \cup Elements(single)
  /\ DOMAIN results = UNION {Finished(g) : g \in Groups}
  /\ \A g \in Groups : Waiting(g) \cap DOMAIN results = {}
  /\ kpi.runs = Cardinality(DOMAIN results) + Cardinality(Counted)
  /\ kpi.passed = Cardinality(Passed) + Cardinality(CountedPassed)

\* What was chosen is as many scenarios as there are places.
LEMMA ChosenCount ==
  ASSUME batch \in Seq(DOMAIN Template), single \in Seq(DOMAIN Template), AllApart
  PROVE  /\ Elements(batch \o single) = Elements(batch) \cup Elements(single)
         /\ Cardinality(Elements(batch) \cup Elements(single)) = Len(batch \o single)
         /\ \A i, j \in DOMAIN batch : batch[i] = batch[j] => i = j
         /\ \A i, j \in DOMAIN single : single[i] = single[j] => i = j
         /\ \A i \in DOMAIN batch : \A j \in DOMAIN single : batch[i] # single[j]
<1> DEFINE all == batch \o single
<1>1. /\ all \in Seq(DOMAIN Template) /\ Len(all) = Len(batch) + Len(single)
      /\ \A i \in 1..(Len(batch) + Len(single)) :
           all[i] = IF i <= Len(batch) THEN batch[i] ELSE single[i - Len(batch)]
  BY ConcatProperties
<1>2. /\ DOMAIN batch = 1..Len(batch) /\ Len(batch) \in Nat
      /\ DOMAIN single = 1..Len(single) /\ Len(single) \in Nat
  OBVIOUS
<1> HIDE DEF all
<1>3. DOMAIN all = 1..(Len(batch) + Len(single))
  BY <1>1
<1>4. \A i, j \in DOMAIN all : all[i] = all[j] => i = j
  BY DEF AllApart, IsInjective, all
<1>5. \A i \in DOMAIN batch : i \in DOMAIN all /\ all[i] = batch[i]
  BY <1>1, <1>2, <1>3
<1>6. \A j \in DOMAIN single : /\ Len(batch) + j \in DOMAIN all /\ Len(batch) + j > Len(batch)
                               /\ all[Len(batch) + j] = single[j]
  <2> SUFFICES ASSUME NEW j \in DOMAIN single
               PROVE  /\ Len(batch) + j \in DOMAIN all /\ Len(batch) + j > Len(batch)
                      /\ all[Len(batch) + j] = single[j]
    OBVIOUS
  <2>1. Len(batch) + j \in 1..(Len(batch) + Len(single)) /\ ~(Len(batch) + j <= Len(batch))
    BY <1>2
  <2>2. (Len(batch) + j) - Len(batch) = j
    BY <1>2
  <2> QED
    BY <1>1, <1>2, <1>3, <2>1, <2>2
<1>7. \A i, j \in DOMAIN batch : batch[i] = batch[j] => i = j
  BY <1>4, <1>5
<1>8. \A i, j \in DOMAIN single : single[i] = single[j] => i = j
  <2> SUFFICES ASSUME NEW i \in DOMAIN single, NEW j \in DOMAIN single, single[i] = single[j] PROVE i = j
    OBVIOUS
  <2>1. Len(batch) + i = Len(batch) + j
    BY <1>4, <1>6
  <2> QED
    BY <1>2, <2>1
<1>9. \A i \in DOMAIN batch : \A j \in DOMAIN single : batch[i] # single[j]
  <2> SUFFICES ASSUME NEW i \in DOMAIN batch, NEW j \in DOMAIN single, batch[i] = single[j] PROVE FALSE
    OBVIOUS
  <2>1. i = Len(batch) + j
    BY <1>4, <1>5, <1>6
  <2> QED
    BY <1>2, <1>6, <2>1
<1>10. Elements(all) = Elements(batch) \cup Elements(single)
  <2>1. ASSUME NEW i \in DOMAIN all PROVE all[i] \in Elements(batch) \cup Elements(single)
    <3>1. CASE i <= Len(batch)
      BY <1>1, <1>2, <1>3, <2>1, <3>1 DEF Elements
    <3>2. CASE ~(i <= Len(batch))
      <4>1. i - Len(batch) \in 1..Len(single)
        BY <1>2, <1>3, <2>1, <3>2
      <4> QED
        BY <1>1, <1>2, <1>3, <2>1, <3>2, <4>1 DEF Elements
    <3> QED
      BY <3>1, <3>2
  <2>2. \A i \in DOMAIN batch : batch[i] \in Elements(all)
    BY <1>5 DEF Elements
  <2>3. \A j \in DOMAIN single : single[j] \in Elements(all)
    BY <1>6 DEF Elements
  <2> QED
    BY <2>1, <2>2, <2>3 DEF Elements
<1>11. Cardinality(Elements(all)) = Len(all)
  <2> DEFINE f == [i \in DOMAIN all |-> all[i]]
  <2>1. f \in Bijection(DOMAIN all, Elements(all))
    BY <1>4 DEF Bijection, Injection, Surjection, IsInjective, Elements
  <2>2. IsFiniteSet(DOMAIN all) /\ Cardinality(DOMAIN all) = Len(all)
    BY <1>1, <1>2, <1>3, FS_Interval
  <2>3. ExistsBijection(DOMAIN all, Elements(all))
    BY <2>1 DEF ExistsBijection
  <2> QED
    BY <2>2, <2>3, FS_Bijection
<1> QED
  BY <1>7, <1>8, <1>9, <1>10, <1>11 DEF all

\* No scenario has two places, and each has a group.
LEMMA PlacesApart ==
  ASSUME batch \in Seq(DOMAIN Template), single \in Seq(DOMAIN Template), AllApart,
         NEW g \in Groups, NEW h \in Groups, NEW i \in PlacesOf(g), NEW j \in PlacesOf(h),
         Chosen(g)[i] = Chosen(h)[j]
  PROVE  g = h /\ i = j
<1>1. /\ \A k, m \in DOMAIN batch : batch[k] = batch[m] => k = m
      /\ \A k, m \in DOMAIN single : single[k] = single[m] => k = m
      /\ \A k \in DOMAIN batch : \A m \in DOMAIN single : batch[k] # single[m]
  BY ChosenCount
<1>2. CASE g = "single" /\ h = "single"
  BY <1>1, <1>2 DEF PlacesOf, Chosen
<1>3. CASE g # "single" /\ h # "single"
  BY <1>1, <1>3 DEF PlacesOf, Chosen
<1>4. CASE g = "single" /\ h # "single"
  BY <1>1, <1>4 DEF PlacesOf, Chosen
<1>5. CASE g # "single" /\ h = "single"
  BY <1>1, <1>5 DEF PlacesOf, Chosen
<1> QED
  BY <1>2, <1>3, <1>4, <1>5

\* At the start all are waiting.
LEMMA AccountInit == Init => AccountInv
<1> SUFFICES ASSUME Init PROVE AccountInv
  OBVIOUS
<1>1. WorkInv
  BY WorkInit
<1>2. /\ left = [g \in Groups |-> PlacesOf(g)] /\ stage = [g \in Groups |-> First(g)]
      /\ DOMAIN results = {} /\ kpi = NoKpi
  BY DEF Init, BatchInit
<1>3. \A g \in Groups : stage[g] \notin Updating
  BY <1>2 DEF First, Updating
<1>4. Counted = {} /\ CountedPassed = {} /\ Passed = {}
  BY <1>2, <1>3 DEF Counted, CountedPassed, Passed
<1>5. ASSUME NEW id \in Elements(batch) PROVE \E g \in Groups : id \in Waiting(g)
  <2>1. PICK i \in DOMAIN batch : id = batch[i]
    BY <1>5 DEF Elements
  <2>2. Group(id) \in Groups /\ Group(id) # "single"
    BY <1>1, <1>5, <2>1, TemplatesAt DEF WorkInv, Groups
  <2>3. i \in PlacesOf(Group(id)) /\ Chosen(Group(id)) = batch
    BY <2>1, <2>2 DEF PlacesOf, Chosen
  <2> QED
    BY <1>2, <2>1, <2>2, <2>3 DEF Waiting
<1>6. ASSUME NEW id \in Elements(single) PROVE \E g \in Groups : id \in Waiting(g)
  <2>1. PICK i \in DOMAIN single : id = single[i]
    BY <1>6 DEF Elements
  <2>2. "single" \in Groups
    BY <1>6 DEF Groups
  <2>3. i \in PlacesOf("single") /\ Chosen("single") = single
    BY <2>1 DEF PlacesOf, Chosen
  <2> QED
    BY <1>2, <2>1, <2>2, <2>3 DEF Waiting
<1>7. \A g \in Groups : Waiting(g) \subseteq Elements(batch) \cup Elements(single)
  BY <1>2 DEF Waiting, PlacesOf, Chosen, Elements
<1>8. UNION {Waiting(g) : g \in Groups} = Elements(batch) \cup Elements(single)
  BY <1>5, <1>6, <1>7
<1>9. UNION {Finished(g) : g \in Groups} = {}
  BY <1>2 DEF Finished
<1> QED
  BY <1>2, <1>4, <1>8, <1>9, FS_EmptySet DEF AccountInv, NoKpi

\* The two sets of counted groups before and after a step of g.
LEMMA CountedAfter ==
  ASSUME RunTyped, NEW g \in Groups, OnlyIn(g)
  PROVE  /\ Counts(g, Counted, Counted') /\ Counts(g, CountedPassed, CountedPassed')
         /\ g \in Counted <=> stage[g] \in Updating
         /\ g \in Counted' <=> stage'[g] \in Updating
         /\ g \in CountedPassed <=> stage[g] \in Updating /\ run[g].passed
         /\ g \in CountedPassed' <=> stage'[g] \in Updating /\ run'[g].passed
<1> USE DEF OnlyIn
<1>1. IsFiniteSet(Groups)
  BY DEF RunTyped
<1>2. Counts(g, Counted, Counted')
  BY <1>1, SetsAfter DEF Counted
<1>3. Counts(g, CountedPassed, CountedPassed')
  BY <1>1, SetsAfter DEF CountedPassed
<1> QED
  BY <1>2, <1>3 DEF Counted, CountedPassed

\* What is waiting and what has its result, when no scenario ends.
LEMMA SameAccount ==
  ASSUME AccountInv, UNCHANGED <<batch, single, left, results>>,
         kpi'.runs = Cardinality(DOMAIN results) + Cardinality(Counted'),
         kpi'.passed = Cardinality(Passed) + Cardinality(CountedPassed')
  PROVE  AccountInv'
<1>1. Groups' = Groups /\ \A g : Waiting(g)' = Waiting(g) /\ Finished(g)' = Finished(g)
  BY DEF Groups, Elements, Waiting, Finished, PlacesOf, Chosen
<1>2. Passed' = Passed /\ Elements(batch)' = Elements(batch) /\ Elements(single)' = Elements(single)
  BY DEF Passed, Elements
<1>3. /\ UNION {Waiting(g)' : g \in Groups'} = UNION {Waiting(g) : g \in Groups}
      /\ UNION {Finished(g)' : g \in Groups'} = UNION {Finished(g) : g \in Groups}
  BY <1>1
<1> QED
  BY <1>1, <1>2, <1>3 DEF AccountInv

\* A step between two awaits, a request, and a count.
LEMMA AwaitAccounts ==
  ASSUME KpiInv, WorkInv, AccountInv, NEW g \in Groups,
         \/ WipeAgain(g) \/ FillAgain(g) \/ SendStep(g) \/ Count(g) \/ Drilldown(g)
         \/ Coverage(g) \/ Alarm(g) \/ Telemetry(g)
  PROVE  AccountInv'
<1>1. RunTyped /\ kpi \in Counters /\ IsRun(run[g])
  BY DEF KpiInv, RunTyped
<1>2. OnlyIn(g) /\ UNCHANGED <<batch, single, left, results>>
  BY AwaitsPass, RequestPassesOn
<1>3. /\ Counts(g, Counted, Counted') /\ Counts(g, CountedPassed, CountedPassed')
      /\ g \in Counted <=> stage[g] \in Updating
      /\ g \in Counted' <=> stage'[g] \in Updating
      /\ g \in CountedPassed <=> stage[g] \in Updating /\ run[g].passed
      /\ g \in CountedPassed' <=> stage'[g] \in Updating /\ run'[g].passed
  BY <1>1, <1>2, CountedAfter
<1>4. /\ kpi.runs = Cardinality(DOMAIN results) + Cardinality(Counted)
      /\ kpi.passed = Cardinality(Passed) + Cardinality(CountedPassed)
      /\ Cardinality(DOMAIN results) \in Nat /\ Cardinality(Passed) \in Nat
  <2>1. IsFiniteSet(Passed)
    BY FS_Subset DEF AccountInv, Passed
  <2> QED
    BY <2>1, FS_CardinalityType DEF AccountInv
<1>5. CASE Count(g)
  <2>1. run'[g].passed = run[g].passed /\ stage[g] \notin Updating /\ stage'[g] \in Updating
    <3>1. run' = run /\ stage[g] = "count" /\ stage' = [stage EXCEPT ![g] = "drilldown"]
      BY <1>5 DEF Count, Kpi, MayGo, Go
    <3> QED
      BY <1>1, <3>1 DEF RunTyped, Updating
  <2>2. kpi'.runs = kpi.runs + 1 /\ kpi'.passed = IF run[g].passed THEN kpi.passed + 1 ELSE kpi.passed
    BY <1>1, <1>5 DEF Count, Counters
  <2>3. Cardinality(Counted') = Cardinality(Counted) + 1 /\ Cardinality(Counted) \in Nat
    BY <1>3, <2>1 DEF Counts
  <2>4. /\ Cardinality(CountedPassed') = IF run[g].passed THEN Cardinality(CountedPassed) + 1
                                                          ELSE Cardinality(CountedPassed)
        /\ Cardinality(CountedPassed) \in Nat
    BY <1>3, <2>1 DEF Counts
  <2> QED
    BY <1>2, <1>4, <2>2, <2>3, <2>4, SameAccount
<1>6. CASE ~Count(g)
  <2>1. /\ kpi'.runs = kpi.runs /\ kpi'.passed = kpi.passed
        /\ stage[g] \in Updating <=> stage'[g] \in Updating
        /\ stage[g] \in Updating => run'[g].passed = run[g].passed
    <3>1. CASE SendStep(g)
      <4>1. kpi' = kpi /\ stage[g] = "steps" /\ stage'[g] \in {"steps", "count"}
        BY <3>1, RequestPassesOn
      <4> QED
        BY <4>1 DEF Updating
    <3>2. CASE ~SendStep(g)
      BY <1>6, <3>2, AwaitsPass
    <3> QED
      BY <3>1, <3>2
  <2>2. Cardinality(Counted') = Cardinality(Counted) /\ Cardinality(CountedPassed') = Cardinality(CountedPassed)
    BY <1>3, <2>1 DEF Counts
  <2> QED
    BY <1>2, <1>4, <2>1, <2>2, SameAccount
<1> QED
  BY <1>5, <1>6

\* The end of a scenario moves it from the waiting to the finished ones.
LEMMA PublishAccounts ==
  ASSUME KpiInv, WorkInv, AllApart, AccountInv, NEW g \in Groups, Publish(g)
  PROVE  AccountInv'
<1> DEFINE id == Current(g)
<1>1. RunTyped /\ kpi \in Counters /\ run[g].passed \in BOOLEAN
  BY DEF KpiInv, RunTyped, IsRun
<1>2. /\ OnlyIn(g) /\ UNCHANGED <<batch, single, kpi>> /\ stage[g] = "gauges" /\ run'[g] = NewRun
      /\ left'[g] = left[g] \ {Min(left[g])} /\ \A h \in Groups \ {g} : left'[h] = left[h]
      /\ stage'[g] = IF left[g] = {Min(left[g])} THEN "done" ELSE First(g)
      /\ results' = With(results, id, run[g].passed)
  BY PublishPassesOn DEF WorkInv
<1>3. left[g] # {} /\ left[g] \subseteq PlacesOf(g) /\ \A h \in Groups : left[h] \subseteq PlacesOf(h)
  BY <1>2 DEF WorkInv, GroupWork
<1>4. Min(left[g]) \in left[g] /\ id = Chosen(g)[Min(left[g])]
  BY <1>3, WorkAt DEF WorkInv, Current
<1>5. id \in Waiting(g) /\ id \notin DOMAIN results
  BY <1>4 DEF Waiting, AccountInv
<1>6. Groups' = Groups /\ \A h : Chosen(h)' = Chosen(h)
  BY <1>2 DEF OnlyIn, Chosen
<1>7. ASSUME NEW h \in Groups PROVE Waiting(h)' = Waiting(h) \ {id}
  <2>1. \A i \in left[h] : Chosen(h)[i] = id => h = g /\ i = Min(left[g])
    BY <1>3, <1>4, PlacesApart DEF WorkInv
  <2>2. CASE h = g
    BY <1>2, <1>4, <1>6, <2>1, <2>2 DEF Waiting
  <2>3. CASE h # g
    BY <1>2, <1>6, <2>1, <2>3 DEF Waiting
  <2> QED
    BY <2>2, <2>3
<1>8. /\ DOMAIN results' = DOMAIN results \cup {id} /\ results'[id] = run[g].passed
      /\ \A x \in DOMAIN results : results'[x] = results[x]
  BY <1>2, <1>5 DEF With
<1> HIDE DEF id
<1>9. Passed' = IF run[g].passed THEN Passed \cup {id} ELSE Passed
  BY <1>5, <1>8 DEF Passed
<1>10. IsFiniteSet(DOMAIN results) /\ IsFiniteSet(Passed) /\ id \notin Passed
  BY <1>5, FS_Subset DEF AccountInv, Passed
<1>11. /\ IsFiniteSet(DOMAIN results') /\ Cardinality(DOMAIN results') = Cardinality(DOMAIN results) + 1
       /\ Cardinality(DOMAIN results) \in Nat
  BY <1>5, <1>8, <1>10, FS_AddElement, FS_CardinalityType
<1>12. /\ Cardinality(Passed') = IF run[g].passed THEN Cardinality(Passed) + 1 ELSE Cardinality(Passed)
       /\ Cardinality(Passed) \in Nat
  BY <1>9, <1>10, FS_AddElement, FS_CardinalityType
<1>13. stage[g] \in Updating /\ stage'[g] \notin Updating
  BY <1>2 DEF Updating, First
<1>14. /\ Counts(g, Counted, Counted') /\ Counts(g, CountedPassed, CountedPassed')
       /\ g \in Counted <=> stage[g] \in Updating
       /\ g \in Counted' <=> stage'[g] \in Updating
       /\ g \in CountedPassed <=> stage[g] \in Updating /\ run[g].passed
       /\ g \in CountedPassed' <=> stage'[g] \in Updating /\ run'[g].passed
  BY <1>1, <1>2, CountedAfter
<1>15. Cardinality(Counted) = Cardinality(Counted') + 1 /\ Cardinality(Counted') \in Nat
  BY <1>13, <1>14 DEF Counts
<1>16. /\ Cardinality(CountedPassed) = IF run[g].passed THEN Cardinality(CountedPassed') + 1
                                                         ELSE Cardinality(CountedPassed')
       /\ Cardinality(CountedPassed') \in Nat
  BY <1>13, <1>14 DEF Counts
<1>17. kpi'.runs = Cardinality(DOMAIN results') + Cardinality(Counted')
  BY <1>2, <1>11, <1>15 DEF AccountInv
<1>18. kpi'.passed = Cardinality(Passed') + Cardinality(CountedPassed')
  BY <1>2, <1>12, <1>16 DEF AccountInv
<1>19. /\ \A h \in Groups : Waiting(h)' \cap DOMAIN results' = {}
       /\ DOMAIN results' \cup UNION {Waiting(h)' : h \in Groups'} = DOMAIN results \cup UNION {Waiting(h) : h \in Groups}
  BY <1>5, <1>6, <1>7, <1>8 DEF AccountInv
<1>20. Elements(batch)' = Elements(batch) /\ Elements(single)' = Elements(single)
  BY <1>2 DEF Elements
<1>21. \A x \in DOMAIN results' : results'[x] \in BOOLEAN
  BY <1>1, <1>8 DEF AccountInv
<1>22. DOMAIN results' = UNION {Finished(h)' : h \in Groups'}
  <2>1. \A h \in Groups : PlacesOf(h)' = PlacesOf(h)
    BY <1>6 DEF PlacesOf
  <2>2. Finished(g)' = Finished(g) \cup {id}
    BY <1>2, <1>3, <1>4, <1>6, <2>1 DEF Finished
  <2>3. \A h \in Groups \ {g} : Finished(h)' = Finished(h)
    BY <1>2, <1>6, <2>1 DEF Finished
  <2>4. \A x : (\E h \in Groups : x \in Finished(h)') <=> x = id \/ \E h \in Groups : x \in Finished(h)
    BY <2>2, <2>3
  <2>5. UNION {Finished(h)' : h \in Groups'} = (UNION {Finished(h) : h \in Groups}) \cup {id}
    <3>1. \A x : x \in UNION {Finished(h)' : h \in Groups'} <=> \E h \in Groups : x \in Finished(h)'
      BY <1>6
    <3>2. \A x : x \in UNION {Finished(h) : h \in Groups} <=> \E h \in Groups : x \in Finished(h)
      OBVIOUS
    <3> QED
      BY <2>4, <3>1, <3>2
  <2>6. DOMAIN results = UNION {Finished(h) : h \in Groups}
    BY DEF AccountInv
  <2> QED
    BY <1>8, <2>5, <2>6
<1> QED
  BY <1>6, <1>11, <1>17, <1>18, <1>19, <1>20, <1>21, <1>22 DEF AccountInv

\* Every step keeps account.
LEMMA AccountNext ==
  KpiInv /\ Unstarted /\ WorkInv /\ (AllApart => AccountInv) /\ [Next]_vars => (AllApart => AccountInv)'
<1> SUFFICES ASSUME KpiInv, Unstarted, WorkInv, AllApart => AccountInv, [Next]_vars, AllApart' PROVE AccountInv'
  OBVIOUS
<1>1. UNCHANGED <<batch, single>>
  BY StartStays
<1>2. AllApart /\ AccountInv
  BY <1>1 DEF AllApart
<1>3. ASSUME UNCHANGED <<left, run, results, kpi>>,
             \A g \in Groups : stage'[g] = stage[g] \/ {stage[g], stage'[g]} \cap Updating = {}
      PROVE  AccountInv'
  <2>1. Counted' = Counted /\ CountedPassed' = CountedPassed
    BY <1>1, <1>3 DEF Counted, CountedPassed, Groups, Elements
  <2> QED
    BY <1>1, <1>2, <1>3, <2>1, SameAccount DEF AccountInv
<1>4. CASE Wipe \/ Fill \/ AnswerBatch
  BY <1>3, <1>4 DEF Wipe, Fill, AnswerBatch, groupVars, kpiVars
<1>5. CASE UNCHANGED batchVars
  BY <1>3, <1>5 DEF batchVars
<1>6. CASE UNCHANGED vars
  BY <1>5, <1>6 DEF vars
<1>7. ASSUME NEW g \in Groups, GroupStep(g)
      PROVE  AccountInv'
  BY <1>2, <1>7, AwaitAccounts, PublishAccounts DEF GroupStep
<1>8. CASE RefuseReset
  <2>1. \A g \in Groups : \/ stage'[g] = stage[g]
                          \/ stage[g] \in {"wipe", "steps"} /\ stage'[g] = "stopped"
    BY <1>8, RefusedReset
  <2>2. UNCHANGED <<left, run, results, kpi>>
    BY <1>8 DEF RefuseReset, kpiVars
  <2>3. \A g \in Groups : stage'[g] = stage[g] \/ {stage[g], stage'[g]} \cap Updating = {}
    BY <2>1 DEF Updating
  <2> QED
    BY <1>3, <2>2, <2>3
<1>9. ASSUME NEW g \in Groups, RefuseAgain(g)
      PROVE  AccountInv'
  <2>1. /\ stage[g] \in {"wipe", "fill"} /\ stage' = [stage EXCEPT ![g] = "stopped"]
        /\ UNCHANGED <<left, run, results, kpi>>
    BY <1>9 DEF RefuseAgain, MayGo, Go, kpiVars
  <2>2. \A h \in Groups : stage'[h] = stage[h] \/ {stage[h], stage'[h]} \cap Updating = {}
    BY <2>1 DEF KpiInv, RunTyped, Updating
  <2> QED
    BY <1>3, <2>1, <2>2
<1>10. CASE RefuseNext
  BY <1>5, <1>8, <1>9, <1>10 DEF RefuseNext
<1> QED
  BY ZenonT(60), <1>4, <1>5, <1>6, <1>7, <1>10 DEF Next, BatchNext, GroupStep

\* The safety in BatchEnds: when the batch and the run alone are answered and no group goes on, a scenario has a
\* result exactly when its group has run it, is counted once with that result and was checked for an alert if it
\* failed; the gauges show just these counters; and the batch was answered with success exactly when all that were
\* chosen have one: a refused reset that leaves some out is told as a failure.  However the groups, the run alone and
\* k6 interleave, whatever steps fail and whichever resets are refused.
THEOREM AnswersAreAccounted == Spec => [](AllApart /\ AtRest => Accounted)
<1>1. ASSUME KpiInv, WorkInv, PhaseWork, AccountInv, Published, AllApart, AtRest PROVE Accounted
  <2>1. gauges = [kpi |-> kpi, telemetry |-> telemetry]
    BY <1>1 DEF AtRest, Published, Updating
  <2>2. Unchecked = {} /\ Counted = {} /\ CountedPassed = {}
    BY <1>1 DEF AtRest, Unchecked, Counted, CountedPassed, Updating
  <2>3. /\ Elements(batch \o single) = Elements(batch) \cup Elements(single)
        /\ Cardinality(Elements(batch) \cup Elements(single)) = Len(batch \o single)
    BY <1>1, ChosenCount DEF WorkInv
  <2>4. phase = "answered" => Elements(batch \o single) \subseteq DOMAIN results
    <3>1. SUFFICES ASSUME phase = "answered" PROVE \A g \in Groups : Waiting(g) = {}
      BY <1>1, <2>3 DEF AccountInv
    <3>2. \A g \in Groups : stage[g] = "done"
      BY <1>1, <3>1 DEF AtRest, PhaseWork
    <3> QED
      BY <1>1, <3>2 DEF WorkInv, GroupWork, Waiting
  <2>5. phase # "answered" => ~(Elements(batch \o single) \subseteq DOMAIN results)
    <3>1. SUFFICES ASSUME phase = "failed" PROVE \E g \in Groups : Waiting(g) # {}
      BY <1>1, <2>3 DEF AtRest, AccountInv
    <3>2. PICK g \in Groups : stage[g] = "stopped"
      BY <1>1, <3>1 DEF PhaseWork
    <3>3. left[g] # {}
      BY <1>1, <3>2 DEF WorkInv, GroupWork
    <3> QED
      BY <3>3 DEF Waiting
  <2>6. Cardinality({}) = 0 /\ kpi \in Counters
    BY <1>1, FS_EmptySet DEF KpiInv, RunTyped
  <2>7. IsFiniteSet(Passed) /\ IsFiniteSet(Failed) /\ Passed \cap Failed = {} /\ Passed \cup Failed = DOMAIN results
    BY <1>1, FS_Subset DEF AccountInv, Passed, Failed
  <2>8. /\ Cardinality(DOMAIN results) = Cardinality(Passed) + Cardinality(Failed)
        /\ Cardinality(Passed) \in Nat /\ Cardinality(Failed) \in Nat
    <3>1. Cardinality(Passed) \in Nat /\ Cardinality(Failed) \in Nat
      BY <2>7, FS_CardinalityType
    <3>2. Cardinality(Passed \cup Failed) = Cardinality(Passed) + Cardinality(Failed) - Cardinality(Passed \cap Failed)
      BY <2>7, FS_Union
    <3>3. Cardinality(Passed \cap Failed) = 0
      BY <2>6, <2>7
    <3> QED
      BY <2>7, <3>1, <3>2, <3>3
  <2>9. kpi.runs = Cardinality(DOMAIN results) /\ kpi.passed = Cardinality(Passed)
    BY <1>1, <2>2, <2>6, <2>8 DEF AccountInv
  <2>10. kpi.checked + kpi.passed = kpi.runs
    BY <1>1, <2>2, <2>6 DEF KpiInv, Balanced, Counters
  <2> QED
    BY <1>1, <2>1, <2>4, <2>5, <2>6, <2>8, <2>9, <2>10 DEF Accounted, AccountInv, Counters
<1>2. Init => Published
  BY DEF Init, BatchInit, Published
<1>3. Init => (AllApart => AccountInv)
  BY AccountInit
<1>4. KpiInv /\ WorkInv /\ PhaseWork /\ Published /\ (AllApart => AccountInv) => (AllApart /\ AtRest => Accounted)
  BY <1>1
<1> QED
  BY <1>2, <1>3, <1>4, AlwaysKpiInv, AlwaysUnstarted, AlwaysWork, PublishedNext, AccountNext, PTL DEF Spec
=============================================================================
