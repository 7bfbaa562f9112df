--------------------------- MODULE ScenarioRunners ---------------------------
(***************************************************************************)
(* The two ways the repository has to exercise the shop, side by side on   *)
(* one backend: the batches of the scenario web (QaBatch) and a k6 test    *)
(* started from the command line or the web (K6Pack).  Neither knows of    *)
(* the other, and each resets the seed when it starts.                     *)
(***************************************************************************)
EXTENDS QaBatch, K6Pack

CONSTANT Starts    \* what users start: [batch, single, test]

\* Ids that no template has are refused before anything runs, and an id given twice counts once; a probe says yes or no.
ASSUME StartsAreKnown ==
    \A s \in Starts : /\ s.batch \in Seq(DOMAIN Template) /\ s.single \in Seq(DOMAIN Template)
                     /\ IsInjective(s.batch)
                     /\ Probes(s.batch) \subseteq BOOLEAN

vars == <<shop, batchVars, k6Vars>>

Init ==
    /\ shop = Seeded(10)
    /\ \E s \in Starts : batch = s.batch /\ single = s.single /\ test = s.test
    /\ BatchInit /\ K6Init

\* Group g sends requests, and so does the test: between the deletes and inserts of a reset they may leave rows that
\* stop it, or it those of another reset (SeedReset.tla).  Alone, a reset is not refused.
IsGoing(g) == (phase \in {"groups", "failed"} \/ g = "single") /\ stage[g] \notin {"done", "stopped"}
IsTesting == test.vus > 0 /\ ~IsOver
MayRefuse(g) == IsTesting \/ \E h \in Groups \ {g} : IsGoing(h)

RefuseNext == \/ MayRefuse("batch") /\ RefuseReset /\ UNCHANGED k6Vars
              \/ \E g \in Groups : MayRefuse(g) /\ RefuseAgain(g) /\ UNCHANGED k6Vars
              \/ ~AtRest /\ RefuseSetup /\ UNCHANGED batchVars

Next == \/ BatchNext /\ UNCHANGED k6Vars
        \/ K6Next /\ UNCHANGED batchVars
        \/ RefuseNext

Spec == Init /\ [][Next]_vars

\* Every fetch of the runner has a time limit or talks to a service of the same stack, and so has every request
\* of k6: each await ends.
FairSpec == Spec /\ WF_vars(Next)

-----------------------------------------------------------------------------
(* Properties. *)

FaultWriters == { "fault-cart-delay", "fault-order-delay", "fault-payment-delay" }
HasShopAlone == single = <<>> /\ test.vus = 0
IsBuyers == Elements(batch) \subseteq BuyerTemplates
IsReaders == Group("buyer-success-funnel") \notin Groups /\ Cardinality(Elements(batch) \cap FaultWriters) <= 1

\* A batch that has the shop to itself passes if all its scenarios are buyers, in whatever order they spend the seeded
\* cart and leave orders behind (the reset of executeScenarioForBatch), or if none is and at most one of its faults
\* writes, however its groups interleave (executeScenarioBatch awaits the reset before it starts them).
BatchesGreen == HasShopAlone /\ (IsBuyers \/ IsReaders) => Failed = {}

\* A batch is answered, and a scenario that is run alone is, whatever steps fail, whoever else uses or resets the shop
\* and whichever reset of the batch is refused; what it was answered with is what its groups did, even if they went on
\* after the answer, and from then on the gauges are those of the last update (executeScenarioStep catches every
\* error, a refused reset throws, and updateKpiGauges follows the last await of each scenario).
BatchEnds == <>[](AtRest /\ Accounted)

\* A pack of k6 that has the shop to itself stays below its threshold: a scenario finds what the ones before it have
\* left, no reset comes between them, and virtual users that share a buyer, as every third one does, send requests in
\* between (BuyerOf, the order of k6-scenarios.mjs).  It holds for as many virtual users as the scenarios bear: any
\* number when they only look, two when they buy as different buyers, one otherwise (Peaceable).  The CLI starts four.
PackPasses == test.vus > 0 /\ batch = <<>> /\ single = <<>> /\ IsOver => ThresholdHolds

\* Scenarios that pass on any seeded shop, whatever else goes on there, and change nothing.
QuietIds ==
    { "health-success", "metrics-text-check", "health-metrics-parallel", "catalog-list-success",
      "catalog-price-sort", "catalog-product-not-found", "search-notebook-success", "search-zero-result",
      "search-validation-failure", "recommendation-success", "recommendation-limit-validation",
      "buyer-payment-validation-failure", "buyer-cross-order-access-denied", "route-not-found",
      "fault-search-delay", "fault-search-error", "fault-unhandled-exception", "label-coverage-missing-buyer" }

\* Those of k6.
K6Quiet == QuietIds \cup {"validation-4xx-burst"}

\* Purchases, and what else returns the shop to where the next one can start.
SoloIds ==
    K6Quiet \cup
    { "business-success-funnel", "buyer-payment-failure", "payment-failure-types", "buyer-success-funnel",
      "buyer-failure-funnel", "buyer-cart-add-delete-roundtrip", "buyer-empty-cart-checkout-conflict",
      "fault-order-delay", "fault-payment-delay" }

\* Those that rely on a cart and leave it as it is.
LookingIds == K6Quiet \cup { "buyer-cart-validation-failure", "buyer-empty-cart-checkout-conflict" }

\* Tests whose scenarios do not spoil each other, in whatever order they come and however often: one virtual user,
\* two with a buyer each, or any number that look.
Peaceable(t) ==
    /\ t.ids \in Seq(Elements(t.ids)) /\ t.ids # <<>> /\ t.iterations \in Nat \ {0} /\ t.vus \in Nat
    /\ \/ t.vus = 1 /\ Elements(t.ids) \subseteq SoloIds
       \/ t.vus <= 2 /\ Elements(t.ids) \subseteq K6Quiet \cup {"business-success-funnel"}
       \/ Elements(t.ids) \subseteq LookingIds
=============================================================================
