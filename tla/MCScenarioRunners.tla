-------------------------- MODULE MCScenarioRunners --------------------------
EXTENDS ScenarioRunners

NoTest == [ids |-> <<>>, vus |-> 0, iterations |-> 0]
BatchStart(b, s) == [batch |-> b, single |-> s, test |-> NoTest]
TestStart(ids, vus, iterations) ==
    [batch |-> <<>>, single |-> <<>>, test |-> [ids |-> ids, vus |-> vus, iterations |-> iterations]]

-----------------------------------------------------------------------------
(* Batches. *)

\* Every order of up to three buyer scenarios.
BuyerBatches == { b \in [1..3 -> BuyerTemplates] : Cardinality(Elements(b)) = 3 }
                \cup { b \in [1..2 -> BuyerTemplates] : b[1] # b[2] }

\* One of each kind of reader, some of them next to a fault that writes.
ReaderBatches ==
    { <<"catalog-list-success", "recommendation-success", w>> : w \in FaultWriters }
    \cup { <<"health-metrics-parallel", "catalog-price-sort", "catalog-product-not-found">>,
           <<"search-notebook-success", "search-zero-result", "search-validation-failure">>,
           <<"recommendation-limit-validation", "route-not-found", "fault-unhandled-exception">>,
           <<"health-success", "metrics-text-check", "fault-search-delay">>,
           <<"fault-search-error", "label-coverage-missing-buyer">> }

\* Two that spoil each other's cart.
FaultBatch == <<"fault-order-delay", "fault-payment-delay">>

-----------------------------------------------------------------------------

MCStarts ==
    { BatchStart(b, <<>>) : b \in BuyerBatches \cup ReaderBatches }
    \cup { BatchStart(FaultBatch, <<>>), BatchStart(Reverse(FaultBatch), <<"health-success">>) }
    \* with the four virtual users the CLI starts by default, two for each buyer, or as many as the pack bears
    \cup { TestStart(Pack("contract"), 4, 8), TestStart(Pack("validation"), 4, 10), TestStart(Pack("validation"), 3, 10),
           TestStart(Pack("smoke"), 2, 8), TestStart(Pack("buyer"), 1, 15), TestStart(Pack("fault"), 1, 21),
           TestStart(Pack("all"), 1, 60) }
    \* on one shop with others, so that resets may be refused
    \cup { BatchStart(<<"buyer-empty-cart-checkout-conflict", "fault-cart-delay", "buyer-cross-order-access-denied">>,
                      <<"buyer-payment-validation-failure">>),
           [TestStart(Pack("smoke"), 1, 3) EXCEPT !.batch = <<"catalog-list-success", "buyer-success-funnel">>] }

\* The probes are free where scenarios fail.
MCProbes(b) == IF b = FaultBatch THEN BOOLEAN ELSE {TRUE}

\* PackPasses covers these packs of the command line; "fault" and "all" are no such tests, and "smoke" is none with three.
ASSUME PacksArePeaceable ==
    /\ \A p \in {"contract", "validation"} : Peaceable(TestStart(Pack(p), 4, 10).test)
    /\ Peaceable(TestStart(Pack("smoke"), 2, 8).test) /\ ~Peaceable(TestStart(Pack("smoke"), 3, 8).test)
    /\ Peaceable(TestStart(Pack("buyer"), 1, 15).test)
=============================================================================
