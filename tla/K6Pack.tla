------------------------------- MODULE K6Pack -------------------------------
(***************************************************************************)
(* monitoring/scenario-runner/k6/monitoring-validation.k6.js: setup resets *)
(* the seed, then every virtual user (VU) runs one iteration after the     *)
(* other until the time is up.  An iteration takes a scenario by the       *)
(* number it has in the whole test and by its VU, and sends its requests   *)
(* one after the other; the requests of different VUs interleave.  At the  *)
(* end the threshold on the share of failed scenarios decides.             *)
(*                                                                         *)
(* The time of the test is a number of iterations here, and no request     *)
(* runs out of time.  While others use the shop the reset of setup may be  *)
(* refused: its answer is not looked at.  Of an iteration the last request *)
(* and the count of the outcome are one step: nothing is awaited between   *)
(* them.                                                                   *)
(***************************************************************************)
EXTENDS QaScenarios

CONSTANT MaxVus    \* the virtual users any of the checked tests has
ASSUME MaxVusAssumption == MaxVus \in Nat \ {0}

Vu == 1..MaxVus    \* exec.vu.idInTest

VARIABLES
  test,     \* what the CLI started: [ids, vus, iterations]
  stageK6,  \* "wipe", "fill", "iterations"
  counted,  \* iterations started and finished, scenarios failed
  vu        \* VU -> its iteration: [id, sent, context, passed]

k6Vars == <<test, stageK6, counted, vu>>

-----------------------------------------------------------------------------
(* The scenario handlers. *)

\* The helpers: a request each, with the status it is checked for.
CartGet(who, expect) == Step("cart", "cart", who, NoRow, "", expect)
CartAdd(who, variant) == Step("add", "add", who, NoRow, variant, Created)
OrderCreate(who) == Step("order", "order", who, From("add", "cart"), "", Created)
Payment(id, who, outcome) == Step(id, "pay", who, From("order", "order"), outcome, Created)

\* A fault: every VU is the same buyer.
OneBuyer(v) == One

\* VUs take turns as buyer one and buyer two.
BuyerOf(v) == IF v % 2 = 0 THEN Two ELSE One
VariantOf(v) == IF v % 2 = 0 THEN "mug" ELSE "notebook"

BusinessSuccessFunnel(v) ==
    << Read("notebook", Ok), CartAdd(BuyerOf(v), VariantOf(v)), OrderCreate(BuyerOf(v)),
       Payment("pay", BuyerOf(v), "success") >>

BuyerPaymentFailure ==
    << CartAdd(Two, "mug"), OrderCreate(Two), Payment("pay", Two, "fail") >>

PaymentFailureTypes ==
    << CartAdd(Two, "mug"), OrderCreate(Two), Payment("declined", Two, "fail"),
       Payment("timeout", Two, "fail"), Payment("internal", Two, "fail") >>

Validation4xxBurst ==
    << Read("short", [status |-> 400]), Read("no_quantity", [status |-> 400]),
       Step("pay", "pay", Two, Given(2), "fail_without_code", [status |-> 400]) >>

\* It looks for the seeded line and names it by its seeded id whatever the cart has answered.
SeededLineUpdate ==
    << CartGet(One, [status |-> 200, line |-> 1]),
       Step("patch", "update", One, Given(1), 0, [status |-> 400]) >>

\* It first deletes the line it finds, if it finds one.
CleanedCheckoutConflict ==
    << CartGet(Two, [status |-> 200, owner |-> Two]),
       [Step("cleanup", "delete", Two, From("cart", "line"), "", Ok) EXCEPT !.optional = TRUE],
       Step("checkout", "order", Two, From("cart", "cart"), "", [status |-> 409]) >>

\* The others send what the web's template of the same id sends.
ContractHandlers ==
    { "health-success", "metrics-text-check", "health-metrics-parallel", "catalog-list-success", "catalog-price-sort",
      "catalog-product-not-found", "search-notebook-success", "search-zero-result", "search-validation-failure",
      "recommendation-success", "recommendation-limit-validation" }
FunnelHandlers == { "buyer-success-funnel", "buyer-failure-funnel" }
RoundtripHandlers == { "buyer-cart-add-delete-roundtrip" }
RefusedHandlers == { "buyer-payment-validation-failure", "buyer-cross-order-access-denied", "route-not-found" }
FaultHandlers ==
    { "fault-search-delay", "fault-cart-delay", "fault-order-delay", "fault-payment-delay", "fault-search-error",
      "fault-unhandled-exception" }
LabelHandlers == { "label-coverage-missing-buyer" }

Handler(id, v) ==
    CASE id = "business-success-funnel"            -> BusinessSuccessFunnel(v)
      [] id = "buyer-payment-failure"              -> BuyerPaymentFailure
      [] id = "payment-failure-types"              -> PaymentFailureTypes
      [] id = "validation-4xx-burst"               -> Validation4xxBurst
      [] id = "buyer-cart-validation-failure"      -> SeededLineUpdate
      [] id = "buyer-empty-cart-checkout-conflict" -> CleanedCheckoutConflict
      [] id \in ContractHandlers \cup FunnelHandlers \cup RoundtripHandlers \cup RefusedHandlers
                  \cup FaultHandlers \cup LabelHandlers -> Template[id]

-----------------------------------------------------------------------------
(* The scenarios the CLI knows, each with its pack, and what it selects. *)

K6Scenarios ==
    << <<"business-success-funnel", "smoke">>, <<"buyer-payment-failure", "buyer">>, <<"health-success", "smoke">>,
       <<"metrics-text-check", "smoke">>, <<"health-metrics-parallel", "contract">>,
       <<"catalog-list-success", "contract">>, <<"catalog-price-sort", "contract">>,
       <<"catalog-product-not-found", "contract">>, <<"search-notebook-success", "contract">>,
       <<"search-zero-result", "contract">>, <<"search-validation-failure", "validation">>,
       <<"recommendation-success", "contract">>, <<"recommendation-limit-validation", "validation">>,
       <<"buyer-success-funnel", "buyer">>, <<"buyer-failure-funnel", "buyer">>,
       <<"buyer-cart-validation-failure", "validation">>, <<"buyer-cart-add-delete-roundtrip", "buyer">>,
       <<"buyer-empty-cart-checkout-conflict", "validation">>, <<"buyer-payment-validation-failure", "validation">>,
       <<"buyer-cross-order-access-denied", "validation">>, <<"route-not-found", "validation">>,
       <<"fault-search-delay", "fault">>, <<"fault-cart-delay", "fault">>, <<"fault-order-delay", "fault">>,
       <<"fault-payment-delay", "fault">>, <<"fault-search-error", "fault">>,
       <<"fault-unhandled-exception", "fault">>, <<"validation-4xx-burst", "validation">>,
       <<"payment-failure-types", "buyer">>, <<"label-coverage-missing-buyer", "fault">> >>

\* selectScenariosByPack
Pack(p) ==
    LET chosen == IF p = "all" THEN K6Scenarios ELSE SelectSeq(K6Scenarios, LAMBDA s : s[2] = p)
    IN  [i \in DOMAIN chosen |-> chosen[i][1]]

-----------------------------------------------------------------------------
(* setup *)

Idle == [id |-> "", sent |-> 0, context |-> NoContext, passed |-> TRUE]

K6Init ==
    /\ stageK6 = "wipe"
    /\ counted = [started |-> 0, finished |-> 0, failed |-> 0]
    /\ vu = [v \in Vu |-> Idle]

SetupWipe ==
    /\ test.vus > 0 /\ stageK6 = "wipe"
    /\ shop' = Wiped(shop.next) /\ stageK6' = "fill"
    /\ UNCHANGED <<test, counted, vu>>

SetupFill ==
    /\ stageK6 = "fill"
    /\ shop' = Seeded(shop.next) /\ stageK6' = "iterations"
    /\ UNCHANGED <<test, counted, vu>>

\* The reset is refused, and the iterations begin on what it leaves.
RefuseSetup ==
    /\ test.vus > 0 /\ stageK6 \in {"wipe", "fill"}
    /\ shop' \in Unfinished(shop, stageK6) /\ stageK6' = "iterations"
    /\ UNCHANGED <<test, counted, vu>>

-----------------------------------------------------------------------------
(* runSelectedScenarios *)

\* The scenario of the iteration that is started now: iterationInTest counts from 0, idInTest from 1.
Selected(v) == test.ids[((counted.started + v) % Len(test.ids)) + 1]

Begin(v) ==
    /\ stageK6 = "iterations" /\ v <= test.vus /\ vu[v] = Idle
    /\ counted.started < test.iterations
    /\ vu' = [vu EXCEPT ![v].id = Selected(v)]
    /\ counted' = [counted EXCEPT !.started = @ + 1]
    /\ UNCHANGED <<shop, test, stageK6>>

\* The next request; one whose row no answer has named is not sent, and fails the scenario unless it was optional.
Request(v) ==
    /\ vu[v] # Idle
    /\ LET steps  == Handler(vu[v].id, v)
           step   == steps[vu[v].sent + 1]
           sent   == Send(shop, step, vu[v].context)
           passed == /\ vu[v].passed
                     /\ \/ Passes(step, sent.answer)
                        \/ step.optional /\ ~IsResolved(step, vu[v].context)
       IN  /\ shop' = sent.shop
           /\ IF vu[v].sent + 1 = Len(steps)
              THEN /\ vu' = [vu EXCEPT ![v] = Idle]
                   /\ counted' = [counted EXCEPT !.finished = @ + 1, !.failed = IF passed THEN @ ELSE @ + 1]
              ELSE /\ vu' = [vu EXCEPT ![v].sent = @ + 1, ![v].context = With(@, step.id, sent.answer),
                                         ![v].passed = passed]
                   /\ UNCHANGED counted
    /\ UNCHANGED <<test, stageK6>>

K6Next == SetupWipe \/ SetupFill \/ \E v \in Vu : Begin(v) \/ Request(v)

-----------------------------------------------------------------------------
(* The end of the test. *)

IsOver == stageK6 = "iterations" /\ counted.finished = test.iterations

\* The threshold mwa_scenario_failed: rate<0.05.
ThresholdHolds == 20 * counted.failed < counted.finished
=============================================================================
