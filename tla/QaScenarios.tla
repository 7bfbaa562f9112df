----------------------------- MODULE QaScenarios -----------------------------
(***************************************************************************)
(* The templates of the scenario web (SCENARIO_TEMPLATES in                *)
(* monitoring/demo/server.js): the requests each one sends, how a later    *)
(* one names what an earlier one created, and what it asserts.             *)
(***************************************************************************)
EXTENDS Storefront

VARIABLE shop    \* the backend, which the runners share

Ok == [status |-> 200]
Created == [status |-> 201]

HealthSuccess == <<Read("health", Ok)>>
MetricsTextCheck == <<Read("metrics", Ok)>>
HealthMetricsParallel == <<Read("health", Ok), Read("metrics", Ok)>>

CatalogListSuccess == <<Read("newest", [status |-> 200, first |-> "notebook", total |-> 6])>>
CatalogPriceSort == <<Read("cheapest", [status |-> 200, first |-> "sticker"])>>
CatalogProductNotFound == <<Read("missing", [status |-> 404])>>
SearchNotebookSuccess == <<Read("notebook", [status |-> 200, first |-> "notebook"])>>
SearchZeroResult == <<Read("nothing", [status |-> 200, total |-> 0])>>
SearchValidationFailure == <<Read("short", [status |-> 400])>>
RecommendationSuccess == <<Read("recommend", Ok)>>
RecommendationLimitValidation == <<Read("too_many", [status |-> 400])>>

BuyerSuccessFunnel ==
    << Read("newest", [status |-> 200, first |-> "notebook"]),
       Read("detail", [status |-> 200, first |-> "notebook"]),
       Read("recommend", Ok),
       Step("cartAdd", "add", One, NoRow, "notebook", [status |-> 201, owner |-> One]),
       Step("cartUpdate", "update", One, From("cartAdd", "line"), 2, [status |-> 200, quantity |-> 2]),
       Step("orderCreate", "order", One, From("cartUpdate", "cart"), "", [status |-> 201, state |-> "pending_payment"]),
       Step("paymentCreate", "pay", One, From("orderCreate", "order"), "success",
            [status |-> 201, attempt |-> "succeeded"]),
       Step("orderAfter", "show", One, From("orderCreate", "order"), "", [status |-> 200, state |-> "paid"]) >>

BuyerFailureFunnel ==
    << Read("notebook", [status |-> 200, first |-> "notebook"]),
       Step("cartAdd", "add", Two, NoRow, "notebook", Created),
       Step("cartUpdate", "update", Two, From("cartAdd", "line"), 2, [status |-> 200, quantity |-> 2]),
       Step("orderCreate", "order", Two, From("cartUpdate", "cart"), "", [status |-> 201, state |-> "pending_payment"]),
       Step("paymentCreate", "pay", Two, From("orderCreate", "order"), "fail",
            [status |-> 201, attempt |-> "failed"]),
       Step("orderAfter", "show", Two, From("orderCreate", "order"), "", [status |-> 200, state |-> "payment_failed"]) >>

\* The first line of the cart is the seeded one.
BuyerCartValidationFailure ==
    << Step("cart", "cart", One, NoRow, "", [status |-> 200, line |-> 1]),
       Step("patch", "update", One, From("cart", "line"), 0, [status |-> 400]) >>

BuyerCartAddDeleteRoundtrip ==
    << Step("before", "cart", Two, NoRow, "", [status |-> 200, owner |-> Two]),
       Step("add", "add", Two, NoRow, "mug", [status |-> 201, variant |-> "mug"]),
       Step("delete", "delete", Two, From("add", "line"), "", [status |-> 200, owner |-> Two]) >>

BuyerEmptyCartCheckoutConflict ==
    << Step("cart", "cart", Two, NoRow, "", [status |-> 200, owner |-> Two]),
       Step("checkout", "order", Two, From("cart", "cart"), "", [status |-> 409]) >>

BuyerPaymentValidationFailure ==
    << Step("pay", "pay", Two, Given(2), "fail_without_code", [status |-> 400]) >>

BuyerCrossOrderAccessDenied ==
    << Step("read", "show", Two, Given(1), "", [status |-> 404]) >>

RouteNotFound == <<Read("no_route", [status |-> 404])>>

FaultSearchDelay == <<Read("notebook", Ok)>>
FaultSearchError == <<Faulty(Read("notebook", Ok))>>
FaultCartDelay == <<Step("add", "add", Two, NoRow, "mug", Created)>>

FaultOrderDelay ==
    << Step("add", "add", Two, NoRow, "mug", Created),
       Step("order", "order", Two, From("add", "cart"), "", [status |-> 201, state |-> "pending_payment"]) >>

FaultPaymentDelay ==
    << Step("add", "add", Two, NoRow, "mug", Created),
       Step("order", "order", Two, From("add", "cart"), "", Created),
       Step("pay", "pay", Two, From("order", "order"), "success",
            [status |-> 201, attempt |-> "succeeded"]) >>

FaultUnhandledException == <<Faulty(Read("notebook", Ok))>>
LabelCoverageMissingBuyer == <<Read("no_buyer", [status |-> 401])>>

BuyerTemplates ==
    { "buyer-success-funnel", "buyer-failure-funnel", "buyer-cart-validation-failure",
      "buyer-cart-add-delete-roundtrip", "buyer-empty-cart-checkout-conflict",
      "buyer-payment-validation-failure", "buyer-cross-order-access-denied" }
OtherTemplates ==
    { "health-success", "metrics-text-check", "health-metrics-parallel", "catalog-list-success",
      "catalog-price-sort", "catalog-product-not-found", "search-notebook-success", "search-zero-result",
      "search-validation-failure", "recommendation-success", "recommendation-limit-validation",
      "route-not-found", "fault-search-delay", "fault-search-error", "fault-cart-delay", "fault-order-delay",
      "fault-payment-delay", "fault-unhandled-exception", "label-coverage-missing-buyer" }

Script(id) ==
      CASE id = "health-success"                     -> HealthSuccess
        [] id = "metrics-text-check"                 -> MetricsTextCheck
        [] id = "health-metrics-parallel"            -> HealthMetricsParallel
        [] id = "catalog-list-success"               -> CatalogListSuccess
        [] id = "catalog-price-sort"                 -> CatalogPriceSort
        [] id = "catalog-product-not-found"          -> CatalogProductNotFound
        [] id = "search-notebook-success"            -> SearchNotebookSuccess
        [] id = "search-zero-result"                 -> SearchZeroResult
        [] id = "search-validation-failure"          -> SearchValidationFailure
        [] id = "recommendation-success"             -> RecommendationSuccess
        [] id = "recommendation-limit-validation"    -> RecommendationLimitValidation
        [] id = "buyer-success-funnel"               -> BuyerSuccessFunnel
        [] id = "buyer-failure-funnel"               -> BuyerFailureFunnel
        [] id = "buyer-cart-validation-failure"      -> BuyerCartValidationFailure
        [] id = "buyer-cart-add-delete-roundtrip"    -> BuyerCartAddDeleteRoundtrip
        [] id = "buyer-empty-cart-checkout-conflict" -> BuyerEmptyCartCheckoutConflict
        [] id = "buyer-payment-validation-failure"   -> BuyerPaymentValidationFailure
        [] id = "buyer-cross-order-access-denied"    -> BuyerCrossOrderAccessDenied
        [] id = "route-not-found"                    -> RouteNotFound
        [] id = "fault-search-delay"                 -> FaultSearchDelay
        [] id = "fault-search-error"                 -> FaultSearchError
        [] id = "fault-cart-delay"                   -> FaultCartDelay
        [] id = "fault-order-delay"                  -> FaultOrderDelay
        [] id = "fault-payment-delay"                -> FaultPaymentDelay
        [] id = "fault-unhandled-exception"          -> FaultUnhandledException
        [] id = "label-coverage-missing-buyer"       -> LabelCoverageMissingBuyer

Template == [id \in BuyerTemplates \cup OtherTemplates |-> Script(id)]

\* getScenarioGroup: all buyer scenarios are one group, any other scenario is alone in its own.
Group(id) == IF id \in BuyerTemplates THEN "buyer" ELSE id

IsParallel(id) == id = "health-metrics-parallel"
=============================================================================
