# Formal models of the observable shop and its monitoring tools

The repository is a demo shop (`apps/backend`, NestJS on PostgreSQL) with the
machinery that watches it: alerts that become e-mails
(`apps/backend/src/notification`), a gateway that runs QA batches and chaos
scenarios (`monitoring/demo/server.js`), and a k6 load test
(`monitoring/scenario-runner`). This directory holds TLA+ models of the parts
that keep state and have to keep it right while other things happen at the same
time, TLC configurations that check them on small instances, and proofs of the
most important facts for instances of any size.

Paths below are relative to the repository; `server.js` is
`monitoring/demo/server.js`, and files without a directory are in
`apps/backend/src`.

## 1. The system

| Part | State | Operations | Interacts with | Module |
|---|---|---|---|---|
| Customer lock (`application/customer-lock.service.ts`) | an open transaction per request, the connections of the pool | `runWithCustomerLock` | every use case of cart, order and payment runs inside it | `Shop`, `ShopTurns` |
| Cart (`cart/`) | `carts`, `cart_items`, `cart_item_stocks` | `getCart`, `addItem`, `updateItem`, `deleteItem` | reads the catalogue; "active" depends on `order_items` | `Shop`, `ShopTurns`, `ShopLedger` |
| Order (`order/`) | `orders`, `order_items` | `createOrder`, `getOrder` | consumes a cart; reads stock and prices | `Shop`, `ShopTurns`, `ShopLedger` |
| Payment (`payment/`) | `payment_attempts`, `order_payments` | `createAttempt`, `listAttempts` | an order; clients retry with a request key | `Shop`, `ShopTurns`, `ShopLedger` |
| Catalogue, search, recommendations (`product-read-model/`, `catalog/`, `search/`, `recommendation/`) | none of their own | four kinds of listing, paged | the sales and stocks of the database | `Catalogue` |
| Seed and seed reset (`apps/backend/prisma/`, `contract/contract.controller.ts`) | all tables | empty eighteen tables, fill fourteen | called by every runner, beside requests of buyers | `SeedReset` |
| Webhook and queue (`notification/alertmanager-*`) | a chain of promises and a counter, in memory | `receive`, `enqueue`, `process` | Alertmanager, the notifier | `Notifier` |
| E-mail notifier (`notification/email-*`, `incident-*`, `local-llm-*`) | `email_delivery_records` | `notifyIncident` | Prometheus, Loki, an LLM, the mail server, the database | `Notifier` |
| SMTP transport (`notification/smtp-email.transport.ts`) | one connection per mail | `send` | a mail server | `Notifier` |
| Chaos runner (`server.js` 1015-1217, 1898-2587, 3400-3540) | a map of runs, a queue, the active run | enqueue, batch, cancel, global recovery, `runChaos` | docker, child processes, Prometheus, HTTP | `ChaosRunner` |
| QA scenario batches and KPIs (`server.js` 143-970, 1545-1883, 2589-2790) | results, KPI counters, gauges | run one scenario, run a batch | the backend, Prometheus, Loki, Tempo | `Storefront`, `QaScenarios`, `QaBatch` |
| k6 test (`monitoring/scenario-runner`) | what each virtual user remembers | setup, iterations, threshold | the backend | `K6Pack` |
| Fault injection (`http/`, headers of the scenarios) | two deadlines | delay or fail the request that asks for it | the scenarios that ask for it | `Storefront`, in part |
| Scenario console (`demo/public/qa-scenarios`) | the last answer it was given, in the browser | post, poll, draw | the gateway | none |
| HTTP layer, metrics, logs, traces, stack configuration | nothing a decision of the program reads | | | none |

What is hard here, and what has to be true:

- **Shop.** Requests of one buyer race, clients retry, connections die between
  two statements and run out. The code is written for use cases that are
  transactions under a lock of their buyer: one active cart per buyer; a cart
  is ordered whole and once; an order keeps saying what was bought; it is paid
  exactly when one attempt succeeded. But every statement commits by itself and
  the lock ends with the statement that takes it (finding 1). So there are two
  questions. What holds all the same: what was answered about a payment is in the
  tables, nobody pays twice, an answered order is whole, no buyer reaches the rows of
  another, every request ends. And for whom the rest holds: for a buyer who sends
  one request at a time.
- **Listings.** The SQL statements have no `ORDER BY`; each page is a statement
  of its own, and the sort in JavaScript is all that keeps pages from
  overlapping. Products are put together from rows of several snapshots and
  contents.
- **Seed reset.** A script of single statements beside live requests, killed by
  a time limit, started twice. A reset that nothing disturbed must succeed
  whatever the last one left.
- **Notifications.** The queue is bounded and in memory, the incidents are
  handled strictly one after the other, each through five awaits of which any
  may fail. The counter has to match the backlog; a mail that is recorded as
  sent is not sent again; the records tell the truth; one bad incident must not
  stop those behind it.
- **Chaos runner.** Handlers and `runChaos` interleave at every await, and a
  cancelled run is still inside its step when the next one starts. One run at a
  time; a run is finished once, by the first who finishes it; nothing stays in
  the queue of an idle runner; no container stays stopped in silence.
- **Scenario runners.** The groups of a batch run side by side on one shop with
  two seeded buyers, and one of the groups resets that shop again and again;
  the counters of the KPIs are updated from await to await; the virtual users
  of k6 share the same two buyers. A green result has to mean something, and a
  red one should not come from the runner itself.

The full list, with the line where each thing bites and the properties aimed
at it, is `hazards` in `PROJECT.json`.

## 2. The modules

| Module | What it is |
|---|---|
| `ShopLedger` | what the shop promises: every use case of cart, order and payment is one step on six tables |
| `Shop` | the code: every SQL statement is a step that commits by itself, with retries, deaths and a pool of connections |
| `ShopTurns` | `Shop` for buyers who send one request at a time; `Ledger` is its refinement mapping to `ShopLedger` |
| `Catalogue` | the listings: the statement as a join, the mapper, the comparisons, the pages |
| `SeedReset` | the reset script, statement by statement, on the fixtures and their foreign keys |
| `Notifier` | queue, notifier and SMTP dialogue, await by await |
| `ChaosRunner` | the chaos runner, await by await |
| `Storefront` | what the backend answers the scenario runners, one request at a time |
| `QaScenarios` | the twenty-six scenario templates of the web |
| `QaBatch` | a batch of them, its groups, resets and KPIs, and a scenario run alone beside it |
| `K6Pack` | the k6 test: packs, handlers, setup, virtual users, threshold |
| `ScenarioRunners` | `QaBatch` and `K6Pack` on one `Storefront` |
| `ShopLedgerProofs`, `ShopProofs`, `CatalogueProofs`, `SeedResetProofs`, `NotifierProofs`, `ChaosRunnerProofs`, `ScenarioRunnersProofs` | the theorems of section 4 |
| `FoldLemmas` | what they need to know of the folds of the community modules |
| `MCShopLedger`, `MCShop`, `MCShopTurns`, `MCCatalogue`, `MCSeedReset`, `MCNotifier`, `MCChaosRunner`, `MCScenarioRunners` | the small instances TLC checks |

Operators introduced by "A fault:" in a comment are not part of a
specification. Each is what a plausible mistake would make of the definition
after it; section 3 says how they are used.

### ShopLedger
`carts`, `lines`, `orders`, `items`, `attempts`, `paid` are the tables reduced
to the columns a decision reads. `lines` is `cart_items` joined with
`cart_item_stocks`, which the code always writes together. `IsActive` is
`ACTIVE_CART_WHERE_SQL`: no line of the cart is in an order, deleted or not. The
steps are `GetCart` (which may open a cart), `AddNewLine`, `SetQuantity` (an add
to an existing line, or an update), `DeleteItem`, `CreateOrder`,
`CreateAttempt`. Refused requests change nothing and are stutters.

### Shop
`db` holds the rows of the tables, `pc[r]` the statement the request `r` is at or
the reply it ended with, `body[r]` what it was sent, `loc[r]` what it remembers
between statements. `Begin` is the request reaching the service, then one action
per statement: `OpenTransaction` (the body is chosen there), `Lock`, those of the
use case, `Commit`.

`CustomerLockService` sends every statement, the lock's too, with
`entityManager.getConnection().execute(sql, params, method)`: no transaction
context. The release of the library named in `package-lock.json` (MikroORM 6.6)
runs such a call on a connection of the pool, where it commits by itself. That is
what the module models: `Write` changes `db` at once, `Lock` grants the lock and
releases it in the same step, `Leave` (a rejection, an error) undoes nothing. The
library is not part of the repository; the operators for it are marked external in
the map.

The transaction meanwhile holds a connection of its own (`Holding`), and each
statement needs one more of the `pool` connections that the rest of the service
leaves to these requests. `TimeOut` is knex giving up waiting for one
(`acquireConnectionTimeout`); it can only happen where none is free, which is all
that is said of its duration. `Abort` is a connection or process that dies
at any statement; `Commit` may lose its answer (`"lost"`).

What a request reads of the catalogue is any stock level of `StockLevel`, or
nothing; prices are fixed per variant. Items of an order are inserted in any
order. Replies are reduced to their kind. A request makes at most one row per
table (of its own id), except for the items of its order.

### ShopTurns
The same actions under two assumptions about the world outside the service:
`OneAtATime`, a buyer's next transaction is opened when the last one has ended,
and `HalvesGoOn`, a request does not die between the inserts of an order or between
an attempt and its payment (elsewhere it may). Requests of different buyers overlap
as they like. Under them the services do what the lock was meant for: `Ledger` maps
the tables to those of `ShopLedger`, hiding an order until its last item is in and
a successful attempt until its payment is, and `UndisturbedUseCases` says that every
statement then is one use case or changes nothing. Nothing in the repository makes a
client take turns; the scenario runners and the tests do.

### Catalogue
`db` is one of `Catalogues` and never changes; `Rows` is
`PRODUCT_READ_SELECT_SQL` (active sales, latest snapshot, canonical content),
`Products` the mapper that groups the rows, `CatalogBefore`, `SearchBefore` and
`RecommendedBefore` the comparisons. A statement returns its rows in any order
and JavaScript's sort is stable, so an answer is any order of the products that
its comparison allows. A client asks for the pages of a listing one after the
other, each an answer with an order of its own. Titles, prices and times are
numbers, because only their order is looked at; a term is the sets of titles
that start with it and contain it. `CatalogOrders`, `SearchOrders` and
`OtherOrders` are those sets of orders, one for each comparison, and `AnswerPage`
cuts a page out of one of them. `CataloguesAreKeyed` says the tables are finite and have the
primary keys of the migration; that a stock belongs to the snapshot of its unit
is built into its row.

### SeedReset
A row is its id and the rows its foreign keys name. `Fixtures` are those of
`prisma/factories.js`, `Deletes` and `Creates` the statements of
`prisma/seed.js` in their order, `MayEmpty`, `Emptied` and `MayInsert` the
foreign and primary keys of the migration. `Start`, `DeleteMany`, `CreateMany`,
`Fail` and `Kill` are a call of the endpoint; a request of a buyer is one step
(`Request`), because `Shop` looks inside. `alone[r]` is bookkeeping: nothing but
`r` has touched the database since `r` began.

### Notifier
`tasks` is the chain of promises: an incident, the await it is at, how far the
SMTP dialogue got, and the status its record will have. `pending`, `records`
(counted by alert and status) and `mailed` (what the server really took) are the
rest. A member of `Alert` stands for a dedup key, fingerprint and window
together; `Worthy` are the ones the policy mails at once. Evidence and LLM are
one step that may lower the severity. The mail server answers, refuses, breaks
off with or without having taken the message, or (`ServerMayStall`) goes silent.

### ChaosRunner
A run object has the fields its handlers read (`status`, `finished`,
`aborted`, `children`), plus where its `runChaos` is (`at`, `step`). A scenario
is the sequence of kinds of its steps; see the head of the module. `Strike` is
the moment a docker command takes effect inside its step. `Enqueue` also forgets
old finished runs, any subset of them, as the retention time allows. The filter
with which the recovery forgets the queued runs is a fold that takes them out of the
queue one after the other. `CapsBreakNothing`: the only scenario whose steps may
end it early (`blockOnTimeout`, `server.js` 1088-1089) loads the memory and
stops nothing.
`recoverChaosTargets` is one step for two targets, the container with its disk and
the delay on the network (`netem`); each may fail. Of the container the failure is
recorded (`recoveryFailed`); a failed clean-up of the network is recorded as done,
as in `server.js` 2472-2474 (`Reported`). The `catch` of `runChaos` is not
modelled because neither `executeChaosStep` nor `recoverChaosTargets` throws. Nor is
that a stopped container loses the delay with its network namespace. A
docker command that takes effect after its client timed out is not modelled
either. Who cancels: at most `MaxCancels` runs, each once, and one global
recovery in a behaviour.

### Storefront, QaScenarios, QaBatch, K6Pack, ScenarioRunners
`Storefront` is the shop one request at a time: `shop` has the active cart, its
lines and the orders of the two seeded buyers, and operators say what each
endpoint answers and leaves behind. Requests that only read answer what
`Catalogue` gives on the seeded rows. A step of a scenario is a record: what it
calls and for whom, its `row` (none, one given by its seeded number, or the one an
earlier answer names), the value it sends, what it asserts. `QaScenarios`
translates `SCENARIO_TEMPLATES` one by one, `K6Pack` the handlers of the k6 test.

`QaBatch` runs the groups of `executeScenarioBatch` side by side: each group has
a `stage` (wipe and fill for the buyer group, the steps, then the awaits of
`updateMonitoringKpis`), the places of its unfinished scenarios in `left`, and
`Publish` ends a scenario. `single` is a scenario
that somebody runs alone meanwhile, without a reset. A reset is two steps here,
and either may be refused with some of its rows gone or filled (`Unfinished`).
`resetBackendSeedForScenarioCycle` throws then. Before the groups
(`RefuseReset`) none of them starts; before a buyer scenario (`RefuseAgain`) the
group ends there, `stage` "stopped", with its scenarios left neither run nor
counted, while the other groups go on. In both cases the batch is answered 500,
`phase` "failed"; "answered" is 200.
`K6Pack` has the setup (a reset whose failure, `RefuseSetup`, the test ignores),
and per virtual user the scenario it is at, `(vu + iter) % n`; `BuyerOf` is which
buyer a virtual user acts as. `ScenarioRunners` puts both on one `shop`; neither
knows of the other. `MayRefuse` is when a reset may be refused: whenever somebody
else is using the shop, which is more often than the rows of `SeedReset` would
have it. Behaviours with one batch at a time are modelled, and requests that are
answered (the gateway's own time limits on them are not).

## 3. What TLC checks

| Run | Question | Instance | Result |
|---|---|---|---|
| `ledger` | do the single-step use cases keep the promises; is `Consistent` really an invariant | 2 buyers, 2 variants, 2 keys, 3 new ids, limit 2, seeded cart and order | holds, 29 thousand states |
| `shop` | what can requests that race rely on, statement by statement, as the code runs them; does every request end | any two requests of either of 2 buyers, stock 0 or 3, limit 2, 2 or 3 connections | holds, 132 thousand states |
| `shop_turns` | do the statements implement the ledger, and meet no constraint, for buyers who send one request at a time | three requests, 2 buyers, stock 0 or 3, limit 2 | holds, 459 thousand states |
| `shop_failed_checkout` | does a failed checkout leave no order, as the tests say | any two requests, 3 connections | violated |
| `notifier` | counter, dedup and records through failures, silence, crash; is every incident over unless the server goes silent | 3 incidents, 2 alerts, queue of 2, payloads of 1 or 2, 2 recipients, login, 1 crash | holds, 645 thousand states |
| `notifier_stall` | an SMTP failure does not stop the pipeline, as the policy says | the server may go silent | violated |
| `chaos` | exclusion, queue, finality, resources | 3 runs of 2 scenarios, 2 cancels, recovery | holds, 2.1 million states |
| `chaos_live` | does every accepted run finish; is a container left stopped only after a cancel or a reported failure | 2 runs of 3 scenarios (stop a container, delay its network, load the memory up to a cap), 2 cancels, recovery | holds, 649 thousand states |
| `seed_reset` | is a reset that nothing disturbed never refused, and does it restore the seed | 2 callers over and over, 3 products, 1 new id for the buyers, kills | holds, 989 thousand states |
| `seed_reset_twice` | does the database satisfy the assertion on the fixtures when a reset has answered 200 and none runs | the same, no requests of buyers and no kills needed | violated |
| `catalogue` | pages partition a search, listings are sorted, a variant is shown once, recommendations repeat | every catalogue of 3 sales, older snapshot, second content, equal titles, prices and times | holds, 248 thousand states |
| `scenarios` | are batches and packs green that should be; do the KPIs agree with what happened; does a batch end, with a reset refused or not | every order of up to three buyer scenarios, twelve other batches, the packs of k6 with as many virtual users as they bear (four for `contract` and `validation`), a batch beside a scenario run alone or beside k6 | holds, 295 thousand states |

Every property of a passing run has a mutant in `PROJECT.json`: a plausible
mistake in the code, written as a fault operator beside the definition it
replaces, with which TLC finds the property violated.

**What the properties say.**
- `AckedAttemptStored`, `PaymentBacked`: what a client was told about a payment is
  in the table of attempts, and no payment is without its attempt, whatever raced
  and died. They need nothing but constraints.
- `OneCreatedSuccess`: of all the attempts to pay one order, under any keys, one
  at most is answered 201 for a success, and then the order has its payment row,
  although `has_payment` was read two statements before.
- `AnsweredOrderIsWhole`: a checkout that was answered has its order, with items, and
  the order costs what its items say, whatever was done to the cart between its
  statements. (Of a line whose stock row a racing request has deleted nobody can say
  what it cost.)
- `BuyersApart`: rows of one buyer are changed by requests of that buyer only,
  though most statements write by an id that was read some statements ago.
- `EveryRequestEnds`: a request that entered is answered, also when the requests
  that are open hold all connections; it is knex's giving up (`TimeOut`) that ends
  this deadlock, and without it (its mutant) they wait for ever.
- `UndisturbedUseCases`, `UndisturbedNeverFail`: for a buyer who sends one request at
  a time, none of which dies half way through an order or a payment, every statement
  is one use case of `ShopLedger` or a stutter, so the promises of the ledger hold,
  and no statement meets a constraint. That is the
  part of the design that survives finding 1; it says nothing of a client that does
  otherwise.
- `AloneIsNeverRefused`, `AloneRestores`: the two tables lists of `seed.js` are
  in an order that the foreign keys allow *whatever is in the tables*, half a
  reset and orders of buyers included, and they empty everything that the
  fixtures do not bring back.
- `SearchPagesPartition`: the pages of a search, fetched one by one with a
  statement each, together are the result, every product once. It holds because
  the search compares by id in the end. The list by newest does not, so for it
  only `ListingsInOrder` is checked.
- `SecondMailNeedsFailure`, `NoMailAfterSent`, `ProcessedLeavesRecord`: the dedup
  by lookup is right although minutes pass between lookup and mail, and it fails
  only when a failure was recorded or the process died.
- `QueueIsWaiting`: whoever is in the queue of the chaos runner is a run that
  exists and waits, and it waits for a run that is active.
- `BrokenOnlyByCancel` is about the container and its disk. Of the delay on the
  network nothing of the kind is true: its clean-up may fail and be reported done.
- `BatchesGreen`, `PackPasses`: the runner does not make a scenario fail by
  what it does to the shop itself. Their hypotheses are the conditions under
  which that is true, found by trying to do without them (below). `PackPasses` is
  for as many virtual users as the scenarios of the test bear (`Peaceable`): any
  number if they only look, two for `smoke`, where each buys as a buyer of its own,
  else one.
- `KpisAgree`, `BatchEnds`: with several groups between the awaits of
  `updateMonitoringKpis`, the ratios stay ratios and the last values published
  are the final ones. A batch ends, and is answered with success exactly when all
  its scenarios have a result; a refused reset leaves the rest of its group out of
  the results and out of the counters alike.

**Why the bounds are enough.** The races of the shop are between two requests
that touch the same cart, order or key, and the seed has a cart and an order to
race for at once. Two connections are the fewest with which a request can end, and
two requests then block each other; with three one of them always goes on. Where
requests take turns, three let one build on what two others left. Limit 2 has
quantities below, at and above it; stock 0 and 3 is nothing and more than the
limit. In the ledger three new ids allow a
cart, a line and an order in one behaviour, beside the seeded ones. The notifier
needs two incidents of one alert for dedup and a third behind them for the
chain; payloads of two against a queue of two reach the limit in the middle of a
payload. The chaos runner needs a run that is cancelled inside its step, the one
that overtakes it, and one still in the queue. Two resets are enough to overlap;
the three seeded carts need three of the six products, and with one id a buyer
has a row in every table that requests write. Three products make two pages of
two; every tie the comparisons know occurs among them. In a batch at most the
groups that write interact: the buyers and three faults; a pack is run through
completely at least once. Four virtual users, the default of the CLI, put two on
each buyer; the packs that cannot bear that are run with as many as they can.
Symmetry is used for interchangeable ids, requests, runs and callers, and only in
runs without liveness.

**Fairness.** `Shop`: weak fairness of every statement of a request that was
sent, and of `TimeOut` where there is no connection for it. Node resumes an await
that is answered, PostgreSQL answers, the lock is free again when the statement that
takes it is over, and knex gives up after `acquireConnectionTimeout`.
`Notifier`: weak fairness of each incident's step: the event loop runs what is
ready, and database, LLM and connect have timeouts; the silence of a
mail server is a state without a step and so not excluded by it. `ChaosRunner`:
weak fairness of `runChaos` only: everything it awaits has a timeout (that of
`fetch` itself, five minutes, where the code gives none). `ScenarioRunners`: weak
fairness of the whole next step: everything is finite, so something happens
until nothing can. No request is ever assumed to be sent, no handler to be
called, no command to succeed. Deadlock is not checked because every one of
these systems may come to rest.

**The disagreements** (`findings` in `PROJECT.json`).
1. A checkout that fails on the database's own constraint leaves an order
   without items, where the tests of the order say it "rolls back": the
   statements are not in the transaction (`shop_failed_checkout`).
2. A mail server that goes silent stops all notifications until the process is
   restarted, where the policy says an SMTP failure does not spread
   (`notifier_stall`).
3. Of two resets that overlap one answers 200, and the other takes rows of its
   fixtures away before it is refused, which the assertion on the seeded
   database excludes (`seed_reset_twice`).

**Limits of what holds.** No document promises otherwise, but a reader of the
properties should know where they end:
- The promises of `ShopLedger` are kept for buyers who send one request at a time
  (`shop_turns`). For others, with statements that commit alone, these fail:
  two first requests of a buyer make two active carts; an `addItem` that races a
  checkout leaves a line in a cart that is ordered already; an `updateItem` that races one
  changes a line that is ordered, or a `deleteItem` removes its stock row and is then
  stopped by the item; of two checkouts, or two payments under different keys, the
  second meets a unique key and is answered 500 (the checkout leaving an order without
  items, finding 1). A paid order may store another attempt, because `has_payment` was
  read before. These are what the lock would have prevented; the
  properties of `shop` are what is left.
- A request that dies between the attempt and its payment leaves an order with a
  succeeded attempt and no payment, and the client's retry is answered 200, a
  success, for an order that is not paid. It is so for a single client too.
- A clean-up of the network delay that fails is reported as done (`server.js`
  2472-2474): a chaos run passes and the backend may stay slow. `BrokenOnlyByCancel`
  is about the containers.
- `NoLoadAfterFinish` is about the processes the runner owns (`children`). What
  `sleep-load` has started in docker or psql may go on for up to thirty seconds
  after its process was told to end.
- A report the server has confirmed is recorded as failed if `QUIT` goes wrong,
  and is mailed again by the next webhook. That is the failure
  `SecondMailNeedsFailure` speaks of.
- A request of a buyer between the statements of a reset may leave that buyer
  with two active carts; `AloneRestores` says the next undisturbed reset mends it.
- Products with one `created_at` have no order in the list by newest: from one
  page to the next they may change places.
- In a batch, `fault-order-delay` and `fault-payment-delay` share the cart of
  buyer two, and the second checkout is answered 409; a buyer group resets the
  shop under the other groups, which then find an empty catalogue. `BatchesGreen`
  excludes both.
- The virtual users of k6 share two buyers. From three on (the default is four)
  two of them may check out one cart, and the pack `smoke` fails. `PackPasses` is
  checked with four for `contract` and `validation`, which only look, with two for
  `smoke`, where they stay out of each other's way, and with one for `buyer`, `fault` and
  `all`.
- A batch whose reset is refused is answered 500 while its other groups go on, and what
  they count stays counted.
- A long test of `fault-cart-delay` alone adds one piece per iteration and is
  refused at the twenty-first. `buyer-cart-validation-failure` fails in the pack
  `all`, where a checkout has used the seeded cart up by then; one in thirty is
  under the threshold of 5 %. With an even number of scenarios and virtual users
  in lockstep, half of the scenarios are never selected.

## 4. What is proved

`tlapm` checks these for every value of the constants that satisfies the named
assumptions (sets of any size; TLC evaluates the assumptions in the runs).

**ShopLedgerProofs.** `Consistent` is inductive (`AlwaysConsistent`), and
`TypeOK`, `OneActiveCart`, `CartOrderedWhole`, `ItemsMatchLines`,
`PaidIffSucceeded` and the action property `OrderedLinesFrozen` follow. None of
the four promises is inductive alone. That a cart is ordered whole needs that
only the active cart gets lines, hence that there is one; that an item matches
its line needs primary keys (else "the" line is ambiguous); that a new cart
does not disturb the others needs foreign keys (no line may already point to
its id). `Consistent` is the conjunction of exactly these. The induction step
has one lemma per use case. Assumed: `MaxQuantityIsNatural`, and of the seed
that it is typed, has its keys and keeps the promises (`SeedIsTyped`,
`SeedHasKeys`, `SeedIsConsistent`). The seeded order that has a succeeded attempt
and no payment row is why `PaidIffSucceeded` speaks of the other orders.

**ShopProofs.** What the program guarantees as it runs, each statement committing by
itself: for any requests, bodies, buyers, catalogue, pool and seed, and for every way
the statements interleave, fail or die. The sections follow the invariants, each of
which is inductive together with those before it.
- *Types* (`TypedInv`). It adds to `TypeOK` which body and which local variables a
  request at each statement has, and that tables are finite (or the price of an
  order, a sum, would be no number). `ShopTyped` follows.
- *Promises* (`PromiseInv`). `AttemptsAreStoredAsTold`, `PaymentsHaveTheirAttempt` and
  `CreatedSuccessesAreOne` need the unique keys, the `ON CONFLICT` clause and that rows
  of attempts and payments are never changed or removed (`Grows`), and no lock.
- *Names and owners* (`NamedInv`, `OwnInv`). A row that is not seeded carries the name
  of the request that inserted it, and that request is past that statement; so
  whose a row is never changes. What a request at a statement relies on (`Owns`) is its
  buyer's: the cart it found, the line it will write, the order it will pay. Other
  requests may have emptied or removed it meanwhile, but not given it away.
  `BuyersStayApart` follows, although the writing statements do not ask for the buyer.
- *Whole orders* (`WholeInv`). The checkout's rows are what it read (`Known`); the order
  and items inserted so far are as those rows say (`OrderedAs`), and items are never
  changed, nor can a line that is sold be removed (`SoldKept`). `AnsweredOrdersAreWhole`
  follows: the other requests may change the cart, and the order is still what was read.
- *Progress*: `EveryStepGoesOn`, below.

Assumed, and evaluated by TLC: bodies of the shape the controllers let through
(`BodiesAreValid`, `NoneIsNoBody`), a limit, prices, stocks and pools that are naturals
(`MaxQuantityIsNatural`, `PricesAreNatural`, `StockLevelsAreNatural`,
`ConnectionsAreCounted`), requests whose ids the seed does not use (`RequestsAreNew`:
the code draws random UUIDs), and a seed that is typed, finite, named and satisfies the
constraints of the migration (`SeedIsTyped`, `SeedIsFinite`, `SeedIsNamed`,
`SeedKeepsConstraints`), as the fixtures of `prisma/factories.js` do.

**FoldLemmas.** `MapThenFoldSet` is defined through a recursive function on sets.
`FoldExists` shows that this function exists on a finite set. The library's
induction theorems take a predicate as parameter, so the induction here runs
through a set of numbers (`SetInduction`) or a set of subsets (`FoldInduction`).
`ShopProofs` uses it for the price of an order, `ChaosRunnerProofs` for the
queue, `CatalogueProofs` for its inductions over sizes. `LeastNumber`
(a set of numbers has a least) is what `CatalogueProofs` and `NotifierProofs` share.

**CatalogueProofs.** The four properties of the `catalogue` run, for any catalogue,
terms, limits and number of pages. First, orders of a finite set: there is one
(`OrderExists`), under a comparison that decides between any two elements there is
only one (`OneOrder`), and any two orders by one number agree in that number
place by place (`SameWeights`, by the pigeonhole principle). Then rows: the latest
snapshot of a sale and the canonical content of a snapshot are unique, so a variant
identifies its row, and the products are exactly the sales that `IsShown` finds in the
tables. The invariant `CatInv` says that what has been answered are the first
pages of the listing, each cut out of some order its comparison allows. For the
search all these orders are one, so the pages put together are that order
(`SearchIsPartitioned`). For a list by price they may differ from page to page, but
not in the price at any place (`ListingsAreInOrder`).

**SeedResetProofs.** `Emptying` and `Filling` are the places of a table in the two
lists of `seed.js`; a row names only rows of tables that are emptied later and
filled earlier than its own. `ResetInv` says that every row has only the foreign
keys of its table, and that a reset which nothing has overlapped has emptied, then
filled, exactly the tables up to its statement (`Swept`). `NeverRefusedAlone` and
`RestoredAlone` follow, for any number of callers, ids and products. TLC checked
the invariant on the instance of `seed_reset` first. That all eighteen tables are
in the list of deletes is part of the argument: one that was not would keep its rows.

**NotifierProofs.** All safety properties of the `notifier` run (`AlwaysTyped`,
`PendingIsTheBacklog`, `NoSecondMailWithoutFailure`, `RecordsTellTheTruth`,
`NeverMailedAfterSent`), for any alerts, queue size, recipients, payloads and
crashes. The inductive invariant `IInv` has, beside types and the counter, three
parts. `OneAtATime`: of two incidents the later is not under way before the
earlier is over, which is what the chain of promises is for. `AllReady`: what an
incident learned at an earlier await still holds, in particular that there is no
sent row for its alert between lookup and insert; it can hold only because
nobody else is under way. `Books`: the mails of an alert are covered by its rows,
by incidents that failed or were lost, and by at most one that may have mailed
and has not said so. `MoveKeeps` reduces a step of an incident to its own books,
and then there is a lemma per await; `DialogueFacts` says the message is the last
word but one of the SMTP dialogue, with or without login and for any number of
recipients, hence taken at most once. Assumed: `QueueMaxSizeIsNatural`,
`RecipientsIsNatural`.

**ChaosRunnerProofs.** First the runs alone: `RunsExclude` (at most one run is
running, the active one), `FinishedIsQuiet` (a finished run has no processes) and
`FirstFinishWins` (the first to finish a run decides), for any number of runs and
cancels and any scenarios. The invariant `RunsInv` adds to them what they rest on:
a run that is finished while its loop is still inside a step has been aborted, so
the loop stops before it spawns anything; a handler past its `await` has aborted
the run it works on; an abort is never taken back. The queue plays no part in
this, because `startNextChaosRun` looks at the Map and at the status again.

Then the queue and the targets, with `RunnerInv`: the queue names every queued run
of the Map, each once (`Waiting`); while it names one, another is running (`Serves`);
loops and handlers are only at steps that their run has (`Busy`, `Handling`); and
as long as no run was aborted and no recovery has reported a failure of the
containers, one that is stopped or full will be recovered by the active run
(`TargetInv`). Nothing is claimed of the network delay, whose failures the code does not
report. `RunnerTyped`, `QueueIsServed` and
`NothingStaysBroken` follow. Assumed: scenarios are non-empty sequences of kinds,
`None` is not a run, and `CapsBreakNothing`; without the last, a run that ends early
would leave its targets as they are.

**ScenarioRunnersProofs.** `KpisAlwaysAgree`, for any batch beside any scenario
run alone and any k6 test. `updateMonitoringKpis` counts one scenario under
several headings with an await between any two, so between awaits the counters do
not simply agree. `KpiInv` has four sets of groups that have raised one counter and
not yet the next (`Probing`, `Unchecked`, `Unalarmed`, `Actionable`); their
cardinalities balance the counters. `GaugesAreCurrent`, a part of `BatchEnds`:
when everything is answered the gauges show the counters as they are, because
whoever raised a counter last has still to publish. Assumed: `StartsAreKnown`, the
ids of a batch are templates and all different (`server.js` 3333-3350 refuses
others and drops repetitions).

`BatchesAlwaysGreen` and `PacksAlwaysPass` are about all twenty-six templates and
the handlers of k6, on the shop as earlier scenarios have left it, so the invariant
has to say what a half-finished scenario relies on. A **cut** is such a statement
about one buyer, between two steps: the cart is one a purchase can start on
(`Free`: empty, or with a notebook below the limit for buyer one), it has the seeded
line (`Seeded1`), an answer has named its only line (`Filled`), or an order of some
state (`Ordered`). There is one lemma per request (`AddLeads`, `OrderLeads`,
`PayLeads` and so on): sent at one cut the step passes, the next cut holds, the shop
stays `Sound`, and no other buyer notices (`Leads`). A `Course` of cuts goes through a
whole scenario, and most end where they began (`Returns`). Steps that pass on any
sound shop and change nothing (`Quiet`) need no cut: eighteen of the templates are
made of nothing else.

- For a batch, `BatchInv` says that no scenario has failed and that the current one
  of each group is quiet or at a cut of its course. It is inductive because a batch of
  buyers is one group, whose scenarios start on the seed (`SeededSound`), and in a
  batch without buyers all but at most one fault are quiet (`BatchesPeaceful`, where
  `IsReaders` is used). The theorem holds for a batch of any length.
- For k6 no reset comes between two scenarios and virtual users share the shop.
  `K6With` gives every buyer an *owner*, the virtual user that may change its cart, and
  a *home*, a cut of the seeded shop; every buyer is at home or being returned
  there by its owner (`BuyerOk`), and every iteration relies on a buyer of its own or on
  one nobody owns (`VuOk`). A test has owners and homes when it is `Peaceable`
  (`TestsPlanned`): one virtual user and scenarios that return; two and
  `business-success-funnel`, a buyer each; or any number that only look. Then no
  scenario fails at all, in any order and for any number of iterations.
  `PacksArePeaceable`, an assumption that TLC evaluates in `MCScenarioRunners`, says that
  `smoke`, `contract`, `validation` (two virtual users) and `buyer` (one) are.

Both assume `MaxQuantity > 1` (`cart.types.ts` has twenty): a scenario sets a line to
two, so with a limit of one `buyer-success-funnel` would be refused.

**What the liveness rests on.** Fairness and ENABLED are beyond the prover, but an
argument that something ends has two parts that are safety: no step goes back, and
whoever waits waits for somebody who does not. These are proved, from the same
invariants.

- *Requests.* `EveryStepGoesOn`: a step moves one request, to a later statement of
  its use case (`Rank` numbers them) or to one item less to insert, whatever the others
  commit. The only wait is for a connection, which `TimeOut` ends.
- *Incidents.* `IncidentsGoForward`: from await to await and reply to reply, to an end
  that is for good. `TheHeadNeverWaits`: all incidents that are not over wait for one that
  is at work or may start.
- *Chaos runs.* `LoopsNeverGoBack`: `runChaos` enters each step of its run once.
  `WaitersHaveAWorker`: a run in the queue waits for a running one, and a running one
  has a `runChaos` at work.
- *Batches.* `BatchesGoOn`: a step takes one group on, to a later await, one request less,
  one scenario less, or to its end at a refused reset; and the batch is answered once,
  with success only when every group is done. `GroupsHaveWork`: a group that still runs
  has a scenario to run, and a request while it sends them. `AnswersAreAccounted`: when all
  has come to rest, whoever else used the shop and whichever reset was refused, the finished
  scenarios and no others have a result and are in the counters once, and the batch was
  answered with success exactly when it ran them all; if no scenario was started both
  in the batch and alone (`results` in the model has one entry per id). For this
  `AccountInv` says of every scenario that it is waiting or has its result, also in a
  group that has stopped.

**Only model-checked.** Liveness itself (`EveryRequestEnds`, `BatchEnds`, that
every incident and every chaos run ends): that the step which is possible is taken. That `ShopTurns`
implements `ShopLedger` (`UndisturbedUseCases`, `UndisturbedNeverFail`).
`PackPasses` for the packs `fault` and `all`: they are not
peaceable, since `fault-cart-delay` adds a piece every time and its line is full in the
end, and in `all` one scenario in thirty fails; TLC checks them for three rounds and two.

## 5. What is not modelled

`components` in `PROJECT.json` has a line for each part. Left out are:
- **Data with no decision behind it**: texts, MIME, evidence, prompts and LLM
  answers, replies and views of the shop beyond what a scenario asserts, metrics,
  logs, traces, durations, the shape of custom scenarios, the error envelope of the
  HTTP layer, the stack configuration.
- **The line buffer of `SmtpSession`** (chunks to lines): a pure function of the
  bytes; the dialogue is modelled reply by reply.
- **Dedup windows**: an alert stands for its bucket of time. Two alerts on either
  side of a boundary are two members of `Alert`, and both are mailed.
- **The rest of the pool**: `pool` is the connections the other endpoints leave to the use
  cases, any number of `Connections` and fixed in a behaviour.
- **Two batches at a time**, and the time limits of the gateway's own requests.
- **Fault deadlines**: the two times until which `/metrics` and `/health` fail.
  One chaos scenario sets one (`server.js` 1145), by a probe step; no program
  of the repository reads the answer again.
- **The scenario console** (`qa-scenarios.js`, in the browser): it posts to the
  gateway, polls it every five seconds and draws the answers; nothing on the server
  reads its state back. A poll answered out of order is drawn over a newer one until the
  next poll; after the last poll of a batch there is none, and the page may then show
  a finished batch as running, its buttons disabled, until it is reloaded.
- **The chaos commands of the CLI**, which post to the gateway and poll it, and
  the threshold of k6 on single checks.
