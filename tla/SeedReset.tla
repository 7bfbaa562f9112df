------------------------------ MODULE SeedReset ------------------------------
(***************************************************************************)
(* POST /contract/qa/reset-seed: a child process runs prisma/seed.js,      *)
(* which empties eighteen tables and fills fourteen of them, one statement *)
(* after the other and outside any transaction, while the shop goes on     *)
(* serving buyers and while nothing stops a second reset from starting.    *)
(*                                                                         *)
(* A row is its id and the rows its foreign keys name; every other column  *)
(* is left out.  A request of a buyer is one step: what can happen inside  *)
(* one is the subject of Shop.tla.                                         *)
(***************************************************************************)
EXTENDS Naturals, Sequences, FiniteSets

CONSTANTS
  Reset,      \* the callers of the endpoint
  NewId,      \* the ids requests draw for their rows
  Product,    \* the PRODUCT_FIXTURES that are seeded
  MayKill     \* whether execFile's time limit may strike

VARIABLES
  db,         \* the rows of each table
  pc,         \* the statement of the script each reset is at
  status,     \* idle, running, ok (200) or failed (500)
  alone       \* whether nothing else has touched the database since it began

vars == <<db, pc, status, alone>>

ASSUME MayKillIsBoolean == MayKill \in BOOLEAN
ASSUME CartedProductsAreSeeded == {"notebook", "mug", "hoodie"} \subseteq Product

-----------------------------------------------------------------------------
(* The fixtures of prisma/factories.js. *)

Row(id, refs) == [id |-> id, refs |-> refs]

Named(prefix, p) == <<prefix, p>>

Customers == {Row(c, {}) : c \in {"demo1", "demo2", "seller"}}

Addresses == {Row(a, {}) : a \in {"demo1", "demo2"}}

Sales == {Row(p, {<<"customers", "seller">>}) : p \in Product}

Snapshots == {Row(p, {<<"sales", p>>}) : p \in Product}

Contents == {Row(p, {<<"sale_snapshots", p>>}) : p \in Product}

Tags == {Row(Named(tag, p), {<<"sale_snapshots", p>>}) : tag \in {"channel", "section"}, p \in Product}

Units == {Row(p, {<<"sale_snapshots", p>>}) : p \in Product}

Stocks == {Row(p, {<<"sale_snapshot_units", p>>}) : p \in Product}

Carts == {
  Row("active", {<<"customers", "demo1">>}),
  Row("paymentSuccess", {<<"customers", "demo1">>}),
  Row("paymentFailure", {<<"customers", "demo2">>})}

\* The product a seeded cart holds.
Holds == [active |-> "notebook", paymentSuccess |-> "mug", paymentFailure |-> "hoodie"]

CartItems == {Row(c, {<<"carts", c>>, <<"sale_snapshots", Holds[c]>>}) : c \in DOMAIN Holds}

CartItemStocks ==
  {Row(c, {<<"cart_items", c>>, <<"sale_snapshot_units", Holds[c]>>, <<"sale_snapshot_unit_stocks", Holds[c]>>}) :
     c \in DOMAIN Holds}

Orders == {
  Row("paymentSuccess", {<<"customers", "demo1">>, <<"addresses", "demo1">>}),
  Row("paymentFailure", {<<"customers", "demo2">>, <<"addresses", "demo2">>})}

OrderItems ==
  {Row(o, {<<"orders", o>>, <<"cart_items", o>>, <<"customers", "seller">>}) : o \in {"paymentSuccess", "paymentFailure"}}

PaymentAttempts ==
  {Row(o, {<<"orders", o>>}) : o \in {"paymentSuccess", "paymentFailure"}}

\* The rows a createMany of the script inserts.
Fixtures == [
  customers |-> Customers,
  addresses |-> Addresses,
  sales |-> Sales,
  sale_snapshots |-> Snapshots,
  sale_snapshot_contents |-> Contents,
  sale_snapshot_tags |-> Tags,
  sale_snapshot_units |-> Units,
  sale_snapshot_unit_options |-> {},
  sale_snapshot_unit_option_candidates |-> {},
  sale_snapshot_unit_stocks |-> Stocks,
  carts |-> Carts,
  cart_items |-> CartItems,
  cart_item_stocks |-> CartItemStocks,
  cart_item_stock_choices |-> {},
  orders |-> Orders,
  order_items |-> OrderItems,
  order_payments |-> {},
  payment_attempts |-> PaymentAttempts]

Table == DOMAIN Fixtures

-----------------------------------------------------------------------------
(* The script. *)

\* A fault: carts are emptied before the lines that name them.
DeletesParentFirst == <<
  "cart_item_stock_choices", "cart_item_stocks", "order_items", "order_payments", "payment_attempts",
  "orders", "carts", "cart_items", "sale_snapshot_unit_stocks", "sale_snapshot_unit_option_candidates",
  "sale_snapshot_unit_options", "sale_snapshot_units", "sale_snapshot_tags", "sale_snapshot_contents",
  "sale_snapshots", "sales", "addresses", "customers">>

\* resetSeedScope, the tables in the order they are emptied.
Deletes == <<
  "cart_item_stock_choices", "cart_item_stocks", "order_items", "order_payments", "payment_attempts",
  "cart_items", "orders", "carts", "sale_snapshot_unit_stocks", "sale_snapshot_unit_option_candidates",
  "sale_snapshot_unit_options", "sale_snapshot_units", "sale_snapshot_tags", "sale_snapshot_contents",
  "sale_snapshots", "sales", "addresses", "customers">>

\* A fault: the seeded attempts are not created again.
CreatesNoAttempts == <<
  "customers", "addresses", "sales", "sale_snapshots", "sale_snapshot_contents", "sale_snapshot_tags",
  "sale_snapshot_units", "sale_snapshot_unit_stocks", "carts", "cart_items", "cart_item_stocks", "orders",
  "order_items">>

\* seed, the tables in the order they are filled.
Creates == <<
  "customers", "addresses", "sales", "sale_snapshots", "sale_snapshot_contents", "sale_snapshot_tags",
  "sale_snapshot_units", "sale_snapshot_unit_stocks", "carts", "cart_items", "cart_item_stocks", "orders",
  "order_items", "payment_attempts">>

Statements == Len(Deletes) + Len(Creates)

-----------------------------------------------------------------------------
(* The constraints of the schema. *)

\* The foreign keys that are ON DELETE SET NULL; the others RESTRICT.
SetNull == {<<"orders", "addresses">>, <<"order_payments", "addresses">>, <<"order_items", "customers">>}

\* A row that a foreign key with ON DELETE RESTRICT names keeps its table from being emptied.
MayEmpty(t) ==
  \A u \in Table : \A row \in db[u] : \A ref \in row.refs :
    ref[1] = t => <<u, t>> \in SetNull

Emptied(t) ==
  [u \in Table |->
     IF u = t THEN {}
     ELSE {[row EXCEPT !.refs = {ref \in @ : ref[1] # t}] : row \in db[u]}]

\* The primary key of t, and the foreign keys of the rows.
MayInsert(t, rows) ==
  /\ \A row \in rows, old \in db[t] : row.id # old.id
  /\ \A row \in rows : \A ref \in row.refs : \E parent \in db[ref[1]] : parent.id = ref[2]

-----------------------------------------------------------------------------
(* The resets. *)

Init ==
  /\ db = Fixtures
  /\ pc = [r \in Reset |-> 1]
  /\ status = [r \in Reset |-> "idle"]
  /\ alone = [r \in Reset |-> FALSE]

Running == {r \in Reset : status[r] = "running"}

\* A change of the database by anybody but r.
Seen(r) == [o \in Reset |-> alone[o] /\ o = r]

\* A caller may call again, whatever its last call has answered.
Start(r) ==
  /\ status[r] # "running"
  /\ status' = [status EXCEPT ![r] = "running"]
  /\ pc' = [pc EXCEPT ![r] = 1]
  /\ alone' = [Seen(r) EXCEPT ![r] = Running = {}]
  /\ UNCHANGED db

\* A deleteMany; the script ends with exit code 1 when it is refused.
DeleteMany(r) ==
  /\ status[r] = "running"
  /\ pc[r] <= Len(Deletes)
  /\ MayEmpty(Deletes[pc[r]])
  /\ db' = Emptied(Deletes[pc[r]])
  /\ pc' = [pc EXCEPT ![r] = @ + 1]
  /\ alone' = Seen(r)
  /\ UNCHANGED status

CreateMany(r) ==
  /\ status[r] = "running"
  /\ pc[r] > Len(Deletes)
  /\ LET t == Creates[pc[r] - Len(Deletes)] IN
       /\ MayInsert(t, Fixtures[t])
       /\ db' = [db EXCEPT ![t] = @ \cup Fixtures[t]]
  /\ pc' = [pc EXCEPT ![r] = @ + 1]
  /\ status' = [status EXCEPT ![r] = IF pc[r] = Statements THEN "ok" ELSE "running"]
  /\ alone' = Seen(r)

\* The statement a reset is at breaks a constraint.
Refused(r) ==
  IF pc[r] <= Len(Deletes)
  THEN ~MayEmpty(Deletes[pc[r]])
  ELSE ~MayInsert(Creates[pc[r] - Len(Deletes)], Fixtures[Creates[pc[r] - Len(Deletes)]])

\* Nothing is undone: the statements before it stay.
Fail(r) ==
  /\ status[r] = "running"
  /\ Refused(r)
  /\ status' = [status EXCEPT ![r] = "failed"]
  /\ UNCHANGED <<db, pc, alone>>

\* execFile's timeout of thirty seconds kills the script between two statements.
Kill(r) ==
  /\ MayKill
  /\ status[r] = "running"
  /\ status' = [status EXCEPT ![r] = "failed"]
  /\ UNCHANGED <<db, pc, alone>>

-----------------------------------------------------------------------------
(* The requests of buyers. *)

Buyer == {"demo1", "demo2"}

Refers(row, t, id) == <<t, id>> \in row.refs

LinesOf(c) == {l \in db["cart_items"] : Refers(l, "carts", c.id)}

IsOrdered(l) == \E i \in db["order_items"] : Refers(i, "cart_items", l.id)

ActiveCarts(who) ==
  {c \in db["carts"] : Refers(c, "customers", who) /\ \A l \in LinesOf(c) : ~IsOrdered(l)}

Fresh(id) == \A t \in Table : \A row \in db[t] : row.id # id

Requested == alone' = [r \in Reset |-> FALSE] /\ UNCHANGED <<pc, status>>

\* GET /api/cart of a buyer without an active cart.
OpenCart(who, id) ==
  /\ ActiveCarts(who) = {}
  /\ Fresh(id)
  /\ MayInsert("carts", {Row(id, {<<"customers", who>>})})
  /\ db' = [db EXCEPT !["carts"] = @ \cup {Row(id, {<<"customers", who>>})}]
  /\ Requested

\* loadVariant finds the variant only with everything its query joins.
IsSold(p) ==
  \A t \in {"sales", "sale_snapshots", "sale_snapshot_contents", "sale_snapshot_units", "sale_snapshot_unit_stocks"} :
    \E row \in db[t] : row.id = p

\* POST /api/cart/items into the active cart.
AddItem(who, id, p) ==
  \E c \in ActiveCarts(who) :
    /\ IsSold(p)
    /\ Fresh(id)
    /\ \A l \in LinesOf(c) : ~Refers(l, "sale_snapshots", p)
    /\ db' = [db EXCEPT
         !["cart_items"] = @ \cup {Row(id, {<<"carts", c.id>>, <<"sale_snapshots", p>>})},
         !["cart_item_stocks"] = @ \cup
           {Row(id, {<<"cart_items", id>>, <<"sale_snapshot_units", p>>, <<"sale_snapshot_unit_stocks", p>>})}]
    /\ Requested

\* A line that CHECKOUT_CART_SQL can join with its stock.
IsStocked(l) == \E s \in db["cart_item_stocks"] : Refers(s, "cart_items", l.id)

\* POST /api/orders.
Checkout(who, id) ==
  \E c \in ActiveCarts(who) :
    LET open == {l \in LinesOf(c) : IsStocked(l)}
        order == Row(id, {<<"customers", who>>, <<"addresses", who>>})
    IN /\ open # {}
       /\ Fresh(id)
       /\ MayInsert("orders", {order})
       /\ db' = [db EXCEPT
            !["orders"] = @ \cup {order},
            !["order_items"] = @ \cup
              {Row(l.id, {<<"orders", id>>, <<"cart_items", l.id>>, <<"customers", "seller">>}) : l \in open}]
       /\ Requested

\* POST /api/orders/:id/payment-attempts with a successful outcome.
Pay(who, id) ==
  \E o \in db["orders"] :
    /\ Refers(o, "customers", who)
    /\ Fresh(id)
    /\ \A p \in db["order_payments"] : ~Refers(p, "orders", o.id)
    /\ db' = [db EXCEPT
         !["payment_attempts"] = @ \cup {Row(id, {<<"orders", o.id>>})},
         !["order_payments"] = @ \cup {Row(id, {<<"orders", o.id>>})}]
    /\ Requested

Request ==
  \E who \in Buyer, id \in NewId :
    \/ OpenCart(who, id)
    \/ \E p \in Product : AddItem(who, id, p)
    \/ Checkout(who, id)
    \/ Pay(who, id)

Next ==
  \/ \E r \in Reset : Start(r) \/ DeleteMany(r) \/ CreateMany(r) \/ Fail(r) \/ Kill(r)
  \/ Request

Spec == Init /\ [][Next]_vars

-----------------------------------------------------------------------------
(* Correctness. *)

\* A reset that nothing else overlaps never breaks a constraint, whatever
\* requests, refused resets and killed resets have left behind: the order of
\* the deletes and of the inserts respects every foreign key.
AloneIsNeverRefused == \A r \in Reset : status[r] = "running" /\ alone[r] => ~Refused(r)

\* A reset that nothing else overlapped answers 200 with exactly the seeded rows.
AloneRestores ==
  [][\A r \in Reset : alone[r] /\ status[r] = "running" /\ status'[r] = "ok" => db' = Fixtures]_vars

\* What assert-deterministic-seed.js asserts of a database that has just been
\* seeded, of the moment when every reset that ran is over and one answered 200.
FixturesAssertHold ==
  /\ Running = {}
  /\ \E r \in Reset : status[r] = "ok"
  => /\ Cardinality(db["customers"]) = 3
     /\ \E c \in db["carts"] : c.id = "active"
     /\ {"paymentSuccess", "paymentFailure"} \subseteq {a.id : a \in db["payment_attempts"]}
=============================================================================
