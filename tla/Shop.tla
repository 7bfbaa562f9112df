-------------------------------- MODULE Shop --------------------------------
(***************************************************************************)
(* The cart, order and payment use cases of apps/backend, one SQL          *)
(* statement at a time.  Every use case is an operation handed to          *)
(* CustomerLockService.runWithCustomerLock: a transaction is opened, its   *)
(* first statement takes pg_advisory_xact_lock(hashtext(customerId)), the  *)
(* operation's statements follow, and the transaction ends.                *)
(*                                                                         *)
(* Every statement, the lock's too, is issued through                      *)
(* entityManager.getConnection().execute(sql, params, method), without the *)
(* transaction context that execute takes as its fourth argument.  With    *)
(* the locked MikroORM (6.6) and knex (3.1) such a statement runs on a     *)
(* connection of its own from the pool and commits by itself: the          *)
(* advisory lock is released with the statement that takes it, the         *)
(* operations of one buyer may overlap, and nothing is rolled back.  This  *)
(* module is that program.  ShopTurns.tla says what is left of the promise *)
(* of the lock when a buyer's own requests come one at a time.             *)
(*                                                                         *)
(* Meanwhile the transaction itself holds one more connection, so requests *)
(* wait for connections, at most acquireConnectionTimeout.                 *)
(*                                                                         *)
(* Each request draws its UUIDs afresh, so its rows carry its own name.    *)
(* The catalogue (sales opened, paused, given new snapshots) is changed    *)
(* outside these services at any time: whatever a statement reads of it is *)
(* any value.  What the replies show of a cart or an order is left out,    *)
(* and so are getOrder and listAttempts, which only read.                  *)
(***************************************************************************)
EXTENDS Naturals, FiniteSets, FiniteSetsExt

CONSTANTS
  Request,             \* the HTTP requests of a behaviour, one use case each
  Body,                \* the request bodies they may carry
  SeedId,              \* the names of the seeded rows
  SeedDb,              \* the seeded tables
  Customer,            \* the buyers
  Address, AddressOf,  \* DemoAddressPolicy: the one address of a buyer, or None
  Variant, Price,      \* stock rows and their real_price
  StockLevel,          \* available quantities a read may find, 0 for a variant not offered
  MaxQuantity,         \* CART_ITEM_MAX_QUANTITY
  Key, Succeeded, FailureCode,
  Connections,         \* how many connections the rest of the service may leave them
  None

Id == Request \cup SeedId
Outcome == FailureCode \cup {Succeeded}
Quantity == 1..MaxQuantity

\* What the controllers let through to the services, with the buyer of the
\* X-Customer-Id header.
AnyBody ==
  [op : {"getCart"}, customer : Customer]
    \cup [op : {"addItem"}, customer : Customer, variant : Variant, quantity : Quantity]
    \cup [op : {"updateItem"}, customer : Customer, line : Id, quantity : Quantity]
    \cup [op : {"deleteItem"}, customer : Customer, line : Id]
    \cup [op : {"createOrder"}, customer : Customer, cart : Id, address : Address]
    \cup [op : {"createAttempt"}, customer : Customer, order : Id, key : Key, outcome : Outcome]

Row ==
  [cart      |-> [id : Id, customer : Customer, created : Nat],
   cartItem  |-> [id : Id, cart : Id, volume : Quantity],
   itemStock |-> [item : Id, variant : Variant, quantity : Quantity],
   order     |-> [id : Id, customer : Customer, cash : Nat],
   orderItem |-> [line : Id, order : Id, volume : Quantity],
   attempt   |-> [id : Id, order : Id, key : Key, outcome : Outcome],
   payment   |-> [order : Id]]

Table == DOMAIN Row

ASSUME BodiesAreValid == Body \subseteq AnyBody
ASSUME StockLevelsAreNatural == StockLevel \subseteq Nat
ASSUME RequestsAreNew == Request \cap SeedId = {}
ASSUME NoneIsNoBody == None \notin Body
ASSUME ConnectionsAreCounted == Connections \subseteq Nat
ASSUME MaxQuantityIsNatural == MaxQuantity \in Nat
ASSUME PricesAreNatural == \A v \in Variant : Price[v] \in Nat

VARIABLES
  db,      \* the rows of each table
  pool,    \* the connections of the pool these requests share
  pc,      \* the statement each request issues next, or the reply it ended with
  body,    \* the body of each request
  loc      \* the local variables of each operation

vars == <<db, pool, pc, body, loc>>

Rejected == {"rejected", "error", "timeout", "aborted"}
Final == {"ok", "created", "replayed", "lost"} \cup Rejected
Statement ==
  {"findCart", "insertCart", "loadVariant", "findItem", "insertItem", "insertStock",
   "cartView", "setVolume", "setQuantity", "deleteStock", "deleteItem",
   "loadCheckout", "insertOrder", "insertOrderItem", "orderView",
   "loadOrder", "listAttempts", "insertAttempt", "replay", "insertPayment", "commit"}

NoLocals ==
  [cart |-> None, line |-> None, quantity |-> 0, available |-> 0,
   rows |-> {}, hasPayment |-> FALSE, reply |-> "ok"]

-----------------------------------------------------------------------------
(* What the tables promise each other, for the seeded and the live ones.   *)

\* The PRIMARY KEY and UNIQUE constraints; a line has one stock row.
Keys(d) ==
  /\ \A x, y \in d.cart : x.id = y.id => x = y
  /\ \A x, y \in d.cartItem : x.id = y.id => x = y
  /\ \A x, y \in d.itemStock : x.item = y.item => x = y
  /\ \A x, y \in d.order : x.id = y.id => x = y
  /\ \A x, y \in d.orderItem : x.line = y.line => x = y
  /\ \A x, y \in d.attempt : x.order = y.order /\ x.key = y.key => x = y

\* The FOREIGN KEYs, and what the rows they join have in common.
References(d) ==
  /\ \A i \in d.cartItem : \E c \in d.cart : c.id = i.cart
  /\ \A i \in d.cartItem : \E s \in d.itemStock : s.item = i.id /\ s.quantity = i.volume
  /\ \A s \in d.itemStock : \E i \in d.cartItem : i.id = s.item
  /\ \A oi \in d.orderItem : \E i \in d.cartItem : i.id = oi.line
  /\ \A oi \in d.orderItem : \E o \in d.order : o.id = oi.order
  /\ \A a \in d.attempt : \E o \in d.order : o.id = a.order
  /\ \A p \in d.payment : \E o \in d.order : o.id = p.order

\* Every payment row has an attempt that succeeded.
Backed(d) == \A p \in d.payment : \E a \in d.attempt : a.order = p.order /\ a.outcome = Succeeded

ASSUME SeedIsTyped == DOMAIN SeedDb = Table /\ \A t \in Table : SeedDb[t] \subseteq Row[t]
ASSUME SeedIsFinite == \A t \in Table : IsFiniteSet(SeedDb[t])
ASSUME SeedIsNamed ==
  \A t \in {"cart", "cartItem", "order", "attempt"} : \A x \in SeedDb[t] : x.id \in SeedId
ASSUME SeedKeepsConstraints == Keys(SeedDb) /\ References(SeedDb) /\ Backed(SeedDb)

-----------------------------------------------------------------------------
(* Statements. *)

\* A statement replaces the rows old of table t by new, and commits.
Write(t, old, new) == db' = [db EXCEPT ![t] = (@ \ old) \cup new]

GoTo(r, label) == pc' = [pc EXCEPT ![r] = label]

\* The operation ends before its commit: MikroORM rolls back a transaction
\* that none of its statements was part of, and the request is forgotten.
Leave(r, reply) ==
  /\ GoTo(r, reply)
  /\ body' = [body EXCEPT ![r] = None]
  /\ loc' = [loc EXCEPT ![r] = NoLocals]
  /\ UNCHANGED <<db, pool>>

Reject(r) == Leave(r, "rejected")

\* An INSERT or DELETE that a UNIQUE or FOREIGN KEY constraint may refuse.
Guarded(r, allowed, t, old, new, label, locals) ==
  IF allowed
  THEN /\ Write(t, old, new)
       /\ GoTo(r, label)
       /\ loc' = [loc EXCEPT ![r] = locals]
       /\ UNCHANGED <<pool, body>>
  ELSE Leave(r, "error")

\* A statement that reads, then hands on to the next one.
Reading(r, label, locals) ==
  /\ GoTo(r, label)
  /\ loc' = [loc EXCEPT ![r] = locals]
  /\ UNCHANGED <<db, pool, body>>

\* The operation has its result; what is left is to commit.
Answering(r, reply) == Reading(r, "commit", [NoLocals EXCEPT !.reply = reply])

-----------------------------------------------------------------------------
(* What the queries select. *)

Buyer(r) == body[r].customer

OrderedIn(line) == {oi \in db.orderItem : oi.line = line}

\* A fault: ACTIVE_CART_WHERE_SQL without its NOT EXISTS.
AllCarts(r) == {c \in db.cart : c.customer = Buyer(r)}

\* findActiveCartId: carts of the buyer, none of whose lines is ordered.
ActiveCarts(r) ==
  {c \in db.cart :
     /\ c.customer = Buyer(r)
     /\ \A i \in db.cartItem : i.cart = c.id => OrderedIn(i.id) = {}}

\* ORDER BY created_at DESC LIMIT 1.
Newest(carts) == CHOOSE c \in carts : \A d \in carts : d.created <= c.created

\* The lines of a cart, each cart_items row with its cart_item_stocks row.
LinesOf(cart) ==
  {[line |-> p[1].id, variant |-> p[2].variant, quantity |-> p[2].quantity] :
     p \in {q \in db.cartItem \X db.itemStock : q[1].cart = cart /\ q[2].item = q[1].id}}

\* A fault: CHECKOUT_CART_SQL without existing_order_item.id IS NULL.
CheckoutAllRows(r, cart) ==
  {l \in LinesOf(cart) : \E c \in db.cart : c.id = cart /\ c.customer = Buyer(r)}

\* CHECKOUT_CART_SQL: the lines of the buyer's cart that no order has.
CheckoutRows(r, cart) ==
  {l \in LinesOf(cart) :
     /\ \E c \in db.cart : c.id = cart /\ c.customer = Buyer(r)
     /\ OrderedIn(l.line) = {}}

Cash(rows) == MapThenSumSet(LAMBDA l : Price[l.variant] * l.quantity, rows)

\* A fault: LOAD_ORDER_SQL without its customer_id.
OrderOfAnybody(r) == {o \in db.order : o.id = body[r].order}

OrderOfBuyer(r) == {o \in db.order : o.id = body[r].order /\ o.customer = Buyer(r)}

AttemptsWith(order, key) == {a \in db.attempt : a.order = order /\ a.key = key}

-----------------------------------------------------------------------------
(* The transaction around every operation, and the connections of the pool.*)

\* Each open transaction holds a connection it does not use before its end.
Holding == {r \in Request : pc[r] \in Statement \cup {"lock"}}

FreeConnection == Cardinality(Holding) < pool

\* The next statement of r is s, and has a connection.
Issues(r, s) == pc[r] = s /\ FreeConnection

\* The request reaches the service.
Begin(r) ==
  /\ pc[r] = "idle"
  /\ GoTo(r, "begin")
  /\ UNCHANGED <<db, pool, body, loc>>

\* The body is chosen here, where it first matters.
OpenTransaction(r) ==
  /\ Issues(r, "begin")
  /\ \E b \in Body : body' = [body EXCEPT ![r] = b]
  /\ GoTo(r, "lock")
  /\ UNCHANGED <<db, pool, loc>>

FirstStatement(op) ==
  CASE op = "createOrder"   -> "loadCheckout"
    [] op = "createAttempt" -> "loadOrder"
    [] OTHER                -> "findCart"

\* The advisory lock is granted and, with its statement, released.
Lock(r) ==
  /\ Issues(r, "lock")
  /\ GoTo(r, FirstStatement(body[r].op))
  /\ UNCHANGED <<db, pool, body, loc>>

\* What the controller answers: 201 for a created attempt, 200 for the rest.
Result(r) == IF loc[r].reply \in {"created", "replayed"} THEN loc[r].reply ELSE "ok"

\* The transaction has nothing to publish; the reply may get lost.
Commit(r) ==
  /\ pc[r] = "commit"
  /\ loc' = [loc EXCEPT ![r] = NoLocals]
  /\ \E reply \in {Result(r), "lost"} : GoTo(r, reply)
  /\ UNCHANGED <<db, pool, body>>

Waiting == (Statement \ {"commit"}) \cup {"begin", "lock"}

\* A fault: acquireConnectionTimeout = 0, a wait without an end.
NeverTimeOut(r) == FALSE

\* knex gives up waiting for a connection.
TimeOut(r) ==
  /\ pc[r] \in Waiting
  /\ ~FreeConnection
  /\ Leave(r, "timeout")

\* The connection or the process dies under a request.
Abort(r) ==
  /\ pc[r] \in Statement \cup {"begin", "lock"}
  /\ Leave(r, "aborted")

-----------------------------------------------------------------------------
(* CartService. *)

AfterCart(op) == CASE op = "getCart" -> "commit" [] op = "addItem" -> "loadVariant" [] OTHER -> "cartView"

FindCart(r) ==
  /\ Issues(r, "findCart")
  /\ LET op == body[r].op
         found == ActiveCarts(r)
     IN \/ /\ found # {}
           /\ Reading(r, AfterCart(op), [NoLocals EXCEPT !.cart = Newest(found).id])
        \/ /\ found = {} /\ op \in {"getCart", "addItem"}
           /\ Reading(r, "insertCart", NoLocals)
        \/ /\ found = {} /\ op \in {"updateItem", "deleteItem"}
           /\ Reject(r)

InsertCart(r) ==
  /\ Issues(r, "insertCart")
  /\ LET mine == {c \in db.cart : c.customer = Buyer(r)}
         cart == [id |-> r, customer |-> Buyer(r), created |-> Cardinality(mine)]
     IN Guarded(r, TRUE, "cart", {}, {cart}, AfterCart(body[r].op), [NoLocals EXCEPT !.cart = r])

\* VARIANT_LOOKUP_SQL and the first stock check of addItem.
LoadVariant(r) ==
  /\ Issues(r, "loadVariant")
  /\ \E available \in StockLevel :
       IF available >= body[r].quantity
       THEN Reading(r, "findItem", [loc[r] EXCEPT !.available = available])
       ELSE Reject(r)

\* A fault: the limit is compared with the quantity already in the cart.
WithinLimitBefore(old, added) == old <= MaxQuantity

WithinLimit(old, added) == old + added <= MaxQuantity

FindItem(r) ==
  /\ Issues(r, "findItem")
  /\ LET existing == {l \in LinesOf(loc[r].cart) : l.variant = body[r].variant}
     IN \/ /\ existing = {}
           /\ Reading(r, "insertItem", [loc[r] EXCEPT !.quantity = body[r].quantity])
        \/ \E l \in existing :
             LET next == l.quantity + body[r].quantity
             IN IF WithinLimit(l.quantity, body[r].quantity) /\ next <= loc[r].available
                THEN Reading(r, "setVolume", [loc[r] EXCEPT !.line = l.line, !.quantity = next])
                ELSE Reject(r)

InsertItem(r) ==
  /\ Issues(r, "insertItem")
  /\ LET item == [id |-> r, cart |-> loc[r].cart, volume |-> loc[r].quantity]
     IN Guarded(r, TRUE, "cartItem", {}, {item}, "insertStock", loc[r])

InsertStock(r) ==
  /\ Issues(r, "insertStock")
  /\ LET row == [item |-> r, variant |-> body[r].variant, quantity |-> loc[r].quantity]
         parent == \E i \in db.cartItem : i.id = r
     IN Guarded(r, parent, "itemStock", {}, {row}, "commit", NoLocals)

\* updateItem and deleteItem accept only a line of the active cart.
CartView(r) ==
  /\ Issues(r, "cartView")
  /\ LET shown == {l \in LinesOf(loc[r].cart) : l.line = body[r].line}
     IN \/ /\ shown = {}
           /\ Reject(r)
        \/ /\ shown # {} /\ body[r].op = "deleteItem"
           /\ Reading(r, "deleteStock", [NoLocals EXCEPT !.line = body[r].line])
        \/ /\ shown # {} /\ body[r].op = "updateItem"
           /\ \E available \in StockLevel :
                IF available >= body[r].quantity
                THEN Reading(r, "setVolume",
                             [NoLocals EXCEPT !.line = body[r].line, !.quantity = body[r].quantity])
                ELSE Reject(r)

SetVolume(r) ==
  /\ Issues(r, "setVolume")
  /\ LET old == {i \in db.cartItem : i.id = loc[r].line}
         new == {[i EXCEPT !.volume = loc[r].quantity] : i \in old}
     IN Guarded(r, TRUE, "cartItem", old, new, "setQuantity", loc[r])

SetQuantity(r) ==
  /\ Issues(r, "setQuantity")
  /\ LET old == {s \in db.itemStock : s.item = loc[r].line}
         new == {[s EXCEPT !.quantity = loc[r].quantity] : s \in old}
     IN Guarded(r, TRUE, "itemStock", old, new, "commit", NoLocals)

DeleteStock(r) ==
  /\ Issues(r, "deleteStock")
  /\ LET old == {s \in db.itemStock : s.item = loc[r].line}
     IN Guarded(r, TRUE, "itemStock", old, {}, "deleteItem", loc[r])

\* cart_items is referenced by cart_item_stocks and by order_items, both RESTRICT.
DeleteItem(r) ==
  /\ Issues(r, "deleteItem")
  /\ LET old == {i \in db.cartItem : i.id = loc[r].line}
         unreferenced ==
           /\ OrderedIn(loc[r].line) = {}
           /\ \A s \in db.itemStock : s.item # loc[r].line
     IN Guarded(r, unreferenced, "cartItem", old, {}, "commit", NoLocals)

-----------------------------------------------------------------------------
(* OrderService. *)

LoadCheckout(r) ==
  /\ Issues(r, "loadCheckout")
  /\ LET rows == CheckoutRows(r, body[r].cart)
     IN \E stock \in [Variant -> StockLevel] :
        IF /\ AddressOf[Buyer(r)] = body[r].address
           /\ rows # {}
           /\ \A l \in rows : stock[l.variant] >= l.quantity
        THEN Reading(r, "insertOrder", [NoLocals EXCEPT !.rows = rows])
        ELSE Reject(r)

\* A fault: the volume of an item is read again when it is inserted.
VolumeNow(l) ==
  IF \E s \in db.itemStock : s.item = l.line
  THEN (CHOOSE s \in db.itemStock : s.item = l.line).quantity
  ELSE l.quantity

\* The volume of an item is the one its row of the checkout was read with.
VolumeRead(l) == l.quantity

InsertOrder(r) ==
  /\ Issues(r, "insertOrder")
  /\ LET order == [id |-> r, customer |-> Buyer(r), cash |-> Cash(loc[r].rows)]
     IN Guarded(r, TRUE, "order", {}, {order}, "insertOrderItem", loc[r])

\* One INSERT per row; order_items.cart_item_id is UNIQUE and a FOREIGN KEY.
InsertOrderItem(r) ==
  /\ Issues(r, "insertOrderItem")
  /\ \E l \in loc[r].rows :
       LET item == [line |-> l.line, order |-> r, volume |-> VolumeRead(l)]
           rest == loc[r].rows \ {l}
           allowed == /\ OrderedIn(l.line) = {}
                      /\ \E i \in db.cartItem : i.id = l.line
       IN Guarded(r, allowed, "orderItem", {}, {item},
                  IF rest = {} THEN "orderView" ELSE "insertOrderItem",
                  [loc[r] EXCEPT !.rows = rest])

\* ORDER_VIEW_SQL joins the items with their lines: no row, no order.
OrderView(r) ==
  /\ Issues(r, "orderView")
  /\ IF \E oi \in db.orderItem, i \in db.cartItem, s \in db.itemStock :
          oi.order = r /\ i.id = oi.line /\ s.item = i.id
     THEN Answering(r, "ok")
     ELSE Reject(r)

-----------------------------------------------------------------------------
(* PaymentService. *)

LoadOrder(r) ==
  /\ Issues(r, "loadOrder")
  /\ IF OrderOfBuyer(r) # {}
     THEN LET hasPayment == \E p \in db.payment : p.order = body[r].order
          IN Reading(r, "listAttempts", [NoLocals EXCEPT !.hasPayment = hasPayment])
     ELSE Reject(r)

\* assertReplayMatches: the same key must come with the same payload.
AnswerReplay(r, a) ==
  IF a.outcome = body[r].outcome THEN Answering(r, "replayed") ELSE Reject(r)

OpenForPayment(r) == ~loc[r].hasPayment

ListAttempts(r) ==
  /\ Issues(r, "listAttempts")
  /\ LET existing == AttemptsWith(body[r].order, body[r].key)
     IN \/ \E a \in existing : AnswerReplay(r, a)
        \/ /\ existing = {}
           /\ IF OpenForPayment(r) THEN Reading(r, "insertAttempt", NoLocals) ELSE Reject(r)

\* Faults: no conflict target, so the key is inserted again; a payment for any
\* outcome.
NeverConflicts(r) == FALSE
PaymentAlways(outcome) == "insertPayment"

Conflicts(r) == AttemptsWith(body[r].order, body[r].key) # {}

AfterAttempt(outcome) == IF outcome = Succeeded THEN "insertPayment" ELSE "commit"

\* INSERT ... ON CONFLICT (order_id, request_key) DO NOTHING.
InsertAttempt(r) ==
  /\ Issues(r, "insertAttempt")
  /\ LET row == [id |-> r, order |-> body[r].order, key |-> body[r].key, outcome |-> body[r].outcome]
     IN IF Conflicts(r)
        THEN Reading(r, "replay", NoLocals)
        ELSE Guarded(r, TRUE, "attempt", {}, {row},
                     AfterAttempt(row.outcome),
                     [NoLocals EXCEPT !.reply = "created"])

Replay(r) ==
  /\ Issues(r, "replay")
  /\ LET found == AttemptsWith(body[r].order, body[r].key)
     IN IF found = {} THEN Leave(r, "error") ELSE \E a \in found : AnswerReplay(r, a)

\* A fault: ON CONFLICT (order_id) DO NOTHING, here too.
PaidOnConflict(r) == TRUE

\* order_payments.order_id is UNIQUE.
Unpaid(r) == \A p \in db.payment : p.order # body[r].order

InsertPayment(r) ==
  /\ Issues(r, "insertPayment")
  /\ Guarded(r, Unpaid(r), "payment", {}, {[order |-> body[r].order]}, "commit", loc[r])

-----------------------------------------------------------------------------
CartStep(r) ==
  \/ FindCart(r) \/ InsertCart(r) \/ LoadVariant(r) \/ FindItem(r) \/ InsertItem(r)
  \/ InsertStock(r) \/ CartView(r) \/ SetVolume(r) \/ SetQuantity(r)
  \/ DeleteStock(r) \/ DeleteItem(r)

OrderStep(r) == LoadCheckout(r) \/ InsertOrder(r) \/ InsertOrderItem(r) \/ OrderView(r)

PaymentStep(r) ==
  \/ LoadOrder(r) \/ ListAttempts(r) \/ InsertAttempt(r) \/ Replay(r) \/ InsertPayment(r)

Step(r) ==
  OpenTransaction(r) \/ Lock(r) \/ CartStep(r) \/ OrderStep(r) \/ PaymentStep(r) \/ Commit(r)

Init ==
  /\ db = SeedDb
  /\ pool \in Connections
  /\ pc = [r \in Request |-> "idle"]
  /\ body = [r \in Request |-> None]
  /\ loc = [r \in Request |-> NoLocals]

Next == \E r \in Request : Begin(r) \/ Step(r) \/ TimeOut(r) \/ Abort(r)

Spec == Init /\ [][Next]_vars

\* Node and PostgreSQL keep running the statements of a request that has
\* started, and knex's timer fires; nobody has to send a request, and no
\* connection has to die.
FairSpec == Spec /\ \A r \in Request : WF_vars(Step(r)) /\ WF_vars(TimeOut(r))

-----------------------------------------------------------------------------
(* Correctness. *)

\* Every table holds rows of its type, every request is at a statement or has
\* its reply.
TypeOK ==
  /\ DOMAIN db = Table
  /\ \A t \in Table : db[t] \subseteq Row[t]
  /\ pool \in Connections
  /\ pc \in [Request -> Statement \cup Final \cup {"idle", "begin", "lock"}]
  /\ body \in [Request -> Body \cup {None}]
  /\ DOMAIN loc = Request

\* A checkout that fails leaves no order ("rolls back when ...", "creates no
\* order rows").
FailedCheckoutLeavesNoOrder ==
  \A r \in Request : pc[r] \in {"rejected", "error"} => \A o \in db.order : o.id # r

\* However requests race, retry or die, whoever was told about an attempt was
\* told what the one row of that key says.
AckedAttemptStored ==
  \A r \in Request : pc[r] \in {"created", "replayed"} =>
    /\ \E a \in db.attempt : a.order = body[r].order /\ a.key = body[r].key
    /\ \A a \in db.attempt :
         a.order = body[r].order /\ a.key = body[r].key => a.outcome = body[r].outcome

\* An order is only ever paid by an attempt that succeeded, and a cart line
\* is only ever in one order.
PaymentBacked ==
  /\ \A p \in db.payment :
       \E a \in db.attempt : a.order = p.order /\ a.outcome = Succeeded
  /\ \A oi1, oi2 \in db.orderItem : oi1.line = oi2.line => oi1 = oi2

\* Nobody pays twice: of all the requests that race to pay an order, under
\* whatever keys, at most one is answered 201 for a success, and then the
\* order has its payment row.
CreatedSuccess(r) == pc[r] = "created" /\ body[r].outcome = Succeeded

OneCreatedSuccess ==
  /\ \A r1, r2 \in Request :
       CreatedSuccess(r1) /\ CreatedSuccess(r2) /\ body[r1].order = body[r2].order => r1 = r2
  /\ \A r \in Request : CreatedSuccess(r) => \E p \in db.payment : p.order = body[r].order

\* The lines of order o as they were sold: each item with the variant of its
\* cart line.
Sold(d, o) ==
  {[line |-> p[1].line, variant |-> p[2].variant, quantity |-> p[1].volume] :
     p \in {q \in d.orderItem \X d.itemStock : q[1].order = o /\ q[2].item = q[1].line}}

ItemsOf(d, o) == {oi \in d.orderItem : oi.order = o}

\* A checkout that was answered has its order, with items, and the order costs
\* what its items say, although the same cart may have been changed or checked
\* out by others between its statements.  (A line whose stock row such a
\* request has deleted names no variant any more.)
AnsweredOrderIsWhole ==
  \A r \in Request :
    pc[r] \in {"ok", "lost"} /\ body[r].op = "createOrder" =>
      \E o \in db.order :
        /\ o.id = r /\ o.customer = Buyer(r)
        /\ ItemsOf(db, r) # {}
        /\ (\A oi \in ItemsOf(db, r) : \E s \in db.itemStock : s.item = oi.line)
             => o.cash = Cash(Sold(db, r))

\* The rows of a buyer: the carts with their lines, the orders with their
\* items, attempts and payments, and every item that names one of the lines.
CartOf(d, who, cart) == \E c \in d.cart : c.id = cart /\ c.customer = who
LineOf(d, who, line) == \E i \in d.cartItem : i.id = line /\ CartOf(d, who, i.cart)
OrderOf(d, who, order) == \E o \in d.order : o.id = order /\ o.customer = who

RowsOf(d, who) ==
  [cart      |-> {c \in d.cart : c.customer = who},
   cartItem  |-> {i \in d.cartItem : CartOf(d, who, i.cart)},
   itemStock |-> {s \in d.itemStock : LineOf(d, who, s.item)},
   order     |-> {o \in d.order : o.customer = who},
   orderItem |-> {oi \in d.orderItem : OrderOf(d, who, oi.order) \/ LineOf(d, who, oi.line)},
   attempt   |-> {a \in d.attempt : OrderOf(d, who, a.order)},
   payment   |-> {p \in d.payment : OrderOf(d, who, p.order)}]

\* Buyers are kept apart: what a buyer has in the tables is only ever changed
\* by a request in the buyer's own name, whatever rows the others name and
\* however old what they have read is.
Moves(r) == <<pc[r], loc[r]>>' # <<pc[r], loc[r]>>

BuyersApart ==
  [][\A who \in Customer :
       RowsOf(db, who)' # RowsOf(db, who)
         => \E r \in Request : Moves(r) /\ body[r] # None /\ Buyer(r) = who]_vars

\* Every request that reaches the service ends with a reply, also when more
\* transactions are open than the pool has connections for their statements.
EveryRequestEnds == \A r \in Request : pc[r] = "begin" ~> pc[r] \in Final
=============================================================================
