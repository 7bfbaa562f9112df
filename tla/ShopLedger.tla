----------------------------- MODULE ShopLedger -----------------------------
(***************************************************************************)
(* What the cart, order and payment services promise: every use case runs  *)
(* alone and takes effect in one step, or leaves no trace.  Shop.tla is    *)
(* the same program statement by statement; this module is the abstract    *)
(* specification it is checked against and the one the theorems of         *)
(* ShopLedgerProofs.tla are about.                                         *)
(*                                                                         *)
(* A row is named by the UUID the use case draws for it (Id).  Prices,     *)
(* stock and the catalogue are not here: they only decide whether a use    *)
(* case is rejected, and a rejected use case changes nothing.              *)
(***************************************************************************)
EXTENDS Naturals

CONSTANTS
  Id,             \* UUIDs of carts, cart lines, orders
  Customer,       \* the seeded buyers
  Variant,        \* sale_snapshot_unit_stocks rows a line can name
  Key,            \* payment request keys
  Succeeded,      \* the payload of an attempt with outcome = success
  FailureCode,    \* the payloads of attempts with outcome = fail
  MaxQuantity,    \* CART_ITEM_MAX_QUANTITY
  SeedCarts, SeedLines, SeedOrders, SeedItems, SeedAttempts, SeedPaid

VARIABLES
  carts,      \* carts:          [id, customer]
  lines,      \* cart_items joined with cart_item_stocks: [id, cart, variant, quantity]
  orders,     \* orders:         [id, customer]
  items,      \* order_items:    [line, order, volume]
  attempts,   \* payment_attempts: [order, key, outcome]
  paid        \* order_payments: the orders that have a row

vars == <<carts, lines, orders, items, attempts, paid>>

Outcome == FailureCode \cup {Succeeded}
Quantity == 1..MaxQuantity

Cart    == [id : Id, customer : Customer]
Line    == [id : Id, cart : Id, variant : Variant, quantity : Quantity]
Order   == [id : Id, customer : Customer]
Item    == [line : Id, order : Id, volume : Quantity]
Attempt == [order : Id, key : Key, outcome : Outcome]

-----------------------------------------------------------------------------
(* What the tables promise each other, for the seeded and the live ones.   *)

Ordered(I, l) == \E i \in I : i.line = l

Active(L, I, c) == \A l \in L : l.cart = c => ~Ordered(I, l.id)

Typed(C, L, O, I, A, P) ==
  /\ C \subseteq Cart
  /\ L \subseteq Line
  /\ O \subseteq Order
  /\ I \subseteq Item
  /\ A \subseteq Attempt
  /\ P \subseteq Id

\* The primary keys of carts, cart_items and orders.
PrimaryKeys(C, L, O) ==
  /\ \A x, y \in C : x.id = y.id => x = y
  /\ \A x, y \in L : x.id = y.id => x = y
  /\ \A x, y \in O : x.id = y.id => x = y

\* The foreign keys from a line to its cart and from payments to their order.
ForeignKeys(C, L, O, A, P) ==
  /\ \A l \in L : \E c \in C : c.id = l.cart
  /\ \A a \in A : \E o \in O : o.id = a.order
  /\ \A p \in P : \E o \in O : o.id = p

AtMostOneActive(C, L, I) ==
  \A x, y \in C :
    /\ x.customer = y.customer
    /\ Active(L, I, x.id)
    /\ Active(L, I, y.id)
    => x = y

OrderedWhole(L, I) ==
  \A i \in I, l1, l2 \in L :
    i.line = l1.id /\ l1.cart = l2.cart
      => \E j \in I : j.line = l2.id /\ j.order = i.order

ItemsMatch(C, L, O, I) ==
  \A i \in I :
    \E l \in L, c \in C, o \in O :
      /\ i.line = l.id
      /\ i.volume = l.quantity
      /\ l.cart = c.id
      /\ i.order = o.id
      /\ o.customer = c.customer

ASSUME MaxQuantityIsNatural == MaxQuantity \in Nat
ASSUME SeedIsTyped == Typed(SeedCarts, SeedLines, SeedOrders, SeedItems, SeedAttempts, SeedPaid)
ASSUME SeedHasKeys ==
  /\ PrimaryKeys(SeedCarts, SeedLines, SeedOrders)
  /\ ForeignKeys(SeedCarts, SeedLines, SeedOrders, SeedAttempts, SeedPaid)
ASSUME SeedIsConsistent ==
  /\ AtMostOneActive(SeedCarts, SeedLines, SeedItems)
  /\ OrderedWhole(SeedLines, SeedItems)
  /\ ItemsMatch(SeedCarts, SeedLines, SeedOrders, SeedItems)

-----------------------------------------------------------------------------
(* Reading the tables. *)

IsOrdered(l) == Ordered(items, l)

\* A fault: ACTIVE_CART_WHERE_SQL without its NOT EXISTS.
IsActiveAlways(c) == TRUE

\* ACTIVE_CART_WHERE_SQL: no line of the cart is in an order.
IsActive(c) == Active(lines, items, c)

ActiveCarts(who) == {c \in carts : c.customer = who /\ IsActive(c.id)}

\* A fault: lines that cannot be sold are skipped, not refused.
OpenLinesOfOne(c) == {l \in lines : l.cart = c /\ ~IsOrdered(l.id) /\ l.quantity = 1}

OpenLines(c) == {l \in lines : l.cart = c /\ ~IsOrdered(l.id)}

\* randomUUID(): an identity no row of the table has.
Fresh(id, rows) == \A x \in rows : x.id # id

\* A fault: a cart is opened without looking for one.
CartAlwaysNew(who, id) == {c \in Cart : c = [id |-> id, customer |-> who] /\ Fresh(id, carts)}

\* The cart an add or a read works on: the active one, else a new one.
CartToUse(who, id) ==
  IF ActiveCarts(who) # {}
  THEN ActiveCarts(who)
  ELSE {c \in Cart : c = [id |-> id, customer |-> who] /\ Fresh(id, carts)}

-----------------------------------------------------------------------------
(* The use cases, each one step. *)

Init ==
  /\ carts = SeedCarts
  /\ lines = SeedLines
  /\ orders = SeedOrders
  /\ items = SeedItems
  /\ attempts = SeedAttempts
  /\ paid = SeedPaid

\* CartService.getCart opens a cart when the buyer has none.
GetCart(who, id) ==
  \E c \in CartToUse(who, id) :
    /\ carts' = carts \cup {c}
    /\ UNCHANGED <<lines, orders, items, attempts, paid>>

\* CartService.addItem, the variant not yet in the cart.
AddNewLine(who, id, v, q) ==
  \E c \in CartToUse(who, id) :
    /\ \A l \in lines : l.cart = c.id => l.variant # v
    /\ Fresh(id, lines)
    /\ carts' = carts \cup {c}
    /\ lines' = lines \cup {[id |-> id, cart |-> c.id, variant |-> v, quantity |-> q]}
    /\ UNCHANGED <<orders, items, attempts, paid>>

\* A fault: addItem without assertWithinCartItemLimit.
AddQuantityUnlimited(who, l, q) ==
  \E c \in ActiveCarts(who) :
    /\ l.cart = c.id
    /\ lines' = (lines \ {l}) \cup {[l EXCEPT !.quantity = @ + q]}
    /\ UNCHANGED <<carts, orders, items, attempts, paid>>

\* CartService.addItem on a line of the cart, and CartService.updateItem.
SetQuantity(who, l, q) ==
  \E c \in ActiveCarts(who) :
    /\ l.cart = c.id
    /\ lines' = (lines \ {l}) \cup {[l EXCEPT !.quantity = q]}
    /\ UNCHANGED <<carts, orders, items, attempts, paid>>

\* A fault: a line is deleted out of any cart of the buyer.
DeleteFromAnyCart(who, l) ==
  \E c \in carts :
    /\ c.customer = who
    /\ l.cart = c.id
    /\ lines' = lines \ {l}
    /\ UNCHANGED <<carts, orders, items, attempts, paid>>

\* CartService.deleteItem.
DeleteItem(who, l) ==
  \E c \in ActiveCarts(who) :
    /\ l.cart = c.id
    /\ lines' = lines \ {l}
    /\ UNCHANGED <<carts, orders, items, attempts, paid>>

\* A fault: checkout clears the cart it has sold.
CreateOrderClearingCart(who, id, c) ==
  /\ c \in carts
  /\ c.customer = who
  /\ OpenLines(c.id) # {}
  /\ Fresh(id, orders)
  /\ orders' = orders \cup {[id |-> id, customer |-> who]}
  /\ items' = items \cup {[line |-> l.id, order |-> id, volume |-> l.quantity] : l \in OpenLines(c.id)}
  /\ carts' = carts \ {c}
  /\ UNCHANGED <<lines, attempts, paid>>

\* OrderService.createOrder: one order for all the lines of the cart.
CreateOrder(who, id, c) ==
  /\ c \in carts
  /\ c.customer = who
  /\ OpenLines(c.id) # {}
  /\ Fresh(id, orders)
  /\ orders' = orders \cup {[id |-> id, customer |-> who]}
  /\ items' = items \cup {[line |-> l.id, order |-> id, volume |-> l.quantity] : l \in OpenLines(c.id)}
  /\ UNCHANGED <<carts, lines, attempts, paid>>

\* A fault: a paid order goes on taking attempts.
CreateAttemptAnyTime(who, o, k, out) ==
  /\ o \in orders
  /\ o.customer = who
  /\ \A a \in attempts : ~(a.order = o.id /\ a.key = k)
  /\ attempts' = attempts \cup {[order |-> o.id, key |-> k, outcome |-> out]}
  /\ paid' = IF out = Succeeded THEN paid \cup {o.id} ELSE paid
  /\ UNCHANGED <<carts, lines, orders, items>>

\* PaymentService.createAttempt with a new request key.
CreateAttempt(who, o, k, out) ==
  /\ o \in orders
  /\ o.customer = who
  /\ \A a \in attempts : ~(a.order = o.id /\ a.key = k)
  /\ o.id \notin paid
  /\ attempts' = attempts \cup {[order |-> o.id, key |-> k, outcome |-> out]}
  /\ paid' = IF out = Succeeded THEN paid \cup {o.id} ELSE paid
  /\ UNCHANGED <<carts, lines, orders, items>>

Next ==
  \E who \in Customer :
    \/ \E id \in Id : GetCart(who, id)
    \/ \E id \in Id, v \in Variant, q \in Quantity : AddNewLine(who, id, v, q)
    \/ \E l \in lines, q \in Quantity : SetQuantity(who, l, q)
    \/ \E l \in lines : DeleteItem(who, l)
    \/ \E id \in Id, c \in carts : CreateOrder(who, id, c)
    \/ \E o \in orders, k \in Key, out \in Outcome : CreateAttempt(who, o, k, out)

Spec == Init /\ [][Next]_vars

-----------------------------------------------------------------------------
(* Correctness. *)

\* Every table holds rows of its type.
TypeOK == Typed(carts, lines, orders, items, attempts, paid)

\* A buyer never has two active carts: whatever the order of reads, adds,
\* deletions and checkouts, the ORDER BY ... LIMIT 1 of findActiveCartId
\* never has to choose.
OneActiveCart == AtMostOneActive(carts, lines, items)

\* Checkout takes a cart whole and once: as soon as one line of a cart is in
\* an order, every line of that cart is in the same order, and no line ever
\* joins the cart again.
CartOrderedWhole == OrderedWhole(lines, items)

\* An order keeps saying what was bought: each of its items names a line that
\* still exists, in the same quantity, out of a cart of the order's own buyer.
ItemsMatchLines == ItemsMatch(carts, lines, orders, items)

\* An order placed through the API has a payment row exactly when one of its
\* attempts succeeded, and never two such attempts, whatever keys are used.
PaidIffSucceeded ==
  \A o \in orders \ SeedOrders :
    /\ o.id \in paid <=> \E a \in attempts : a.order = o.id /\ a.outcome = Succeeded
    /\ \A a, b \in attempts :
         /\ a.order = o.id /\ b.order = o.id
         /\ a.outcome = Succeeded /\ b.outcome = Succeeded
         => a = b

\* No step changes or removes a cart line once an order names it: updateItem
\* and deleteItem reach only the lines of the active cart.
OrderedLinesFrozen == [][\A l \in lines : IsOrdered(l.id) => l \in lines']_vars

\* The strengthening under which the invariants above are inductive.
Consistent ==
  /\ TypeOK
  /\ PrimaryKeys(carts, lines, orders)
  /\ ForeignKeys(carts, lines, orders, attempts, paid)
  /\ SeedOrders \subseteq orders
  /\ OneActiveCart
  /\ CartOrderedWhole
  /\ ItemsMatchLines
  /\ PaidIffSucceeded
=============================================================================
