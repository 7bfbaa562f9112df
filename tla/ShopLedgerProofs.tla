-------------------------- MODULE ShopLedgerProofs --------------------------
(***************************************************************************)
(* Theorems about ShopLedger, for any number of buyers, rows, variants and *)
(* request keys and any consistent seed.  Consistent is inductive: each    *)
(* lemma takes one use case and one part of it.                            *)
(***************************************************************************)
EXTENDS ShopLedger, TLAPS

USE DEF Cart, Line, Order, Item, Attempt

\* The initial tables are the seeded ones, which the assumptions describe.
LEMMA InitIsConsistent == Init => Consistent
<1> SUFFICES ASSUME Init PROVE Consistent
  OBVIOUS
<1> USE DEF Init
<1>1. TypeOK
  BY SeedIsTyped DEF TypeOK
<1>2. PrimaryKeys(carts, lines, orders) /\ ForeignKeys(carts, lines, orders, attempts, paid)
  BY SeedHasKeys
<1>3. OneActiveCart /\ CartOrderedWhole /\ ItemsMatchLines
  BY SeedIsConsistent DEF OneActiveCart, CartOrderedWhole, ItemsMatchLines
<1>4. PaidIffSucceeded
  BY DEF PaidIffSucceeded
<1> QED
  BY <1>1, <1>2, <1>3, <1>4 DEF Consistent

-----------------------------------------------------------------------------
(* CartService. *)

\* The cart of an add or a read is the buyer's active one, or one with a fresh
\* name opened because the buyer had none.
LEMMA CartToUseCases ==
  ASSUME NEW who \in Customer, NEW id \in Id, NEW c \in CartToUse(who, id)
  PROVE  \/ c \in ActiveCarts(who)
         \/ /\ c = [id |-> id, customer |-> who]
            /\ ActiveCarts(who) = {}
            /\ Fresh(id, carts)
  BY DEF CartToUse

\* Opening a cart when the buyer has none keeps the tables consistent.
LEMMA NewCart ==
  ASSUME Consistent, NEW who \in Customer, NEW id \in Id, NEW c,
         c = [id |-> id, customer |-> who], ActiveCarts(who) = {}, Fresh(id, carts)
  PROVE  /\ carts \cup {c} \subseteq Cart
         /\ PrimaryKeys(carts \cup {c}, lines, orders)
         /\ ForeignKeys(carts \cup {c}, lines, orders, attempts, paid)
         /\ AtMostOneActive(carts \cup {c}, lines, items)
         /\ ItemsMatch(carts \cup {c}, lines, orders, items)
         /\ \A l \in lines : l.cart # id
<1> DEFINE C == carts \cup {c}
<1>1. C \subseteq Cart
  BY DEF Consistent, TypeOK, Typed
<1>2. PrimaryKeys(C, lines, orders)
  BY DEF Consistent, PrimaryKeys, Fresh
<1>3. ForeignKeys(C, lines, orders, attempts, paid)
  BY DEF Consistent, ForeignKeys
<1>4. AtMostOneActive(C, lines, items)
  BY DEF Consistent, OneActiveCart, AtMostOneActive, ActiveCarts, IsActive
<1>5. ItemsMatch(C, lines, orders, items)
  BY DEF Consistent, ItemsMatchLines, ItemsMatch
<1>6. \A l \in lines : l.cart # id
  BY DEF Consistent, ForeignKeys, Fresh
<1> QED
  BY <1>1, <1>2, <1>3, <1>4, <1>5, <1>6

\* Reading the cart keeps the tables consistent: it opens a cart only for a
\* buyer who has none.
LEMMA GetCartKeeps ==
  ASSUME Consistent, NEW who \in Customer, NEW id \in Id, GetCart(who, id)
  PROVE  Consistent'
<1>1. PICK c \in CartToUse(who, id) :
        /\ carts' = carts \cup {c}
        /\ UNCHANGED <<lines, orders, items, attempts, paid>>
  BY DEF GetCart
<1>2. CASE c \in ActiveCarts(who)
  <2>1. UNCHANGED vars
    BY <1>1, <1>2 DEF ActiveCarts, vars
  <2> QED
    BY <2>1 DEF vars, Consistent, TypeOK, OneActiveCart, CartOrderedWhole, ItemsMatchLines,
                PaidIffSucceeded
<1>3. CASE c \notin ActiveCarts(who)
  <2>1. c = [id |-> id, customer |-> who] /\ ActiveCarts(who) = {} /\ Fresh(id, carts)
    BY <1>3, CartToUseCases
  <2> HIDE DEF Cart
  <2> QED
    BY <1>1, <2>1, NewCart
    DEF Consistent, TypeOK, Typed, OneActiveCart, CartOrderedWhole, ItemsMatchLines, PaidIffSucceeded
<1> QED
  BY <1>2, <1>3

\* A line no item names can be added to an active cart.
LEMMA AddToActive ==
  ASSUME Consistent, NEW C, NEW c \in C, C \subseteq Cart, carts \subseteq C, NEW id \in Id,
         NEW v \in Variant, NEW q \in Quantity, NEW l,
         l = [id |-> id, cart |-> c.id, variant |-> v, quantity |-> q],
         PrimaryKeys(C, lines, orders), ForeignKeys(C, lines, orders, attempts, paid),
         AtMostOneActive(C, lines, items), ItemsMatch(C, lines, orders, items),
         Active(lines, items, c.id), \A m \in lines : m.id # id
  PROVE  /\ lines \cup {l} \subseteq Line
         /\ PrimaryKeys(C, lines \cup {l}, orders)
         /\ ForeignKeys(C, lines \cup {l}, orders, attempts, paid)
         /\ AtMostOneActive(C, lines \cup {l}, items)
         /\ OrderedWhole(lines \cup {l}, items)
         /\ ItemsMatch(C, lines \cup {l}, orders, items)
<1> DEFINE L == lines \cup {l}
<1> HIDE DEF Cart
<1>1. L \subseteq Line
  BY DEF Consistent, TypeOK, Typed, Cart
<1>2. PrimaryKeys(C, L, orders)
  BY DEF PrimaryKeys
<1>3. ForeignKeys(C, L, orders, attempts, paid)
  BY DEF ForeignKeys
<1>4. ~Ordered(items, id)
  BY DEF ItemsMatch, Ordered
<1>5. AtMostOneActive(C, L, items)
  BY DEF AtMostOneActive, Active
<1>6. OrderedWhole(L, items)
  <2> SUFFICES ASSUME NEW i \in items, NEW l1 \in L, NEW l2 \in L, i.line = l1.id, l1.cart = l2.cart
               PROVE  \E j \in items : j.line = l2.id /\ j.order = i.order
    BY DEF OrderedWhole
  <2>1. l1 \in lines
    BY <1>4 DEF Ordered
  <2>2. l1.cart # c.id
    BY <2>1 DEF Active, Ordered
  <2>3. l2 \in lines
    BY <2>2
  <2> QED
    BY <2>1, <2>3 DEF Consistent, CartOrderedWhole, OrderedWhole
<1>7. ItemsMatch(C, L, orders, items)
  BY DEF ItemsMatch
<1> QED
  BY <1>1, <1>2, <1>3, <1>5, <1>6, <1>7

\* A line added for a variant the cart does not have joins an active cart.
LEMMA AddNewLineKeeps ==
  ASSUME Consistent, NEW who \in Customer, NEW id \in Id, NEW v \in Variant, NEW q \in Quantity,
         AddNewLine(who, id, v, q)
  PROVE  Consistent'
<1>1. PICK c \in CartToUse(who, id) :
        /\ Fresh(id, lines)
        /\ carts' = carts \cup {c}
        /\ lines' = lines \cup {[id |-> id, cart |-> c.id, variant |-> v, quantity |-> q]}
        /\ UNCHANGED <<orders, items, attempts, paid>>
  BY DEF AddNewLine
<1> DEFINE C == carts \cup {c}
           l == [id |-> id, cart |-> c.id, variant |-> v, quantity |-> q]
<1>2. /\ C \subseteq Cart
      /\ PrimaryKeys(C, lines, orders)
      /\ ForeignKeys(C, lines, orders, attempts, paid)
      /\ AtMostOneActive(C, lines, items)
      /\ ItemsMatch(C, lines, orders, items)
      /\ Active(lines, items, c.id)
  <2>1. CASE c \in ActiveCarts(who)
    <3>1. C = carts
      BY <2>1 DEF ActiveCarts
    <3> QED
      BY <2>1, <3>1 DEF ActiveCarts, IsActive, Consistent, TypeOK, Typed, OneActiveCart, ItemsMatchLines
  <2>2. CASE c \notin ActiveCarts(who)
    <3>1. c = [id |-> id, customer |-> who] /\ ActiveCarts(who) = {} /\ Fresh(id, carts)
      BY <2>2, CartToUseCases
    <3>2. Active(lines, items, c.id)
      BY <3>1, NewCart DEF Active
    <3> HIDE DEF Cart
    <3> QED
      BY <3>1, <3>2, NewCart
  <2> QED
    BY <2>1, <2>2
<1>3. /\ lines' \subseteq Line
      /\ PrimaryKeys(C, lines', orders)
      /\ ForeignKeys(C, lines', orders, attempts, paid)
      /\ AtMostOneActive(C, lines', items)
      /\ OrderedWhole(lines', items)
      /\ ItemsMatch(C, lines', orders, items)
  <2>1. \A m \in lines : m.id # id
    BY <1>1 DEF Fresh
  <2> HIDE DEF Cart, Line
  <2> QED
    BY <1>1, <1>2, <2>1, AddToActive
<1> HIDE DEF Cart, Line
<1> QED
  BY <1>1, <1>2, <1>3
  DEF Consistent, TypeOK, Typed, OneActiveCart, CartOrderedWhole, ItemsMatchLines, PaidIffSucceeded

\* Only a line of an active cart can be rewritten or removed, so no item names
\* it, and carts stay as ordered or as active as they were.
LEMMA TouchedLineIsOpen ==
  ASSUME Consistent, NEW who \in Customer, NEW c \in ActiveCarts(who), NEW l \in lines, l.cart = c.id
  PROVE  ~IsOrdered(l.id)
  BY DEF ActiveCarts, IsActive, Active, IsOrdered

\* A line is only rewritten while no item names it, so no item disagrees with it.
LEMMA SetQuantityKeeps ==
  ASSUME Consistent, NEW who \in Customer, NEW l \in lines, NEW q \in Quantity,
         SetQuantity(who, l, q)
  PROVE  Consistent'
<1>1. PICK c \in ActiveCarts(who) :
        /\ l.cart = c.id
        /\ lines' = (lines \ {l}) \cup {[l EXCEPT !.quantity = q]}
        /\ UNCHANGED <<carts, orders, items, attempts, paid>>
  BY DEF SetQuantity
<1> DEFINE n == [l EXCEPT !.quantity = q]
<1>2. l \in Line
  BY DEF Consistent, TypeOK, Typed
<1>3. n \in Line /\ n.id = l.id /\ n.cart = l.cart
  BY <1>2
<1>4. ~Ordered(items, l.id)
  BY <1>1, TouchedLineIsOpen DEF IsOrdered
<1> HIDE DEF n
<1>5. lines' = (lines \ {l}) \cup {n}
  BY <1>1 DEF n
<1>6. TypeOK'
  BY <1>1, <1>3, <1>5 DEF Consistent, TypeOK, Typed
<1>7. PrimaryKeys(carts, lines, orders)'
  BY <1>1, <1>3, <1>5 DEF Consistent, PrimaryKeys
<1>8. ForeignKeys(carts, lines, orders, attempts, paid)'
  BY <1>1, <1>3, <1>5 DEF Consistent, ForeignKeys
<1>9. OneActiveCart'
  <2>1. \A x : Active(lines, items, x)' => Active(lines, items, x)
    BY <1>1, <1>3, <1>4, <1>5 DEF Active
  <2> QED
    BY <1>1, <2>1 DEF Consistent, OneActiveCart, AtMostOneActive
<1>10. CartOrderedWhole'
  <2> SUFFICES ASSUME NEW i \in items, NEW l1 \in lines', NEW l2 \in lines', i.line = l1.id, l1.cart = l2.cart
               PROVE  \E j \in items : j.line = l2.id /\ j.order = i.order
    BY <1>1 DEF CartOrderedWhole, OrderedWhole
  <2>1. PICK m2 \in lines : m2.id = l2.id /\ m2.cart = l2.cart
    BY <1>3, <1>5
  <2>2. l1 \in lines
    BY <1>3, <1>4, <1>5 DEF Ordered
  <2> QED
    BY <2>1, <2>2 DEF Consistent, CartOrderedWhole, OrderedWhole
<1>11. ItemsMatchLines'
  <2> SUFFICES ASSUME NEW i \in items
               PROVE  \E m \in lines', d \in carts, o \in orders :
                        /\ i.line = m.id
                        /\ i.volume = m.quantity
                        /\ m.cart = d.id
                        /\ i.order = o.id
                        /\ o.customer = d.customer
    BY <1>1 DEF ItemsMatchLines, ItemsMatch
  <2>1. PICK m \in lines, d \in carts, o \in orders :
          /\ i.line = m.id
          /\ i.volume = m.quantity
          /\ m.cart = d.id
          /\ i.order = o.id
          /\ o.customer = d.customer
    BY DEF Consistent, ItemsMatchLines, ItemsMatch
  <2>2. m \in lines'
    BY <1>4, <1>5, <2>1 DEF Ordered
  <2> QED
    BY <2>1, <2>2
<1>12. PaidIffSucceeded'
  BY <1>1 DEF Consistent, PaidIffSucceeded
<1> QED
  BY <1>1, <1>6, <1>7, <1>8, <1>9, <1>10, <1>11, <1>12 DEF Consistent

\* A line is only removed while no item names it, so no item loses its line.
LEMMA DeleteItemKeeps ==
  ASSUME Consistent, NEW who \in Customer, NEW l \in lines, DeleteItem(who, l)
  PROVE  Consistent'
<1>1. PICK c \in ActiveCarts(who) :
        /\ l.cart = c.id
        /\ lines' = lines \ {l}
        /\ UNCHANGED <<carts, orders, items, attempts, paid>>
  BY DEF DeleteItem
<1>2. ~Ordered(items, l.id)
  BY <1>1, TouchedLineIsOpen DEF IsOrdered
<1>3. TypeOK'
  BY <1>1 DEF Consistent, TypeOK, Typed
<1>4. PrimaryKeys(carts, lines, orders)'
  BY <1>1 DEF Consistent, PrimaryKeys
<1>5. ForeignKeys(carts, lines, orders, attempts, paid)'
  BY <1>1 DEF Consistent, ForeignKeys
<1>6. OneActiveCart'
  <2>1. \A x : Active(lines, items, x)' => Active(lines, items, x)
    BY <1>1, <1>2 DEF Active
  <2> QED
    BY <1>1, <2>1 DEF Consistent, OneActiveCart, AtMostOneActive
<1>7. CartOrderedWhole'
  BY <1>1 DEF Consistent, CartOrderedWhole, OrderedWhole
<1>8. ItemsMatchLines'
  BY <1>1, <1>2 DEF Consistent, ItemsMatchLines, ItemsMatch, Ordered
<1>9. PaidIffSucceeded'
  BY <1>1 DEF Consistent, PaidIffSucceeded
<1> QED
  BY <1>1, <1>3, <1>4, <1>5, <1>6, <1>7, <1>8, <1>9 DEF Consistent

-----------------------------------------------------------------------------
(* OrderService. *)

\* A cart with an open line has no ordered line: checkout takes all of it.
LEMMA OpenCartIsUnordered ==
  ASSUME Consistent, NEW c, OpenLines(c) # {}, NEW m \in lines, m.cart = c
  PROVE  m \in OpenLines(c)
<1>1. PICK k \in lines : k.cart = c /\ ~IsOrdered(k.id)
  BY DEF OpenLines
<1>2. ~IsOrdered(m.id)
  BY <1>1 DEF Consistent, CartOrderedWhole, OrderedWhole, IsOrdered, Ordered
<1> QED
  BY <1>2 DEF OpenLines

\* Checkout turns one active cart into one order, with an item for every line.
LEMMA CreateOrderKeeps ==
  ASSUME Consistent, NEW who \in Customer, NEW id \in Id, NEW c \in carts, CreateOrder(who, id, c)
  PROVE  Consistent'
<1> DEFINE o == [id |-> id, customer |-> who]
           new == {[line |-> l.id, order |-> id, volume |-> l.quantity] : l \in OpenLines(c.id)}
<1>1. /\ c.customer = who
      /\ OpenLines(c.id) # {}
      /\ Fresh(id, orders)
      /\ orders' = orders \cup {o}
      /\ items' = items \cup new
      /\ UNCHANGED <<carts, lines, attempts, paid>>
  BY DEF CreateOrder
<1>2. \A i \in new : \E l \in OpenLines(c.id) :
        i.line = l.id /\ i.order = id /\ i.volume = l.quantity
  OBVIOUS
<1>3. \A l \in OpenLines(c.id) : \E i \in new : i.line = l.id /\ i.order = id
  <2> SUFFICES ASSUME NEW l \in OpenLines(c.id) PROVE \E i \in new : i.line = l.id /\ i.order = id
    OBVIOUS
  <2> DEFINE n == [line |-> l.id, order |-> id, volume |-> l.quantity]
  <2>1. n \in new
    OBVIOUS
  <2>2. n.line = l.id /\ n.order = id
    OBVIOUS
  <2> QED
    BY <2>1, <2>2
<1>4. TypeOK'
  <2>1. new \subseteq Item
    BY DEF OpenLines, Consistent, TypeOK, Typed
  <2>2. o \in Order
    OBVIOUS
  <2> HIDE DEF o, new, Cart, Line, Order, Item, Attempt
  <2> QED
    BY <1>1, <2>1, <2>2 DEF Consistent, TypeOK, Typed
<1>5. o.id = id /\ o.customer = who
  OBVIOUS
<1> HIDE DEF o, new
<1>6. PrimaryKeys(carts, lines, orders)'
  BY <1>1, <1>5 DEF Consistent, PrimaryKeys, Fresh
<1>7. ForeignKeys(carts, lines, orders, attempts, paid)'
  BY <1>1 DEF Consistent, ForeignKeys
<1>8. OneActiveCart'
  <2>1. \A x : Active(lines, items, x)' => Active(lines, items, x)
    BY <1>1 DEF Active, Ordered
  <2> QED
    BY <1>1, <2>1 DEF Consistent, OneActiveCart, AtMostOneActive
<1>9. CartOrderedWhole'
  <2> SUFFICES ASSUME NEW i \in items', NEW l1 \in lines, NEW l2 \in lines, i.line = l1.id, l1.cart = l2.cart
               PROVE  \E j \in items' : j.line = l2.id /\ j.order = i.order
    BY <1>1 DEF CartOrderedWhole, OrderedWhole
  <2>1. CASE i \in items
    BY <1>1, <2>1 DEF Consistent, CartOrderedWhole, OrderedWhole
  <2>2. CASE i \in new
    <3>1. PICK l \in OpenLines(c.id) : i.line = l.id /\ i.order = id
      BY <1>2, <2>2
    <3>2. l1.cart = c.id
      BY <3>1 DEF OpenLines, Consistent, PrimaryKeys
    <3>3. l2 \in OpenLines(c.id)
      BY <1>1, <3>2, OpenCartIsUnordered
    <3> QED
      BY <1>1, <1>3, <3>1, <3>3
  <2> QED
    BY <1>1, <2>1, <2>2
<1>10. ItemsMatchLines'
  <2> SUFFICES ASSUME NEW i \in items'
               PROVE  \E l \in lines, d \in carts, p \in orders' :
                        /\ i.line = l.id
                        /\ i.volume = l.quantity
                        /\ l.cart = d.id
                        /\ i.order = p.id
                        /\ p.customer = d.customer
    BY <1>1 DEF ItemsMatchLines, ItemsMatch
  <2>1. CASE i \in items
    BY <1>1, <2>1 DEF Consistent, ItemsMatchLines, ItemsMatch
  <2>2. CASE i \in new
    BY <1>1, <1>2, <1>5, <2>2 DEF OpenLines
  <2> QED
    BY <1>1, <2>1, <2>2
<1>11. PaidIffSucceeded'
  <2>1. id \notin paid /\ \A a \in attempts : a.order # id
    BY <1>1 DEF Consistent, ForeignKeys, Fresh
  <2> QED
    BY <1>1, <1>5, <2>1 DEF Consistent, PaidIffSucceeded
<1>12. SeedOrders \subseteq orders'
  BY <1>1 DEF Consistent
<1> QED
  BY <1>1, <1>4, <1>6, <1>7, <1>8, <1>9, <1>10, <1>11, <1>12 DEF Consistent

-----------------------------------------------------------------------------
(* PaymentService. *)

\* An attempt pays the order when it succeeds, and is only made while the order
\* is unpaid.
LEMMA CreateAttemptKeeps ==
  ASSUME Consistent, NEW who \in Customer, NEW o \in orders, NEW k \in Key, NEW out \in Outcome,
         CreateAttempt(who, o, k, out)
  PROVE  Consistent'
<1> DEFINE t == [order |-> o.id, key |-> k, outcome |-> out]
<1>1. /\ o.id \notin paid
      /\ attempts' = attempts \cup {t}
      /\ paid' = IF out = Succeeded THEN paid \cup {o.id} ELSE paid
      /\ UNCHANGED <<carts, lines, orders, items>>
  BY DEF CreateAttempt
<1>2. t.order = o.id /\ t.outcome = out
  OBVIOUS
<1>3. o.id \in Id
  BY DEF Consistent, TypeOK, Typed
<1>4. t \in Attempt
  BY <1>3
<1> HIDE DEF t
<1>5. TypeOK'
  BY <1>1, <1>3, <1>4 DEF Consistent, TypeOK, Typed
<1>6. PrimaryKeys(carts, lines, orders)'
  BY <1>1 DEF Consistent
<1>7. ForeignKeys(carts, lines, orders, attempts, paid)'
  BY <1>1, <1>2 DEF Consistent, ForeignKeys
<1>8. OneActiveCart' /\ CartOrderedWhole' /\ ItemsMatchLines'
  BY <1>1 DEF Consistent, OneActiveCart, CartOrderedWhole, ItemsMatchLines
<1>9. PaidIffSucceeded'
  <2> SUFFICES ASSUME NEW p \in orders \ SeedOrders
               PROVE  /\ p.id \in paid' <=> \E a \in attempts' : a.order = p.id /\ a.outcome = Succeeded
                      /\ \A a, b \in attempts' :
                           /\ a.order = p.id /\ b.order = p.id
                           /\ a.outcome = Succeeded /\ b.outcome = Succeeded
                           => a = b
    BY <1>1 DEF PaidIffSucceeded
  <2>1. /\ p.id \in paid <=> \E a \in attempts : a.order = p.id /\ a.outcome = Succeeded
        /\ \A a, b \in attempts :
             /\ a.order = p.id /\ b.order = p.id
             /\ a.outcome = Succeeded /\ b.outcome = Succeeded
             => a = b
    BY DEF Consistent, PaidIffSucceeded
  <2>2. CASE p.id = o.id
    BY <1>1, <1>2, <2>1, <2>2
  <2>3. CASE p.id # o.id
    BY <1>1, <1>2, <2>1, <2>3
  <2> QED
    BY <2>2, <2>3
<1> QED
  BY <1>1, <1>5, <1>6, <1>7, <1>8, <1>9 DEF Consistent

-----------------------------------------------------------------------------
(* The theorems. *)

\* Every use case, and doing nothing, keeps the tables consistent.
LEMMA NextKeeps == Consistent /\ [Next]_vars => Consistent'
<1> SUFFICES ASSUME Consistent, [Next]_vars PROVE Consistent'
  OBVIOUS
<1> HIDE DEF Cart, Line, Order, Item, Attempt
<1>1. CASE Next
  <2> SUFFICES ASSUME NEW who \in Customer,
                      \/ \E id \in Id : GetCart(who, id)
                      \/ \E id \in Id, v \in Variant, q \in Quantity : AddNewLine(who, id, v, q)
                      \/ \E l \in lines, q \in Quantity : SetQuantity(who, l, q)
                      \/ \E l \in lines : DeleteItem(who, l)
                      \/ \E id \in Id, c \in carts : CreateOrder(who, id, c)
                      \/ \E o \in orders, k \in Key, out \in Outcome : CreateAttempt(who, o, k, out)
               PROVE  Consistent'
    BY <1>1 DEF Next
  <2> QED
    BY GetCartKeeps, AddNewLineKeeps, SetQuantityKeeps, DeleteItemKeeps, CreateOrderKeeps,
       CreateAttemptKeeps
<1>2. CASE UNCHANGED vars
  BY <1>2 DEF vars, Consistent, TypeOK, OneActiveCart, CartOrderedWhole, ItemsMatchLines,
              PaidIffSucceeded
<1> QED
  BY <1>1, <1>2

\* The tables stay consistent for ever: the inductive invariant.
THEOREM AlwaysConsistent == Spec => []Consistent
<1>1. Init => Consistent
  BY InitIsConsistent
<1>2. Consistent /\ [Next]_vars => Consistent'
  BY NextKeeps
<1> QED
  BY <1>1, <1>2, PTL DEF Spec

\* Every table keeps its type.
THEOREM AlwaysTyped == Spec => []TypeOK
<1>1. Consistent => TypeOK
  BY DEF Consistent
<1> QED
  BY <1>1, AlwaysConsistent, PTL

\* A buyer never has two active carts.
THEOREM AlwaysOneActiveCart == Spec => []OneActiveCart
<1>1. Consistent => OneActiveCart
  BY DEF Consistent
<1> QED
  BY <1>1, AlwaysConsistent, PTL

\* A cart is ordered whole, by one order, or not at all.
THEOREM AlwaysOrderedWhole == Spec => []CartOrderedWhole
<1>1. Consistent => CartOrderedWhole
  BY DEF Consistent
<1> QED
  BY <1>1, AlwaysConsistent, PTL

\* The lines an order was made from keep saying what was ordered.
THEOREM AlwaysItemsMatch == Spec => []ItemsMatchLines
<1>1. Consistent => ItemsMatchLines
  BY DEF Consistent
<1> QED
  BY <1>1, AlwaysConsistent, PTL

\* An order made through the API is paid exactly when one attempt succeeded,
\* and by one attempt only.
THEOREM AlwaysPaidIffSucceeded == Spec => []PaidIffSucceeded
<1>1. Consistent => PaidIffSucceeded
  BY DEF Consistent
<1> QED
  BY <1>1, AlwaysConsistent, PTL

\* No step changes or removes a cart line that an order names.
THEOREM OrderedLinesStay == Spec => OrderedLinesFrozen
<1>1. Consistent /\ [Next]_vars => [\A l \in lines : IsOrdered(l.id) => l \in lines']_vars
  <2> SUFFICES ASSUME Consistent, Next, NEW m \in lines, IsOrdered(m.id)
               PROVE  m \in lines'
    OBVIOUS
  <2> HIDE DEF Cart, Line, Order, Item, Attempt
  <2>1. PICK who \in Customer :
          \/ \E id \in Id : GetCart(who, id)
          \/ \E id \in Id, v \in Variant, q \in Quantity : AddNewLine(who, id, v, q)
          \/ \E l \in lines, q \in Quantity : SetQuantity(who, l, q)
          \/ \E l \in lines : DeleteItem(who, l)
          \/ \E id \in Id, c \in carts : CreateOrder(who, id, c)
          \/ \E o \in orders, k \in Key, out \in Outcome : CreateAttempt(who, o, k, out)
    BY DEF Next
  <2>2. CASE \E l \in lines, q \in Quantity : SetQuantity(who, l, q)
    BY <2>2, TouchedLineIsOpen DEF SetQuantity
  <2>3. CASE \E l \in lines : DeleteItem(who, l)
    BY <2>3, TouchedLineIsOpen DEF DeleteItem
  <2>4. CASE \E id \in Id : GetCart(who, id)
    BY <2>4 DEF GetCart
  <2>5. CASE \E id \in Id, v \in Variant, q \in Quantity : AddNewLine(who, id, v, q)
    BY <2>5 DEF AddNewLine
  <2>6. CASE \E id \in Id, c \in carts : CreateOrder(who, id, c)
    BY <2>6 DEF CreateOrder
  <2>7. CASE \E o \in orders, k \in Key, out \in Outcome : CreateAttempt(who, o, k, out)
    BY <2>7 DEF CreateAttempt
  <2> QED
    BY <2>1, <2>2, <2>3, <2>4, <2>5, <2>6, <2>7
<1> QED
  BY <1>1, AlwaysConsistent, PTL DEF Spec, OrderedLinesFrozen
=============================================================================
