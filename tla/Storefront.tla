----------------------------- MODULE Storefront -----------------------------
(***************************************************************************)
(* The backend as the scenario runners see it: what each request answers   *)
(* and what it leaves behind, and the steps a scenario is made of.         *)
(* QaScenarios.tla and K6Pack.tla are the scenarios.                       *)
(*                                                                         *)
(* A request is one step.  Nothing in the backend makes it one (Shop.tla): *)
(* two requests of one buyer that overlap may do worse than here.  A run   *)
(* of scenarios that keeps each buyer to itself has no such two.           *)
(*                                                                         *)
(* Rows are numbered in the order of their creation, the seeded ones from  *)
(* 1; a number is never used twice, as a UUID is not.  Of the carts only   *)
(* the active one of each buyer is kept: the others answer as an unknown   *)
(* one does.                                                               *)
(***************************************************************************)
EXTENDS Integers, Sequences, FiniteSets, SequencesExt

CONSTANT MaxQuantity    \* CART_ITEM_MAX_QUANTITY
ASSUME MaxQuantityAssumption == MaxQuantity \in Nat \ {0}

One == "one"    \* the seeded buyers
Two == "two"
Buyer == {One, Two}

-----------------------------------------------------------------------------
(* The shop: [seeded, cart, lines, orders, next]. *)

\* Between the last deleteMany and the first createMany of a reset.
Wiped(next) ==
    [seeded |-> FALSE, cart |-> [b \in Buyer |-> 0], lines |-> [b \in Buyer |-> <<>>],
     orders |-> {}, next |-> next]

\* Buyer one has a cart with a notebook, buyer two none; each has an order.
Seeded(next) ==
    [seeded |-> TRUE,
     cart   |-> [b \in Buyer |-> IF b = One THEN 1 ELSE 0],
     lines  |-> [b \in Buyer |-> IF b = One THEN <<[id |-> 1, variant |-> "notebook", quantity |-> 1]>> ELSE <<>>],
     orders |-> {[id |-> 1, owner |-> One, state |-> "paid"], [id |-> 2, owner |-> Two, state |-> "payment_failed"]},
     next   |-> next]

\* Where a reset that is refused or killed may leave the shop (SeedReset.tla): the deletes take the lines, the orders,
\* the carts and all else, in this order, and the inserts bring back the products and the customers first.
Unfinished(shop, at) ==
    LET noLines  == [shop EXCEPT !.lines = [b \in Buyer |-> <<>>]]
        noOrders == [noLines EXCEPT !.orders = {}]
        noCarts  == [noOrders EXCEPT !.cart = [b \in Buyer |-> 0]]
    IN  IF at = "wipe" THEN {shop, noLines, noOrders, noCarts, Wiped(shop.next)}
        ELSE {shop, [shop EXCEPT !.seeded = TRUE]}

Reply(shop, answer) == [shop |-> shop, answer |-> answer]
Refuse(shop, status) == Reply(shop, [status |-> status])

\* What the cart endpoints answer; assertions look at the first line only.
CartView(shop, who, status) ==
    IF shop.lines[who] = <<>>
    THEN [status |-> status, owner |-> who, cart |-> shop.cart[who]]
    ELSE LET first == Head(shop.lines[who])
         IN  [status |-> status, owner |-> who, cart |-> shop.cart[who],
              line |-> first.id, variant |-> first.variant, quantity |-> first.quantity]

ReplyCart(shop, who, status) == Reply(shop, CartView(shop, who, status))

EnsureActiveCart(shop, who) ==
    IF shop.cart[who] # 0 THEN shop
    ELSE [shop EXCEPT !.cart[who] = shop.next, !.next = @ + 1]

\* Without its customers the shop can store no cart: the foreign key refuses it.
GetCart(shop, who) ==
    IF shop.seeded THEN ReplyCart(EnsureActiveCart(shop, who), who, 200) ELSE Refuse(shop, 500)

Place(shop, who, P(_)) == { i \in DOMAIN shop.lines[who] : P(shop.lines[who][i]) }

AddItem(shop, who, variant) ==
    LET open == EnsureActiveCart(shop, who)
        held == Place(open, who, LAMBDA l : l.variant = variant)
    IN  IF ~shop.seeded THEN Refuse(shop, 500)
        ELSE IF held = {}
        THEN ReplyCart([open EXCEPT !.lines[who] = Append(@, [id |-> open.next, variant |-> variant, quantity |-> 1]),
                                    !.next = @ + 1], who, 201)
        ELSE LET i == CHOOSE i \in held : TRUE
             IN  IF open.lines[who][i].quantity = MaxQuantity THEN Refuse(shop, 400)
                 ELSE ReplyCart([open EXCEPT !.lines[who][i].quantity = @ + 1], who, 201)

UpdateItem(shop, who, line, quantity) ==
    LET held == Place(shop, who, LAMBDA l : l.id = line)
    IN  IF quantity \notin 1..MaxQuantity THEN Refuse(shop, 400)
        ELSE IF held = {} THEN Refuse(shop, 404)
        ELSE ReplyCart([shop EXCEPT !.lines[who][CHOOSE i \in held : TRUE].quantity = quantity], who, 200)

DeleteItem(shop, who, line) ==
    LET held == Place(shop, who, LAMBDA l : l.id = line)
    IN  IF held = {} THEN Refuse(shop, 404)
        ELSE ReplyCart([shop EXCEPT !.lines[who] = RemoveAt(@, CHOOSE i \in held : TRUE)], who, 200)

\* An unknown cart, one already ordered and an empty one answer alike.
CreateOrder(shop, who, cart) ==
    IF cart # shop.cart[who] \/ shop.lines[who] = <<>> THEN Refuse(shop, 409)
    ELSE Reply([shop EXCEPT !.orders = @ \cup {[id |-> shop.next, owner |-> who, state |-> "pending_payment"]},
                            !.cart[who] = 0, !.lines[who] = <<>>, !.next = @ + 1],
               [status |-> 201, order |-> shop.next, state |-> "pending_payment"])

Owned(shop, who, order) == { o \in shop.orders : o.id = order /\ o.owner = who }

\* Every attempt of a scenario has a request key of its own.
CreateAttempt(shop, who, order, outcome) ==
    IF outcome = "fail_without_code" THEN Refuse(shop, 400)
    ELSE IF Owned(shop, who, order) = {} THEN Refuse(shop, 404)
    ELSE LET o == CHOOSE o \in Owned(shop, who, order) : TRUE
         IN  IF o.state = "paid" THEN Refuse(shop, 409)
             ELSE Reply([shop EXCEPT !.orders = (@ \ {o}) \cup
                            {[o EXCEPT !.state = IF outcome = "success" THEN "paid" ELSE "payment_failed"]}],
                        [status |-> 201, attempt |-> IF outcome = "success" THEN "succeeded" ELSE "failed"])

GetOrder(shop, who, order) ==
    IF Owned(shop, who, order) = {} THEN Refuse(shop, 404)
    ELSE Reply(shop, [status |-> 200, state |-> (CHOOSE o \in Owned(shop, who, order) : TRUE).state])

-----------------------------------------------------------------------------
(* The requests that only read, and what they answer on the seeded shop (Catalogue.tla, with the rows *)
(* in the order they were inserted) and on the empty one. *)

SeededRead ==
    [health    |-> [status |-> 200], metrics |-> [status |-> 200],
     newest    |-> [status |-> 200, first |-> "notebook", total |-> 6],
     cheapest  |-> [status |-> 200, first |-> "sticker", total |-> 6],
     missing   |-> [status |-> 404],
     notebook  |-> [status |-> 200, first |-> "notebook", total |-> 1],
     nothing   |-> [status |-> 200, total |-> 0],
     short     |-> [status |-> 400],
     detail    |-> [status |-> 200, first |-> "notebook"],
     recommend |-> [status |-> 200, first |-> "mug"],
     too_many  |-> [status |-> 400], no_quantity |-> [status |-> 400],
     no_route  |-> [status |-> 404],
     no_buyer  |-> [status |-> 401]]

EmptyRead ==
    [SeededRead EXCEPT !.newest = SeededRead.nothing, !.cheapest = SeededRead.nothing,
                       !.notebook = SeededRead.nothing, !.detail = SeededRead.missing,
                       !.recommend = SeededRead.missing]

ReadAnswer(shop, call) == IF shop.seeded THEN SeededRead[call] ELSE EmptyRead[call]

-----------------------------------------------------------------------------
(* Steps.  A step names its row, the cart, line or order it is about, by a field of the answer to an *)
(* earlier step or by its seeded number; its value is a variant, a quantity or an outcome.           *)

From(of, field) == [of |-> of, field |-> field, given |-> 0]
Given(number) == [of |-> "", field |-> "", given |-> number]
NoRow == Given(0)

Step(id, call, who, row, value, expect) ==
    [id |-> id, call |-> call, who |-> who, row |-> row, value |-> value,
     fault |-> FALSE, optional |-> FALSE, expect |-> expect]
Read(call, expect) == Step(call, call, "", NoRow, "", expect)
Faulty(step) == [step EXCEPT !.fault = TRUE, !.expect = [status |-> 500]]

NoContext == [id \in {} |-> <<>>]

\* The function f with y for x, whether it had a value there or not.
With(f, x, y) == [z \in DOMAIN f \cup {x} |-> IF z = x THEN y ELSE f[z]]

IsResolved(step, context) ==
    step.row.of # "" => step.row.of \in DOMAIN context /\ step.row.field \in DOMAIN context[step.row.of]
Subject(step, context) == IF step.row.of # "" THEN context[step.row.of][step.row.field] ELSE step.row.given

\* What the backend makes of a step.
Send(shop, step, context) ==
    IF step.fault THEN Refuse(shop, 500)
    ELSE IF ~IsResolved(step, context) THEN Refuse(shop, 0)
    ELSE CASE step.call = "cart"   -> GetCart(shop, step.who)
           [] step.call = "add"    -> AddItem(shop, step.who, step.value)
           [] step.call = "update" -> UpdateItem(shop, step.who, Subject(step, context), step.value)
           [] step.call = "delete" -> DeleteItem(shop, step.who, Subject(step, context))
           [] step.call = "order"  -> CreateOrder(shop, step.who, Subject(step, context))
           [] step.call = "pay"    -> CreateAttempt(shop, step.who, Subject(step, context), step.value)
           [] step.call = "show"   -> GetOrder(shop, step.who, Subject(step, context))
           [] OTHER                -> Reply(shop, ReadAnswer(shop, step.call))

\* The assertions of a step on its answer.
Passes(step, answer) ==
    \A f \in DOMAIN step.expect : f \in DOMAIN answer /\ answer[f] = step.expect[f]
=============================================================================
