------------------------------ MODULE ShopTurns ------------------------------
(***************************************************************************)
(* What is left of the promise of CustomerLockService when every statement *)
(* commits by itself (Shop.tla): the lock does not keep the requests of a  *)
(* buyer apart, but a client that sends one request at a time does.        *)
(*                                                                         *)
(* Two assumptions about the world around the service, and none about its  *)
(* code:                                                                   *)
(*   - a buyer's next transaction is opened when the last has ended; the   *)
(*     requests of different buyers overlap as they like;                  *)
(*   - no request dies between the statements of a checkout's inserts, nor *)
(*     between an attempt and its payment.  It may die anywhere else.      *)
(* The README says what goes wrong without the one or the other.           *)
(*                                                                         *)
(* Then the services implement ShopLedger: every use case takes effect in  *)
(* one statement.  For most that is the one that writes; an order and its  *)
(* items count when the last item is in, a successful attempt when its     *)
(* payment is, and until then the mapping hides them.                      *)
(***************************************************************************)
EXTENDS Shop

Open(r) == pc[r] \in Statement \cup {"lock"}

OneAtATime ==
  \A r1, r2 \in Request : Open(r1) /\ Open(r2) /\ Buyer(r1) = Buyer(r2) => r1 = r2

\* Between the inserts of an order, or of a successful attempt and its payment.
HalfWay(r) == pc[r] \in {"insertOrderItem", "insertPayment"}

HalvesGoOn == \A r \in Request : HalfWay(r) => pc'[r] \notin {"timeout", "aborted"}

NextInTurn == Next /\ OneAtATime' /\ HalvesGoOn

TurnsSpec == Init /\ [][NextInTurn]_vars

-----------------------------------------------------------------------------
(* The tables as the ledger sees them. *)

\* An order whose items are not all in, an attempt whose payment is not.
Unfinished(name, statement) == name \in Request /\ pc[name] = statement

LedgerCarts(d) == {[id |-> c.id, customer |-> c.customer] : c \in d.cart}

LedgerLines(d) ==
  {[id |-> p[1].id, cart |-> p[1].cart, variant |-> p[2].variant, quantity |-> p[2].quantity] :
     p \in {q \in d.cartItem \X d.itemStock : q[2].item = q[1].id}}

LedgerOrders(d) ==
  {[id |-> o.id, customer |-> o.customer] :
     o \in {x \in d.order : ~Unfinished(x.id, "insertOrderItem")}}

LedgerItems(d) == {oi \in d.orderItem : ~Unfinished(oi.order, "insertOrderItem")}

LedgerAttempts(d) ==
  {[order |-> a.order, key |-> a.key, outcome |-> a.outcome] :
     a \in {x \in d.attempt : ~Unfinished(x.id, "insertPayment")}}

LedgerPaid(d) == {p.order : p \in d.payment}

SeedCarts == LedgerCarts(SeedDb)
SeedLines == LedgerLines(SeedDb)
SeedOrders == {[id |-> o.id, customer |-> o.customer] : o \in SeedDb.order}
SeedItems == SeedDb.orderItem
SeedAttempts == {[order |-> a.order, key |-> a.key, outcome |-> a.outcome] : a \in SeedDb.attempt}
SeedPaid == LedgerPaid(SeedDb)

Ledger == INSTANCE ShopLedger WITH
  carts    <- LedgerCarts(db),
  lines    <- LedgerLines(db),
  orders   <- LedgerOrders(db),
  items    <- LedgerItems(db),
  attempts <- LedgerAttempts(db),
  paid     <- LedgerPaid(db)

ASSUME SeedIsALedger ==
  /\ Ledger!AtMostOneActive(SeedCarts, SeedLines, SeedItems)
  /\ Ledger!OrderedWhole(SeedLines, SeedItems)
  /\ Ledger!ItemsMatch(SeedCarts, SeedLines, SeedOrders, SeedItems)

-----------------------------------------------------------------------------
(* Correctness. *)

\* A buyer who sends one request at a time gets what the lock was meant for,
\* whatever the other buyers do meanwhile: every statement is one use case of
\* the ledger or changes nothing of it.
UndisturbedUseCases == Ledger!Spec

\* The checks such a request makes are enough: no statement of it runs into a
\* UNIQUE or FOREIGN KEY constraint, which the API would answer with a 500,
\* and the ON CONFLICT clause of insertAttempt never has to act.
UndisturbedNeverFail == \A r \in Request : pc[r] \notin {"error", "replay"}
=============================================================================
