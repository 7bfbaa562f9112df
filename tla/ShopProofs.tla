----------------------------- MODULE ShopProofs -----------------------------
(***************************************************************************)
(* What the statements of Shop guarantee as they run, each of them a       *)
(* transaction of its own: for any requests, bodies, buyers, catalogue,    *)
(* pool and seed, and for every way the statements interleave, fail or die.*)
(*                                                                         *)
(* The sections follow the invariants.  First the types.  Then what        *)
(* requests are told about attempts and payments, which rests on the       *)
(* UNIQUE constraints and the ON CONFLICT clause alone.  Then whose the    *)
(* rows are that a request writes, from which buyers are kept apart; and   *)
(* what an answered checkout has left in the tables.  Last the steps       *)
(* themselves: each takes one request forward.                             *)
(***************************************************************************)
EXTENDS Shop, FoldLemmas

\* The tables, one by one.
LEMMA TableIs ==
  Table = {"cart", "cartItem", "itemStock", "order", "orderItem", "attempt", "payment"}
  BY DEF Table, Row

\* A body names what its use case needs.
LEMMA BodyIs ==
  ASSUME NEW b \in Body
  PROVE  /\ b.op \in {"getCart", "addItem", "updateItem", "deleteItem", "createOrder", "createAttempt"}
         /\ b.customer \in Customer
         /\ b.op = "addItem" => b.variant \in Variant
         /\ b.op \in {"addItem", "updateItem"} => b.quantity \in Quantity
         /\ b.op \in {"updateItem", "deleteItem"} => b.line \in Id
         /\ b.op = "createOrder" => b.cart \in Id
         /\ b.op = "createAttempt" => b.order \in Id /\ b.key \in Key /\ b.outcome \in Outcome
  BY BodiesAreValid DEF AnyBody

-----------------------------------------------------------------------------
(* Types.                                                                  *)

\* The lines of a checkout.
LineRow == [line : Id, variant : Variant, quantity : Quantity]

\* What a table may hold.
Rows(t) == {S \in SUBSET Row[t] : IsFiniteSet(S)}

DbTyped(d) == DOMAIN d = Table /\ \A t \in Table : d[t] \in Rows(t)

\* The locals that the statements write into rows.
LocTyped(s, l) ==
  /\ DOMAIN l = DOMAIN NoLocals
  /\ l.rows \subseteq LineRow /\ IsFiniteSet(l.rows)
  /\ s \in {"loadVariant", "findItem", "insertItem"} => l.cart \in Id
  /\ s \in {"insertItem", "insertStock", "setVolume", "setQuantity"} => l.quantity \in Quantity

CartOps == {"getCart", "addItem", "updateItem", "deleteItem"}

\* The statements that only one kind of body leads to.
BodyFits(s, b) ==
  /\ s \in Statement \cup {"lock"} => b \in Body
  /\ s = "findCart" => b.op \in CartOps
  /\ s = "insertCart" => b.op \in {"getCart", "addItem"}
  /\ s \in {"loadVariant", "findItem", "insertItem", "insertStock"} => b.op = "addItem"
  /\ s = "cartView" => b.op \in {"updateItem", "deleteItem"}
  /\ s \in {"setVolume", "setQuantity"} => b.op \in {"addItem", "updateItem"}
  /\ s \in {"deleteStock", "deleteItem"} => b.op = "deleteItem"
  /\ s \in {"loadCheckout", "insertOrder", "insertOrderItem", "orderView"} => b.op = "createOrder"
  /\ s \in {"loadOrder", "listAttempts", "insertAttempt", "replay", "insertPayment"} =>
       b.op = "createAttempt"

\* Where a request may be.
Label == Statement \cup Final \cup {"idle", "begin", "lock"}

\* One request, typed.
TypedAt(r) ==
  /\ pc[r] \in Label
  /\ body[r] \in Body \cup {None}
  /\ LocTyped(pc[r], loc[r])
  /\ BodyFits(pc[r], body[r])

\* The inductive invariant of type correctness.
TypedInv ==
  /\ DbTyped(db)
  /\ pool \in Connections
  /\ pc = [r \in Request |-> pc[r]] /\ body = [r \in Request |-> body[r]]
  /\ loc = [r \in Request |-> loc[r]]
  /\ \A r \in Request : TypedAt(r)

\* The requests other than r are where they were.
OthersStay(r) ==
  \A q \in Request : q # r => pc'[q] = pc[q] /\ body'[q] = body[q] /\ loc'[q] = loc[q]

\* A step of r leaves the others alone, and what it writes has its type.
Writing(r) ==
  /\ DbTyped(db')
  /\ pool' = pool
  /\ pc' = [pc EXCEPT ![r] = pc'[r]]
  /\ body' = [body EXCEPT ![r] = body'[r]]
  /\ loc' = [loc EXCEPT ![r] = loc'[r]]
  /\ TypedAt(r)'

\* A step that writes typed rows keeps every request typed.
LEMMA WritingKeeps ==
  ASSUME TypedInv, NEW r \in Request, Writing(r)
  PROVE  TypedInv'
<1>1. ASSUME NEW q \in Request PROVE TypedAt(q)'
  <2>1. CASE q = r
    BY <2>1 DEF Writing
  <2>2. CASE q # r
    BY <2>2 DEF Writing, TypedInv, TypedAt
  <2> QED
    BY <2>1, <2>2
<1>2. /\ pc' = [q \in Request |-> pc'[q]] /\ body' = [q \in Request |-> body'[q]]
      /\ loc' = [q \in Request |-> loc'[q]]
  BY DEF Writing, TypedInv
<1>3. (\A q \in Request : TypedAt(q))'
  BY <1>1
<1> QED
  BY <1>2, <1>3 DEF TypedInv, Writing

\* What the invariant says of one request.
LEMMA TypedParts ==
  ASSUME TypedInv, NEW r \in Request
  PROVE  /\ DbTyped(db) /\ DOMAIN db = Table
         /\ pc[r] \in Label /\ body[r] \in Body \cup {None}
         /\ LocTyped(pc[r], loc[r]) /\ DOMAIN loc[r] = DOMAIN NoLocals
         /\ BodyFits(pc[r], body[r])
         /\ r \in DOMAIN pc /\ r \in DOMAIN body /\ r \in DOMAIN loc
         /\ pc[r] \in Statement \cup {"lock"} => body[r] \in Body
  BY DEF TypedInv, TypedAt, LocTyped, BodyFits, DbTyped

\* Locals that hold nothing are typed.
LEMMA EmptyTyped ==
  \A s \in {"begin", "lock", "idle", "commit", "insertCart", "replay", "insertAttempt"} \cup Final :
    LocTyped(s, NoLocals)
<1>1. IsFiniteSet({})
  BY FS_EmptySet
<1> QED
  BY <1>1 DEF NoLocals, LocTyped, Final, Rejected

\* A reading statement.
LEMMA ReadingTyped ==
  ASSUME TypedInv, NEW r \in Request, NEW s \in Statement, NEW l, Reading(r, s, l),
         LocTyped(s, l), BodyFits(s, body[r])
  PROVE  Writing(r)
<1>1. /\ pc' = [pc EXCEPT ![r] = s] /\ loc' = [loc EXCEPT ![r] = l]
      /\ db' = db /\ pool' = pool /\ body' = body
  BY DEF Reading, GoTo
<1>2. pc'[r] = s /\ loc'[r] = l /\ body'[r] = body[r]
  BY <1>1, TypedParts
<1>3. s \in Label
  BY DEF Label
<1>4. TypedAt(r)'
  BY <1>2, <1>3, TypedParts DEF TypedAt
<1> QED
  BY <1>1, <1>2, <1>4, TypedParts DEF Writing, TypedInv

\* A request that has not begun or has its reply may have any body.
LEMMA OverFits ==
  ASSUME NEW s \in Final \cup {"idle", "begin"}, NEW b
  PROVE  BodyFits(s, b)
  BY DEF BodyFits, Final, Rejected, Statement

\* A request that ends before its commit is forgotten.
LEMMA LeaveTyped ==
  ASSUME TypedInv, NEW r \in Request, NEW s \in Rejected, Leave(r, s)
  PROVE  Writing(r)
<1>1. /\ pc' = [pc EXCEPT ![r] = s] /\ loc' = [loc EXCEPT ![r] = NoLocals]
      /\ body' = [body EXCEPT ![r] = None] /\ db' = db /\ pool' = pool
  BY DEF Leave, GoTo
<1>2. pc'[r] = s /\ loc'[r] = NoLocals /\ body'[r] = None
  BY <1>1, TypedParts
<1>3. s \in Label /\ s \in Final
  BY DEF Label, Final
<1>4. BodyFits(s, None)
  BY <1>3, OverFits
<1>5. TypedAt(r)'
  BY <1>2, <1>3, <1>4, TypedParts, EmptyTyped DEF TypedAt
<1> QED
  BY <1>1, <1>2, <1>5, TypedParts DEF Writing, TypedInv

\* So is one that is rejected.
LEMMA RejectTyped ==
  ASSUME TypedInv, NEW r \in Request, Reject(r)
  PROVE  Writing(r)
  BY LeaveTyped DEF Reject, Rejected

\* Rows taken out and typed rows put in leave typed rows.
LEMMA RowsReplaced ==
  ASSUME NEW t, NEW S \in Rows(t), NEW T \in Rows(t), NEW old
  PROVE  (S \ old) \cup T \in Rows(t)
<1>1. IsFiniteSet(S \ old)
  BY FS_Subset DEF Rows
<1>2. IsFiniteSet((S \ old) \cup T)
  BY <1>1, FS_Union DEF Rows
<1> QED
  BY <1>2 DEF Rows

\* What a statement that writes does, unless a constraint refuses it.
WrittenBy(r, t, old, new, s, l) ==
  /\ DOMAIN db' = Table
  /\ db'[t] = (db[t] \ old) \cup new
  /\ \A u \in Table : u # t => db'[u] = db[u]
  /\ pool' = pool /\ body' = body
  /\ pc' = [pc EXCEPT ![r] = s] /\ pc'[r] = s
  /\ loc' = [loc EXCEPT ![r] = l] /\ loc'[r] = l

\* It writes one table, or the request ends in an error.
LEMMA GuardedIs ==
  ASSUME TypedInv, NEW r \in Request, NEW allowed, NEW t \in Table, NEW old, NEW new, NEW s, NEW l,
         Guarded(r, allowed, t, old, new, s, l)
  PROVE  \/ allowed /\ WrittenBy(r, t, old, new, s, l)
         \/ ~allowed /\ Leave(r, "error")
<1>1. CASE allowed
  <2>1. /\ db' = [db EXCEPT ![t] = (@ \ old) \cup new] /\ pool' = pool /\ body' = body
        /\ pc' = [pc EXCEPT ![r] = s] /\ loc' = [loc EXCEPT ![r] = l]
    BY <1>1 DEF Guarded, Write, GoTo
  <2>2. DOMAIN db = Table /\ r \in DOMAIN pc /\ r \in DOMAIN loc
    BY TypedParts
  <2>3. DOMAIN db' = Table /\ db'[t] = (db[t] \ old) \cup new /\ \A u \in Table : u # t => db'[u] = db[u]
    BY <2>1, <2>2
  <2> QED
    BY <1>1, <2>1, <2>2, <2>3 DEF WrittenBy
<1>2. CASE ~allowed
  BY <1>2 DEF Guarded
<1> QED
  BY <1>1, <1>2

\* A writing statement leaves typed rows.
LEMMA GuardedTyped ==
  ASSUME TypedInv, NEW r \in Request, NEW allowed, NEW t \in Table,
         NEW old, NEW new \in Rows(t), NEW s \in Statement, NEW l,
         Guarded(r, allowed, t, old, new, s, l),
         LocTyped(s, l), BodyFits(s, body[r])
  PROVE  Writing(r)
<1>1. CASE Leave(r, "error")
  BY <1>1, LeaveTyped DEF Rejected
<1>2. CASE WrittenBy(r, t, old, new, s, l)
  <2>1. pc'[r] = s /\ loc'[r] = l /\ body'[r] = body[r] /\ s \in Label
    BY <1>2, TypedParts DEF Label, WrittenBy
  <2>2. TypedAt(r)'
    BY <2>1, TypedParts DEF TypedAt
  <2>3. db'[t] \in Rows(t)
    <3>1. db[t] \in Rows(t)
      BY TypedParts DEF DbTyped
    <3>2. db'[t] = (db[t] \ old) \cup new
      BY <1>2 DEF WrittenBy
    <3> QED
      BY <3>1, <3>2, RowsReplaced
  <2>4. DbTyped(db')
    BY <1>2, <2>3, TypedParts DEF DbTyped, WrittenBy
  <2> QED
    BY <1>2, <2>1, <2>2, <2>4, TypedParts DEF Writing, TypedInv, WrittenBy
<1> QED
  BY <1>1, <1>2, GuardedIs

-----------------------------------------------------------------------------

\* A table is typed, and finite.
LEMMA TableTyped ==
  ASSUME TypedInv, NEW t \in Table
  PROVE  db[t] \in Rows(t) /\ db[t] \subseteq Row[t] /\ IsFiniteSet(db[t])
  BY DEF TypedInv, DbTyped, Rows

\* A row of its type may be inserted.
LEMMA OneRowTyped ==
  ASSUME NEW t, NEW x \in Row[t]
  PROVE  {x} \in Rows(t)
  BY FS_Singleton DEF Rows

\* So may the rows that an UPDATE makes of finitely many.
LEMMA ReplacedTyped ==
  ASSUME NEW t, NEW old, IsFiniteSet(old), NEW f, \A x \in old : f[x] \in Row[t]
  PROVE  {f[x] : x \in old} \in Rows(t)
<1> DEFINE T == {f[x] : x \in old}
           g == [x \in old |-> f[x]]
<1>1. g \in Surjection(old, T)
  BY DEF Surjection
<1>2. IsFiniteSet(T)
  BY <1>1, FS_Surjection
<1> QED
  BY <1>2 DEF Rows

\* The lines of a cart are finitely many, with a variant and a quantity each.
LEMMA LinesTyped ==
  ASSUME TypedInv, NEW cart
  PROVE  LinesOf(cart) \subseteq LineRow /\ IsFiniteSet(LinesOf(cart))
<1> DEFINE A == db.cartItem
           B == db.itemStock
           P == {q \in A \X B : q[1].cart = cart /\ q[2].item = q[1].id}
           row(p) == [line |-> p[1].id, variant |-> p[2].variant, quantity |-> p[2].quantity]
           f == [p \in P |-> row(p)]
           T == {row(p) : p \in P}
<1>1. A \subseteq Row.cartItem /\ IsFiniteSet(A) /\ B \subseteq Row.itemStock /\ IsFiniteSet(B)
  BY TableIs, TableTyped
<1>2. IsFiniteSet(P)
  <2>1. IsFiniteSet(A \X B)
    BY <1>1, FS_Product
  <2> QED
    BY <2>1, FS_Subset
<1>3. f \in Surjection(P, T)
  BY DEF Surjection
<1>4. IsFiniteSet(T)
  BY <1>2, <1>3, FS_Surjection
<1>5. ASSUME NEW p \in P PROVE row(p) \in LineRow
  BY <1>1 DEF LineRow, Row
<1>6. LinesOf(cart) = T
  BY DEF LinesOf
<1> QED
  BY <1>4, <1>5, <1>6

-----------------------------------------------------------------------------

\* Among finitely many carts one is the newest, so LIMIT 1 has a row to take
\* however many active carts there are.
LEMMA NewestIs ==
  ASSUME NEW carts, IsFiniteSet(carts), carts # {}, \A c \in carts : c.created \in Nat
  PROVE  Newest(carts) \in carts
<1> DEFINE Latest(s, c) == \A x \in s : x.created <= c.created
           T == {s \in SUBSET carts : s = {} \/ \E c \in s : Latest(s, c)}
<1>1. ASSUME NEW s \in SUBSET carts, s # {}, Rest(s) \in T PROVE s \in T
  <2>1. First(s) \in s /\ s = Rest(s) \cup {First(s)}
    BY <1>1, RestIsSmaller DEF Rest
  <2>2. CASE Rest(s) = {}
    <3>1. Latest(s, First(s))
      BY <2>1, <2>2
    <3> QED
      BY <2>1, <3>1
  <2>3. CASE Rest(s) # {}
    <3>1. PICK c \in Rest(s) : Latest(Rest(s), c)
      BY <1>1, <2>3
    <3>2. First(s).created \in Nat /\ c.created \in Nat /\ \A x \in s : x.created \in Nat
      BY <2>1, <3>1
    <3>3. CASE First(s).created <= c.created
      <4>1. Latest(s, c) /\ c \in s
        BY <2>1, <3>1, <3>3
      <4> QED
        BY <4>1
    <3>4. CASE ~(First(s).created <= c.created)
      <4>1. Latest(s, First(s))
        BY <2>1, <3>1, <3>2, <3>4
      <4> QED
        BY <2>1, <4>1
    <3> QED
      BY <3>3, <3>4
  <2> QED
    BY <2>2, <2>3
<1>2. {} \in T
  OBVIOUS
<1>3. carts \in T
  <2>1. T \in SUBSET (SUBSET carts)
    OBVIOUS
  <2> HIDE DEF T
  <2> QED
    BY <1>1, <1>2, <2>1, FoldInduction
<1>4. PICK c \in carts : Latest(carts, c)
  BY <1>3
<1> QED
  BY <1>4 DEF Newest

\* The price of finitely many lines is a number.
LEMMA CashIsNatural ==
  ASSUME NEW rows \in SUBSET LineRow, IsFiniteSet(rows)
  PROVE  Cash(rows) \in Nat
<1> DEFINE cost(l) == Price[l.variant] * l.quantity
           h == [p \in rows \X Nat |-> cost(p[1]) + p[2]]
           Sums(F) == F = [s \in SUBSET rows |-> IF s = {} THEN 0 ELSE cost(First(s)) + F[Rest(s)]]
           iter == CHOOSE F : Sums(F)
           T == {s \in SUBSET rows : iter[s] \in Nat}
<1>1. \A l \in rows : cost(l) \in Nat
  <2>1. ASSUME NEW l \in rows PROVE cost(l) \in Nat
    <3>1. Price[l.variant] \in Nat /\ l.quantity \in Nat
      BY PricesAreNatural, MaxQuantityIsNatural DEF LineRow, Quantity
    <3> QED
      BY <3>1
  <2> QED
    BY <2>1
<1> HIDE DEF cost
<1>2. h \in [rows \X Nat -> Nat]
  BY <1>1
<1>3. Sums(iter)
  <2>1. PICK F \in [SUBSET rows -> Nat] : IsFold(F, rows, 0, h)
    BY <1>2, FoldExists
  <2>2. ASSUME NEW s \in SUBSET rows, s # {}
        PROVE  h[<<First(s), F[Rest(s)]>>] = cost(First(s)) + F[Rest(s)]
    <3>1. First(s) \in rows /\ Rest(s) \in SUBSET rows
      BY <2>2, RestIsSmaller
    <3>2. F[Rest(s)] \in Nat
      BY <2>1, <3>1
    <3> QED
      BY <3>1, <3>2
  <2> HIDE DEF h
  <2>3. Sums(F)
    BY <2>1, <2>2 DEF IsFold
  <2> QED
    BY <2>3
<1>4. {} \in T
  <2>1. iter[{}] = 0
    BY <1>3
  <2> HIDE DEF iter
  <2> QED
    BY <2>1
<1>5. ASSUME NEW s \in SUBSET rows, s # {}, Rest(s) \in T PROVE s \in T
  <2>1. iter[s] = cost(First(s)) + iter[Rest(s)]
    BY <1>3, <1>5
  <2> HIDE DEF iter
  <2>2. cost(First(s)) \in Nat
    BY <1>1, <1>5, RestIsSmaller
  <2> QED
    BY <1>5, <2>1, <2>2
<1>6. rows \in T
  <2> HIDE DEF iter
  <2>1. T \in SUBSET (SUBSET rows)
    OBVIOUS
  <2> HIDE DEF T
  <2> QED
    BY <1>4, <1>5, <2>1, FoldInduction
<1>7. Cash(rows) = iter[rows]
  BY DEF Cash, MapThenSumSet, MapThenFoldSet, First, Rest, cost
<1> QED
  BY <1>6, <1>7

-----------------------------------------------------------------------------

\* After findCart and insertCart the cart is known.
LEMMA AfterCartFits ==
  ASSUME TypedInv, NEW r \in Request, body[r] \in Body, body[r].op \in CartOps, NEW cart \in Id
  PROVE  LET s == AfterCart(body[r].op)
         IN s \in Statement /\ BodyFits(s, body[r]) /\ LocTyped(s, [NoLocals EXCEPT !.cart = cart])
<1> DEFINE s == AfterCart(body[r].op)
           l == [NoLocals EXCEPT !.cart = cart]
<1>1. /\ s \in {"commit", "loadVariant", "cartView"}
      /\ s = "loadVariant" => body[r].op = "addItem"
      /\ s = "cartView" => body[r].op \in {"updateItem", "deleteItem"}
  BY DEF AfterCart, CartOps
<1> HIDE DEF s
<1>2. s \in Statement /\ BodyFits(s, body[r])
  BY <1>1 DEF Statement, BodyFits
<1>3. DOMAIN l = DOMAIN NoLocals /\ l.rows = {} /\ l.cart = cart
  BY DEF NoLocals
<1>4. LocTyped(s, l)
  BY <1>1, <1>3, FS_EmptySet DEF LocTyped
<1> QED
  BY <1>2, <1>4 DEF s

\* findActiveCartId.
LEMMA FindCartTyped ==
  ASSUME TypedInv, NEW r \in Request, FindCart(r)
  PROVE  Writing(r)
<1> DEFINE found == ActiveCarts(r)
           op == body[r].op
<1>1. body[r] \in Body /\ op \in CartOps
  BY TypedParts DEF FindCart, BodyFits, Statement, Issues
<1>2. CASE found # {} /\ Reading(r, AfterCart(op), [NoLocals EXCEPT !.cart = Newest(found).id])
  <2>1. found \subseteq Row.cart /\ IsFiniteSet(found)
    BY TableIs, TableTyped, FS_Subset DEF ActiveCarts
  <2>2. Newest(found) \in found
    BY <1>2, <2>1, NewestIs DEF Row
  <2>3. Newest(found).id \in Id
    BY <2>1, <2>2 DEF Row
  <2> HIDE DEF found
  <2> QED
    BY <1>1, <1>2, <2>3, AfterCartFits, ReadingTyped
<1>3. CASE op \in {"getCart", "addItem"} /\ Reading(r, "insertCart", NoLocals)
  BY <1>1, <1>3, EmptyTyped, ReadingTyped DEF BodyFits, Statement
<1> QED
  BY <1>2, <1>3, RejectTyped DEF FindCart, Issues

\* INSERT INTO carts.
LEMMA InsertCartTyped ==
  ASSUME TypedInv, NEW r \in Request, InsertCart(r)
  PROVE  Writing(r)
<1> DEFINE mine == {c \in db.cart : c.customer = Buyer(r)}
           cart == [id |-> r, customer |-> Buyer(r), created |-> Cardinality(mine)]
           s == AfterCart(body[r].op)
           l == [NoLocals EXCEPT !.cart = r]
<1>1. body[r] \in Body /\ body[r].op \in CartOps
  BY TypedParts DEF InsertCart, BodyFits, Statement, CartOps, Issues
<1>2. r \in Id /\ Buyer(r) \in Customer
  BY <1>1, BodyIs DEF Id, Buyer
<1>3. Cardinality(mine) \in Nat
  <2>1. IsFiniteSet(mine)
    BY TableIs, TableTyped, FS_Subset
  <2> QED
    BY <2>1, FS_CardinalityType
<1>4. cart \in Row.cart
  BY <1>2, <1>3 DEF Row
<1>5. {cart} \in Rows("cart") /\ {} \in SUBSET Row.cart /\ "cart" \in Table
  BY <1>4, TableIs, OneRowTyped
<1>6. s \in Statement /\ BodyFits(s, body[r]) /\ LocTyped(s, l)
  BY <1>1, <1>2, AfterCartFits
<1>7. Guarded(r, TRUE, "cart", {}, {cart}, s, l)
  BY DEF InsertCart, Issues
<1> HIDE DEF cart, s, l
<1> QED
  BY <1>5, <1>6, <1>7, GuardedTyped

\* VARIANT_LOOKUP_SQL and the first stock check.
LEMMA LoadVariantTyped ==
  ASSUME TypedInv, NEW r \in Request, LoadVariant(r)
  PROVE  Writing(r)
<1>1. PICK available : Reading(r, "findItem", [loc[r] EXCEPT !.available = available]) \/ Reject(r)
  BY DEF LoadVariant, Issues
<1> DEFINE l == [loc[r] EXCEPT !.available = available]
<1>2. BodyFits("findItem", body[r]) /\ LocTyped("findItem", l) /\ "findItem" \in Statement
  BY TypedParts DEF LoadVariant, BodyFits, LocTyped, Statement, NoLocals, Issues
<1> HIDE DEF l
<1>3. Reading(r, "findItem", l) \/ Reject(r)
  BY <1>1 DEF l
<1> QED
  BY <1>2, <1>3, ReadingTyped, RejectTyped

\* The new quantity of an existing line is within the limit.
LEMMA FindItemTyped ==
  ASSUME TypedInv, NEW r \in Request, FindItem(r)
  PROVE  Writing(r)
<1>1. LocTyped("findItem", loc[r]) /\ BodyFits("findItem", body[r])
  BY TypedParts DEF FindItem, Issues
<1>2. body[r].quantity \in Quantity /\ body[r] \in Body /\ body[r].op = "addItem"
  BY <1>1, BodyIs DEF BodyFits, Statement
<1>3. CASE Reading(r, "insertItem", [loc[r] EXCEPT !.quantity = body[r].quantity])
  <2> DEFINE l == [loc[r] EXCEPT !.quantity = body[r].quantity]
  <2>1. LocTyped("insertItem", l) /\ BodyFits("insertItem", body[r]) /\ "insertItem" \in Statement
    BY <1>1, <1>2 DEF LocTyped, BodyFits, Statement, NoLocals
  <2> HIDE DEF l
  <2>2. Reading(r, "insertItem", l)
    BY <1>3 DEF l
  <2> QED
    BY <2>1, <2>2, ReadingTyped
<1>4. ASSUME NEW x \in LinesOf(loc[r].cart), x.quantity + body[r].quantity <= MaxQuantity,
             Reading(r, "setVolume", [loc[r] EXCEPT !.line = x.line, !.quantity = x.quantity + body[r].quantity])
      PROVE  Writing(r)
  <2> DEFINE l == [loc[r] EXCEPT !.line = x.line, !.quantity = x.quantity + body[r].quantity]
  <2>1. x.quantity \in Quantity
    BY LinesTyped DEF LineRow
  <2>2. x.quantity + body[r].quantity \in Quantity
    BY <1>2, <1>4, <2>1, MaxQuantityIsNatural DEF Quantity
  <2>3. LocTyped("setVolume", l) /\ BodyFits("setVolume", body[r]) /\ "setVolume" \in Statement
    BY <1>1, <1>2, <2>2 DEF LocTyped, BodyFits, Statement, NoLocals
  <2> HIDE DEF l
  <2>4. Reading(r, "setVolume", l)
    BY <1>4 DEF l
  <2> QED
    BY <2>3, <2>4, ReadingTyped
<1> QED
  BY <1>3, <1>4, RejectTyped DEF FindItem, WithinLimit, Issues

\* INSERT INTO cart_items.
LEMMA InsertItemTyped ==
  ASSUME TypedInv, NEW r \in Request, InsertItem(r)
  PROVE  Writing(r)
<1> DEFINE item == [id |-> r, cart |-> loc[r].cart, volume |-> loc[r].quantity]
<1>1. LocTyped("insertItem", loc[r]) /\ BodyFits("insertItem", body[r])
  BY TypedParts DEF InsertItem, Issues
<1>2. item \in Row.cartItem
  BY <1>1 DEF LocTyped, Id, Row
<1>3. {item} \in Rows("cartItem") /\ {} \in SUBSET Row.cartItem /\ "cartItem" \in Table
  BY <1>2, TableIs, OneRowTyped
<1>4. LocTyped("insertStock", loc[r]) /\ BodyFits("insertStock", body[r]) /\ "insertStock" \in Statement
  BY <1>1 DEF LocTyped, BodyFits, Statement
<1>5. Guarded(r, TRUE, "cartItem", {}, {item}, "insertStock", loc[r])
  BY DEF InsertItem, Issues
<1> HIDE DEF item
<1> QED
  BY <1>3, <1>4, <1>5, GuardedTyped

\* Every operation may commit, with nothing in its locals.
LEMMA CommitFits ==
  ASSUME TypedInv, NEW r \in Request, pc[r] \in Statement
  PROVE  BodyFits("commit", body[r]) /\ "commit" \in Statement /\ LocTyped("commit", NoLocals)
  BY TypedParts, EmptyTyped DEF BodyFits, Statement

\* INSERT INTO cart_item_stocks.
LEMMA InsertStockTyped ==
  ASSUME TypedInv, NEW r \in Request, InsertStock(r)
  PROVE  Writing(r)
<1> DEFINE row == [item |-> r, variant |-> body[r].variant, quantity |-> loc[r].quantity]
<1>1. LocTyped("insertStock", loc[r]) /\ BodyFits("insertStock", body[r]) /\ pc[r] \in Statement
  BY TypedParts DEF InsertStock, Statement, Issues
<1>2. row \in Row.itemStock
  BY <1>1, BodyIs DEF LocTyped, BodyFits, Statement, Id, Row
<1>3. {row} \in Rows("itemStock") /\ {} \in SUBSET Row.itemStock /\ "itemStock" \in Table
  BY <1>2, TableIs, OneRowTyped
<1>4. PICK parent : Guarded(r, parent, "itemStock", {}, {row}, "commit", NoLocals)
  BY DEF InsertStock, Issues
<1> HIDE DEF row
<1> QED
  BY <1>1, <1>3, <1>4, CommitFits, GuardedTyped

\* updateItem and deleteItem look for the line.
LEMMA CartTableTyped ==
  ASSUME TypedInv, NEW r \in Request, CartView(r)
  PROVE  Writing(r)
<1>1. BodyFits("cartView", body[r]) /\ body[r] \in Body
  BY TypedParts DEF CartView, BodyFits, Statement, Issues
<1>2. CASE /\ body[r].op = "deleteItem"
           /\ Reading(r, "deleteStock", [NoLocals EXCEPT !.line = body[r].line])
  <2> DEFINE l == [NoLocals EXCEPT !.line = body[r].line]
  <2>1. LocTyped("deleteStock", l) /\ BodyFits("deleteStock", body[r]) /\ "deleteStock" \in Statement
    <3>1. LocTyped("deleteStock", l)
      BY FS_EmptySet DEF LocTyped, NoLocals
    <3>2. BodyFits("deleteStock", body[r]) /\ "deleteStock" \in Statement
      BY <1>1, <1>2 DEF BodyFits, Statement
    <3> QED
      BY <3>1, <3>2
  <2> HIDE DEF l
  <2>2. Reading(r, "deleteStock", l)
    BY <1>2 DEF l
  <2> QED
    BY <2>1, <2>2, ReadingTyped
<1>3. CASE /\ body[r].op = "updateItem"
           /\ Reading(r, "setVolume", [NoLocals EXCEPT !.line = body[r].line, !.quantity = body[r].quantity])
  <2> DEFINE l == [NoLocals EXCEPT !.line = body[r].line, !.quantity = body[r].quantity]
  <2>1. body[r].quantity \in Quantity
    BY <1>1, <1>3, BodyIs
  <2>2. LocTyped("setVolume", l) /\ BodyFits("setVolume", body[r]) /\ "setVolume" \in Statement
    <3>1. LocTyped("setVolume", l)
      BY <2>1, FS_EmptySet DEF LocTyped, NoLocals
    <3>2. BodyFits("setVolume", body[r]) /\ "setVolume" \in Statement
      BY <1>1, <1>3 DEF BodyFits, Statement
    <3> QED
      BY <3>1, <3>2
  <2> HIDE DEF l
  <2>3. Reading(r, "setVolume", l)
    BY <1>3 DEF l
  <2> QED
    BY <2>2, <2>3, ReadingTyped
<1> QED
  BY <1>2, <1>3, RejectTyped DEF CartView, Issues

\* UPDATE cart_items.
LEMMA SetVolumeTyped ==
  ASSUME TypedInv, NEW r \in Request, SetVolume(r)
  PROVE  Writing(r)
<1> DEFINE old == {i \in db.cartItem : i.id = loc[r].line}
           f == [i \in old |-> [i EXCEPT !.volume = loc[r].quantity]]
           new == {[i EXCEPT !.volume = loc[r].quantity] : i \in old}
<1>1. LocTyped("setVolume", loc[r]) /\ BodyFits("setVolume", body[r])
  BY TypedParts DEF SetVolume, Issues
<1>2. old \in SUBSET Row.cartItem /\ IsFiniteSet(old) /\ "cartItem" \in Table
  BY TableIs, TableTyped, FS_Subset
<1>3. \A i \in old : f[i] \in Row.cartItem
  BY <1>1, <1>2 DEF Row, LocTyped
<1>4. new = {f[i] : i \in old}
  OBVIOUS
<1>5. LocTyped("setQuantity", loc[r]) /\ BodyFits("setQuantity", body[r]) /\ "setQuantity" \in Statement
  BY <1>1 DEF LocTyped, BodyFits, Statement
<1>6. Guarded(r, TRUE, "cartItem", old, new, "setQuantity", loc[r])
  BY DEF SetVolume, Issues
<1> HIDE DEF old, new, f
<1>7. new \in Rows("cartItem")
  BY <1>2, <1>3, <1>4, ReplacedTyped
<1> QED
  BY <1>2, <1>5, <1>6, <1>7, GuardedTyped

\* UPDATE cart_item_stocks.
LEMMA SetQuantityTyped ==
  ASSUME TypedInv, NEW r \in Request, SetQuantity(r)
  PROVE  Writing(r)
<1> DEFINE old == {i \in db.itemStock : i.item = loc[r].line}
           f == [i \in old |-> [i EXCEPT !.quantity = loc[r].quantity]]
           new == {[i EXCEPT !.quantity = loc[r].quantity] : i \in old}
<1>1. LocTyped("setQuantity", loc[r]) /\ pc[r] \in Statement
  BY TypedParts DEF SetQuantity, Statement, Issues
<1>2. old \in SUBSET Row.itemStock /\ IsFiniteSet(old) /\ "itemStock" \in Table
  BY TableIs, TableTyped, FS_Subset
<1>3. \A i \in old : f[i] \in Row.itemStock
  BY <1>1, <1>2 DEF Row, LocTyped
<1>4. new = {f[i] : i \in old}
  OBVIOUS
<1>5. Guarded(r, TRUE, "itemStock", old, new, "commit", NoLocals)
  BY DEF SetQuantity, Issues
<1> HIDE DEF old, new, f
<1>6. new \in Rows("itemStock")
  BY <1>2, <1>3, <1>4, ReplacedTyped
<1> QED
  BY <1>1, <1>2, <1>5, <1>6, CommitFits, GuardedTyped

\* A DELETE inserts nothing.
LEMMA NothingInserted == \A t : {} \in Rows(t)
  BY FS_EmptySet DEF Rows

\* DELETE FROM cart_item_stocks.
LEMMA DeleteStockTyped ==
  ASSUME TypedInv, NEW r \in Request, DeleteStock(r)
  PROVE  Writing(r)
<1>1. PICK old \in SUBSET db.itemStock : Guarded(r, TRUE, "itemStock", old, {}, "deleteItem", loc[r])
  BY DEF DeleteStock, Issues
<1>2. LocTyped("deleteItem", loc[r]) /\ BodyFits("deleteItem", body[r]) /\ "deleteItem" \in Statement
  BY TypedParts DEF DeleteStock, LocTyped, BodyFits, Statement, Issues
<1>3. old \in SUBSET Row.itemStock /\ "itemStock" \in Table
  BY TableIs, TableTyped
<1> QED
  BY <1>1, <1>2, <1>3, NothingInserted, GuardedTyped

\* DELETE FROM cart_items.
LEMMA DeleteItemTyped ==
  ASSUME TypedInv, NEW r \in Request, DeleteItem(r)
  PROVE  Writing(r)
<1>1. PICK allowed, old : /\ old \subseteq db.cartItem
                          /\ Guarded(r, allowed, "cartItem", old, {}, "commit", NoLocals)
  BY DEF DeleteItem, Issues
<1>2. pc[r] \in Statement
  BY DEF DeleteItem, Statement, Issues
<1>3. old \in SUBSET Row.cartItem /\ "cartItem" \in Table
  BY <1>1, TableIs, TableTyped
<1> QED
  BY <1>1, <1>2, <1>3, NothingInserted, CommitFits, GuardedTyped

-----------------------------------------------------------------------------

\* CHECKOUT_CART_SQL.
LEMMA LoadCheckoutTyped ==
  ASSUME TypedInv, NEW r \in Request, LoadCheckout(r)
  PROVE  Writing(r)
<1> DEFINE rows == CheckoutRows(r, body[r].cart)
           l == [NoLocals EXCEPT !.rows = rows]
<1>1. rows \subseteq LineRow /\ IsFiniteSet(rows)
  <2>1. rows \subseteq LinesOf(body[r].cart)
    BY DEF CheckoutRows
  <2> QED
    BY <2>1, LinesTyped, FS_Subset
<1>2. BodyFits("insertOrder", body[r]) /\ "insertOrder" \in Statement
  BY TypedParts DEF LoadCheckout, BodyFits, Statement, Issues
<1>3. Reading(r, "insertOrder", l) \/ Reject(r)
  BY DEF LoadCheckout, Issues
<1> HIDE DEF rows
<1>4. LocTyped("insertOrder", l)
  BY <1>1 DEF LocTyped, NoLocals
<1> HIDE DEF l
<1> QED
  BY <1>2, <1>3, <1>4, ReadingTyped, RejectTyped

\* INSERT INTO orders, with the price of the rows.
LEMMA InsertOrderTyped ==
  ASSUME TypedInv, NEW r \in Request, InsertOrder(r)
  PROVE  Writing(r)
<1> DEFINE order == [id |-> r, customer |-> Buyer(r), cash |-> Cash(loc[r].rows)]
<1>1. LocTyped("insertOrder", loc[r]) /\ BodyFits("insertOrder", body[r])
  BY TypedParts DEF InsertOrder, Issues
<1>2. Cash(loc[r].rows) \in Nat
  BY <1>1, CashIsNatural DEF LocTyped
<1>3. order \in Row.order
  <2>1. Buyer(r) \in Customer
    BY <1>1, BodyIs DEF BodyFits, Statement, Buyer
  <2> QED
    BY <1>2, <2>1 DEF Row, Id
<1>4. {order} \in Rows("order") /\ {} \in SUBSET Row.order /\ "order" \in Table
  BY <1>3, TableIs, OneRowTyped
<1>5. LocTyped("insertOrderItem", loc[r]) /\ BodyFits("insertOrderItem", body[r]) /\ "insertOrderItem" \in Statement
  BY <1>1 DEF LocTyped, BodyFits, Statement
<1>6. Guarded(r, TRUE, "order", {}, {order}, "insertOrderItem", loc[r])
  BY DEF InsertOrder, Issues
<1> HIDE DEF order
<1> QED
  BY <1>4, <1>5, <1>6, GuardedTyped

\* INSERT INTO order_items, a row at a time.
LEMMA InsertOrderItemTyped ==
  ASSUME TypedInv, NEW r \in Request, InsertOrderItem(r)
  PROVE  Writing(r)
<1>1. LocTyped("insertOrderItem", loc[r]) /\ BodyFits("insertOrderItem", body[r])
  BY TypedParts DEF InsertOrderItem, Issues
<1>2. PICK x, allowed :
        /\ x \in loc[r].rows
        /\ Guarded(r, allowed, "orderItem", {}, {[line |-> x.line, order |-> r, volume |-> x.quantity]},
                   IF loc[r].rows \ {x} = {} THEN "orderView" ELSE "insertOrderItem",
                   [loc[r] EXCEPT !.rows = loc[r].rows \ {x}])
  BY DEF InsertOrderItem, VolumeRead
<1> DEFINE item == [line |-> x.line, order |-> r, volume |-> x.quantity]
           rest == loc[r].rows \ {x}
           l == [loc[r] EXCEPT !.rows = rest]
           s == IF rest = {} THEN "orderView" ELSE "insertOrderItem"
<1>3. item \in Row.orderItem
  BY <1>1, <1>2 DEF LocTyped, LineRow, Id, Row
<1>4. {item} \in Rows("orderItem") /\ {} \in SUBSET Row.orderItem /\ "orderItem" \in Table
  BY <1>3, TableIs, OneRowTyped
<1>5. rest \subseteq LineRow /\ IsFiniteSet(rest)
  BY <1>1, FS_Subset DEF LocTyped
<1>6. Guarded(r, allowed, "orderItem", {}, {item}, s, l)
  BY <1>2
<1>7. s \in {"orderView", "insertOrderItem"}
  OBVIOUS
<1> HIDE DEF rest, item, s
<1>8. LocTyped(s, l) /\ BodyFits(s, body[r]) /\ s \in Statement
  BY <1>1, <1>5, <1>7 DEF LocTyped, BodyFits, Statement, NoLocals
<1> HIDE DEF l
<1> QED
  BY <1>4, <1>6, <1>8, GuardedTyped

\* A statement after which the operation has its result.
LEMMA AnsweringTyped ==
  ASSUME TypedInv, NEW r \in Request, pc[r] \in Statement, NEW reply, Answering(r, reply)
  PROVE  Writing(r)
<1> DEFINE l == [NoLocals EXCEPT !.reply = reply]
<1>1. Reading(r, "commit", l)
  BY DEF Answering
<1>2. LocTyped("commit", l)
  BY FS_EmptySet DEF LocTyped, NoLocals
<1> HIDE DEF l
<1> QED
  BY <1>1, <1>2, CommitFits, ReadingTyped

\* ORDER_VIEW_SQL.
LEMMA OrderTableTyped ==
  ASSUME TypedInv, NEW r \in Request, OrderView(r)
  PROVE  Writing(r)
<1>1. pc[r] \in Statement
  BY DEF OrderView, Statement, Issues
<1> QED
  BY <1>1, AnsweringTyped, RejectTyped DEF OrderView, Issues

-----------------------------------------------------------------------------

\* The order and whether it is paid.
LEMMA LoadOrderTyped ==
  ASSUME TypedInv, NEW r \in Request, LoadOrder(r)
  PROVE  Writing(r)
<1>1. PICK paid : Reading(r, "listAttempts", [NoLocals EXCEPT !.hasPayment = paid]) \/ Reject(r)
  BY DEF LoadOrder, Issues
<1> DEFINE l == [NoLocals EXCEPT !.hasPayment = paid]
<1>2. BodyFits("listAttempts", body[r]) /\ "listAttempts" \in Statement
  BY TypedParts DEF LoadOrder, BodyFits, Statement, Issues
<1>3. LocTyped("listAttempts", l)
  BY FS_EmptySet DEF LocTyped, NoLocals
<1>4. Reading(r, "listAttempts", l) \/ Reject(r)
  BY <1>1
<1> HIDE DEF l
<1> QED
  BY <1>2, <1>3, <1>4, ReadingTyped, RejectTyped

\* A replayed attempt is answered or rejected.
LEMMA AnswerReplayTyped ==
  ASSUME TypedInv, NEW r \in Request, pc[r] \in Statement, NEW a, AnswerReplay(r, a)
  PROVE  Writing(r)
  BY AnsweringTyped, RejectTyped DEF AnswerReplay

\* The attempts with that key.
LEMMA ListAttemptsTyped ==
  ASSUME TypedInv, NEW r \in Request, ListAttempts(r)
  PROVE  Writing(r)
<1>1. pc[r] \in Statement /\ BodyFits("insertAttempt", body[r]) /\ "insertAttempt" \in Statement
  BY TypedParts DEF ListAttempts, BodyFits, Statement, Issues
<1>2. (\E a : AnswerReplay(r, a)) \/ Reading(r, "insertAttempt", NoLocals) \/ Reject(r)
  BY DEF ListAttempts, Issues
<1> QED
  BY <1>1, <1>2, AnswerReplayTyped, RejectTyped, EmptyTyped, ReadingTyped

\* INSERT INTO order_payment_attempts.
LEMMA InsertAttemptTyped ==
  ASSUME TypedInv, NEW r \in Request, InsertAttempt(r)
  PROVE  Writing(r)
<1> DEFINE row == [id |-> r, order |-> body[r].order, key |-> body[r].key, outcome |-> body[r].outcome]
           s == AfterAttempt(row.outcome)
           l == [NoLocals EXCEPT !.reply = "created"]
<1>1. body[r] \in Body /\ body[r].op = "createAttempt"
  BY TypedParts DEF InsertAttempt, BodyFits, Statement, Issues
<1>2. CASE Reading(r, "replay", NoLocals)
  <2>1. BodyFits("replay", body[r]) /\ "replay" \in Statement
    BY <1>1 DEF BodyFits, Statement
  <2> QED
    BY <1>2, <2>1, EmptyTyped, ReadingTyped
<1>3. CASE Guarded(r, TRUE, "attempt", {}, {row}, s, l)
  <2>1. row \in Row.attempt
    BY <1>1, BodyIs DEF Row, Id
  <2>2. {row} \in Rows("attempt") /\ {} \in SUBSET Row.attempt /\ "attempt" \in Table
    BY <2>1, TableIs, OneRowTyped
  <2>3. s \in {"insertPayment", "commit"}
    BY DEF AfterAttempt
  <2> HIDE DEF row, s
  <2>4. LocTyped(s, l) /\ BodyFits(s, body[r]) /\ s \in Statement
    BY <1>1, <2>3, FS_EmptySet DEF LocTyped, BodyFits, Statement, NoLocals
  <2> HIDE DEF l
  <2> QED
    BY <1>3, <2>2, <2>4, GuardedTyped
<1> QED
  BY <1>2, <1>3 DEF InsertAttempt, Issues

\* The attempt that was there first.
LEMMA ReplayTyped ==
  ASSUME TypedInv, NEW r \in Request, Replay(r)
  PROVE  Writing(r)
<1>1. pc[r] \in Statement
  BY DEF Replay, Statement, Issues
<1>2. (\E a : AnswerReplay(r, a)) \/ Leave(r, "error")
  BY DEF Replay, Issues
<1>3. "error" \in Rejected
  BY DEF Rejected
<1> QED
  BY <1>1, <1>2, <1>3, AnswerReplayTyped, LeaveTyped

\* INSERT INTO order_payments.
LEMMA InsertPaymentTyped ==
  ASSUME TypedInv, NEW r \in Request, InsertPayment(r)
  PROVE  Writing(r)
<1> DEFINE row == [order |-> body[r].order]
<1>1. LocTyped("insertPayment", loc[r]) /\ BodyFits("insertPayment", body[r]) /\ pc[r] \in Statement
  BY TypedParts DEF InsertPayment, Statement, Issues
<1>2. row \in Row.payment
  BY <1>1, BodyIs DEF BodyFits, Statement, Row
<1>3. {row} \in Rows("payment") /\ {} \in SUBSET Row.payment /\ "payment" \in Table
  BY <1>2, TableIs, OneRowTyped
<1>4. LocTyped("commit", loc[r])
  BY <1>1 DEF LocTyped
<1>5. PICK unpaid : Guarded(r, unpaid, "payment", {}, {row}, "commit", loc[r])
  BY DEF InsertPayment, Issues
<1> HIDE DEF row
<1> QED
  BY <1>1, <1>3, <1>4, <1>5, CommitFits, GuardedTyped

-----------------------------------------------------------------------------

\* A request arrives.
LEMMA BeginTyped ==
  ASSUME TypedInv, NEW r \in Request, Begin(r)
  PROVE  Writing(r)
<1>1. /\ pc' = [pc EXCEPT ![r] = "begin"] /\ loc' = loc
      /\ db' = db /\ pool' = pool /\ body' = body
  BY DEF Begin, GoTo
<1>2. pc'[r] = "begin" /\ LocTyped("begin", loc[r]) /\ BodyFits("begin", body[r]) /\ "begin" \in Label
  BY <1>1, TypedParts, OverFits DEF Begin, LocTyped, Label
<1>3. TypedAt(r)'
  BY <1>1, <1>2, TypedParts DEF TypedAt
<1> QED
  BY <1>1, <1>3, TypedParts DEF Writing, TypedInv

\* Its transaction is opened, with the body that chooses the use case.
LEMMA OpenTyped ==
  ASSUME TypedInv, NEW r \in Request, OpenTransaction(r)
  PROVE  Writing(r)
<1>1. PICK b \in Body : body' = [body EXCEPT ![r] = b]
  BY DEF OpenTransaction
<1>2. /\ pc' = [pc EXCEPT ![r] = "lock"] /\ loc' = loc /\ db' = db /\ pool' = pool
      /\ pc[r] = "begin"
  BY DEF OpenTransaction, GoTo, Issues
<1>3. pc'[r] = "lock" /\ body'[r] = b /\ LocTyped("lock", loc[r]) /\ BodyFits("lock", b) /\ "lock" \in Label
  BY <1>1, <1>2, TypedParts DEF BodyFits, LocTyped, Label, Statement
<1>4. TypedAt(r)'
  BY <1>1, <1>2, <1>3, TypedParts DEF TypedAt
<1> QED
  BY <1>1, <1>2, <1>3, <1>4, TypedParts DEF Writing, TypedInv

\* The first statement of a use case.
LEMMA FirstIs ==
  ASSUME NEW b \in Body
  PROVE  /\ FirstStatement(b.op) \in {"loadCheckout", "loadOrder", "findCart"}
         /\ FirstStatement(b.op) = "loadCheckout" => b.op = "createOrder"
         /\ FirstStatement(b.op) = "loadOrder" => b.op = "createAttempt"
         /\ FirstStatement(b.op) = "findCart" => b.op \in CartOps
  BY BodyIs DEF FirstStatement, CartOps

\* The advisory lock.
LEMMA LockTyped ==
  ASSUME TypedInv, NEW r \in Request, Lock(r)
  PROVE  Writing(r)
<1> DEFINE s == FirstStatement(body[r].op)
<1>1. /\ pc' = [pc EXCEPT ![r] = s] /\ loc' = loc /\ db' = db /\ pool' = pool /\ body' = body
      /\ pc[r] = "lock"
  BY DEF Lock, GoTo, Issues
<1>2. body[r] \in Body
  BY <1>1, TypedParts
<1>3. /\ s \in {"loadCheckout", "loadOrder", "findCart"}
      /\ s = "loadCheckout" => body[r].op = "createOrder"
      /\ s = "loadOrder" => body[r].op = "createAttempt"
      /\ s = "findCart" => body[r].op \in CartOps
  BY <1>2, FirstIs
<1> HIDE DEF s
<1>4. s \in Label /\ BodyFits(s, body[r]) /\ LocTyped(s, loc[r])
  BY <1>2, <1>3, TypedParts DEF Label, Statement, BodyFits, LocTyped
<1>5. pc'[r] = s
  BY <1>1, TypedParts
<1>6. TypedAt(r)'
  BY <1>1, <1>4, <1>5, TypedParts DEF TypedAt
<1> QED
  BY <1>1, <1>5, <1>6, TypedParts DEF Writing, TypedInv

\* The end of the transaction.
LEMMA CommitTyped ==
  ASSUME TypedInv, NEW r \in Request, Commit(r)
  PROVE  Writing(r)
<1>1. PICK s \in {Result(r), "lost"} : pc' = [pc EXCEPT ![r] = s]
  BY DEF Commit, GoTo
<1>2. s \in (Final \ Rejected) /\ s \in Label
  BY DEF Result, Final, Label, Rejected
<1>3. loc' = [loc EXCEPT ![r] = NoLocals] /\ body' = body /\ db' = db /\ pool' = pool
  BY DEF Commit
<1>4. pc'[r] = s /\ loc'[r] = NoLocals
  BY <1>1, <1>3, TypedParts
<1>5. TypedAt(r)'
  BY <1>2, <1>3, <1>4, TypedParts, EmptyTyped, OverFits DEF TypedAt
<1> QED
  BY <1>1, <1>3, <1>4, <1>5, TypedParts DEF Writing, TypedInv

\* A request that waits too long, or dies.
LEMMA EndTyped ==
  ASSUME TypedInv, NEW r \in Request, TimeOut(r) \/ Abort(r)
  PROVE  Writing(r)
<1>1. "timeout" \in Rejected /\ "aborted" \in Rejected
  BY DEF Rejected
<1> QED
  BY <1>1, LeaveTyped DEF TimeOut, Abort

\* The seed is typed.
LEMMA SeedKeepsTypedInv == Init => TypedInv
<1> SUFFICES ASSUME Init PROVE TypedInv
  OBVIOUS
<1>1. DbTyped(db)
  BY SeedIsTyped, SeedIsFinite DEF Init, DbTyped, Rows
<1>2. ASSUME NEW r \in Request PROVE TypedAt(r)
  <2>1. pc[r] = "idle" /\ body[r] = None /\ loc[r] = NoLocals
    BY DEF Init
  <2>2. LocTyped("idle", NoLocals) /\ BodyFits("idle", None) /\ "idle" \in Label
    BY EmptyTyped, OverFits DEF Label
  <2> QED
    BY <2>1, <2>2, EmptyTyped DEF TypedAt
<1> QED
  BY <1>1, <1>2 DEF TypedInv, Init

\* And so is every step.
LEMMA StepKeepsTypedInv ==
  ASSUME TypedInv, [Next]_vars
  PROVE  TypedInv'
<1>1. CASE UNCHANGED vars
  BY <1>1 DEF vars, TypedInv, TypedAt
<1>2. CASE Next
  <2>1. PICK r \in Request : Begin(r) \/ Step(r) \/ TimeOut(r) \/ Abort(r)
    BY <1>2 DEF Next
  <2>3. ASSUME CartStep(r) PROVE Writing(r)
    BY <2>3, FindCartTyped, InsertCartTyped, LoadVariantTyped, FindItemTyped, InsertItemTyped,
       InsertStockTyped, CartTableTyped, SetVolumeTyped, SetQuantityTyped, DeleteStockTyped,
       DeleteItemTyped
    DEF CartStep
  <2>4. ASSUME OrderStep(r) PROVE Writing(r)
    BY <2>4, LoadCheckoutTyped, InsertOrderTyped, InsertOrderItemTyped, OrderTableTyped DEF OrderStep
  <2>5. ASSUME PaymentStep(r) PROVE Writing(r)
    BY <2>5, LoadOrderTyped, ListAttemptsTyped, InsertAttemptTyped, ReplayTyped, InsertPaymentTyped
    DEF PaymentStep
  <2> QED
    BY <2>1, <2>3, <2>4, <2>5, BeginTyped, OpenTyped, LockTyped, CommitTyped, EndTyped, WritingKeeps DEF Step
<1> QED
  BY <1>1, <1>2

\* Type correctness of the statements of Shop: every table holds rows of its
\* type, whatever overlaps; the quantities written are between one and
\* CART_ITEM_MAX_QUANTITY, an order's price is a number.
THEOREM ShopTyped == Spec => []TypeOK
<1>1. TypedInv => TypeOK
  <2> SUFFICES ASSUME TypedInv PROVE TypeOK
    OBVIOUS
  <2>1. DOMAIN db = Table /\ \A t \in Table : db[t] \subseteq Row[t]
    BY DEF TypedInv, DbTyped, Rows
  <2>2. \A r \in Request : pc[r] \in Label /\ body[r] \in Body \cup {None}
    BY TypedParts
  <2>3. pc \in [Request -> Label] /\ body \in [Request -> Body \cup {None}] /\ DOMAIN loc = Request
    BY <2>2 DEF TypedInv
  <2> QED
    BY <2>1, <2>3 DEF TypeOK, TypedInv, Label
<1> QED
  BY <1>1, SeedKeepsTypedInv, StepKeepsTypedInv, PTL DEF Spec


-----------------------------------------------------------------------------
(* Progress: what of EveryRequestEnds does not need fairness.  Every step  *)
(* moves one request forward, which it can do only so often.               *)

\* How far along a use case each statement is.
Rank(s) ==
  CASE s = "idle" -> 0
    [] s = "begin" -> 1
    [] s = "lock" -> 2
    [] s \in {"findCart", "loadCheckout", "loadOrder"} -> 3
    [] s \in {"insertCart", "insertOrder", "listAttempts"} -> 4
    [] s \in {"loadVariant", "cartView", "insertOrderItem", "insertAttempt"} -> 5
    [] s \in {"findItem", "orderView", "replay"} -> 6
    [] s \in {"insertItem", "insertPayment"} -> 7
    [] s = "insertStock" -> 8
    [] s \in {"setVolume", "deleteStock"} -> 9
    [] s \in {"setQuantity", "deleteItem"} -> 10
    [] s = "commit" -> 11
    [] OTHER -> 12

\* The request goes on to a later statement, or has one order item less to
\* insert.
Further(r) ==
  \/ Rank(pc[r]) < Rank(pc'[r])
  \/ /\ pc[r] = "insertOrderItem" /\ pc'[r] = pc[r]
     /\ loc'[r].rows \subseteq loc[r].rows /\ loc'[r].rows # loc[r].rows

\* A step of r and of no other request.
Alone(r) ==
  /\ Further(r)
  /\ OthersStay(r)

\* The ranks of the statements.
LEMMA Ranks ==
  /\ Rank("idle") = 0 /\ Rank("begin") = 1 /\ Rank("lock") = 2
  /\ Rank("findCart") = 3 /\ Rank("loadCheckout") = 3 /\ Rank("loadOrder") = 3
  /\ Rank("insertCart") = 4 /\ Rank("insertOrder") = 4 /\ Rank("listAttempts") = 4
  /\ Rank("loadVariant") = 5 /\ Rank("cartView") = 5 /\ Rank("insertOrderItem") = 5
  /\ Rank("insertAttempt") = 5
  /\ Rank("findItem") = 6 /\ Rank("orderView") = 6 /\ Rank("replay") = 6
  /\ Rank("insertItem") = 7 /\ Rank("insertPayment") = 7
  /\ Rank("insertStock") = 8
  /\ Rank("setVolume") = 9 /\ Rank("deleteStock") = 9
  /\ Rank("setQuantity") = 10 /\ Rank("deleteItem") = 10
  /\ Rank("commit") = 11
  BY DEF Rank

\* A reply comes after everything else.
LEMMA RepliesAreLast ==
  /\ \A s \in Final : Rank(s) = 12
  /\ \A s \in Statement \cup {"begin", "lock"} : Rank(s) \in 1..11
  /\ \A s \in Label : Rank(s) \in 0..12
<1>1. \A s \in Final : Rank(s) = 12
  BY DEF Final, Rejected, Rank
<1>2. \A s \in Statement \cup {"begin", "lock"} : Rank(s) \in 1..11
  BY Ranks DEF Statement
<1>3. Rank("idle") \in 0..12 /\ 12 \in 0..12 /\ 1..11 \subseteq 0..12
  BY Ranks
<1>4. \A s \in Label : Rank(s) \in 0..12
  BY <1>1, <1>2, <1>3 DEF Label
<1> QED
  BY <1>1, <1>2, <1>4

\* A step that sets the place and the locals of r alone.
LEMMA GoingOn ==
  ASSUME TypedInv, NEW r \in Request, NEW s, NEW l, Rank(pc[r]) < Rank(s),
         pc' = [pc EXCEPT ![r] = s], loc' = [loc EXCEPT ![r] = l],
         \A q \in Request : q # r => body'[q] = body[q]
  PROVE  Alone(r)
<1>1. pc'[r] = s
  BY TypedParts
<1>2. \A q \in Request : q # r => pc'[q] = pc[q] /\ loc'[q] = loc[q]
  BY DEF TypedInv
<1> QED
  BY <1>1, <1>2 DEF Alone, Further, OthersStay

\* A statement that reads.
LEMMA ReadingOn ==
  ASSUME TypedInv, NEW r \in Request, NEW s, NEW l, Reading(r, s, l), Rank(pc[r]) < Rank(s)
  PROVE  Alone(r)
  BY GoingOn DEF Reading, GoTo

\* A request that leaves is at its end.
LEMMA LeaveOn ==
  ASSUME TypedInv, NEW r \in Request, NEW s \in Final, pc[r] \in Statement \cup {"begin", "lock"},
         Leave(r, s)
  PROVE  Alone(r)
<1>1. Rank(pc[r]) < Rank(s)
  BY RepliesAreLast
<1> QED
  BY <1>1, GoingOn DEF Leave, GoTo, TypedInv

\* And so is a rejection.
LEMMA RejectOn ==
  ASSUME TypedInv, NEW r \in Request, pc[r] \in Statement, Reject(r)
  PROVE  Alone(r)
  BY LeaveOn DEF Reject, Final, Rejected

\* A statement that writes goes on, or is refused.
LEMMA GuardedOn ==
  ASSUME TypedInv, NEW r \in Request, NEW allowed, NEW t, NEW old, NEW new, NEW s, NEW l,
         Guarded(r, allowed, t, old, new, s, l), pc[r] \in Statement, Rank(pc[r]) < Rank(s)
  PROVE  Alone(r)
<1>1. CASE Leave(r, "error")
  BY <1>1, LeaveOn DEF Final, Rejected
<1>2. CASE /\ pc' = [pc EXCEPT ![r] = s] /\ loc' = [loc EXCEPT ![r] = l]
           /\ body' = body
  BY <1>2, GoingOn
<1> QED
  BY <1>1, <1>2 DEF Guarded, GoTo

\* The statement after the cart is found comes after it.
LEMMA AfterCartIsLater ==
  ASSUME NEW op
  PROVE  Rank(AfterCart(op)) \in 5..11
  BY Ranks DEF AfterCart

\* The statements of CartService.
LEMMA CartGoesOn ==
  ASSUME TypedInv, NEW r \in Request, CartStep(r)
  PROVE  Alone(r)
<1>1. CASE FindCart(r)
  <2>1. pc[r] \in Statement /\ Rank(pc[r]) = 3
    BY <1>1, Ranks DEF FindCart, Statement, Issues
  <2>2. Rank(pc[r]) < Rank(AfterCart(body[r].op)) /\ Rank(pc[r]) < Rank("insertCart")
    BY <2>1, AfterCartIsLater, Ranks
  <2>3. (\E s \in {AfterCart(body[r].op), "insertCart"} : \E l : Reading(r, s, l)) \/ Reject(r)
    BY <1>1 DEF FindCart, Issues
  <2> QED
    BY <2>1, <2>2, <2>3, ReadingOn, RejectOn
<1>2. CASE InsertCart(r)
  <2>1. pc[r] \in Statement /\ Rank(pc[r]) < Rank(AfterCart(body[r].op))
    BY <1>2, AfterCartIsLater, Ranks DEF InsertCart, Statement, Issues
  <2> QED
    BY <1>2, <2>1, GuardedOn DEF InsertCart, Issues
<1>3. CASE LoadVariant(r)
  <2>1. pc[r] \in Statement /\ Rank(pc[r]) < Rank("findItem")
    BY <1>3, Ranks DEF LoadVariant, Statement, Issues
  <2> QED
    BY <1>3, <2>1, ReadingOn, RejectOn DEF LoadVariant, Issues
<1>4. CASE FindItem(r)
  <2>1. pc[r] \in Statement /\ Rank(pc[r]) < Rank("insertItem") /\ Rank(pc[r]) < Rank("setVolume")
    <3>1. pc[r] = "findItem" /\ pc[r] \in Statement
      BY <1>4 DEF FindItem, Statement, Issues
    <3> QED
      BY <3>1, Ranks
  <2>2. (\E s \in {"insertItem", "setVolume"} : \E l : Reading(r, s, l)) \/ Reject(r)
    BY <1>4 DEF FindItem, Issues
  <2> QED
    BY <2>1, <2>2, ReadingOn, RejectOn
<1>5. CASE InsertItem(r)
  <2>1. pc[r] \in Statement /\ Rank(pc[r]) < Rank("insertStock")
    BY <1>5, Ranks DEF InsertItem, Statement, Issues
  <2> QED
    BY <1>5, <2>1, GuardedOn DEF InsertItem, Issues
<1>6. CASE InsertStock(r)
  <2>1. pc[r] \in Statement /\ Rank(pc[r]) < Rank("commit")
    BY <1>6, Ranks DEF InsertStock, Statement, Issues
  <2> QED
    BY <1>6, <2>1, GuardedOn DEF InsertStock, Issues
<1>7. CASE CartView(r)
  <2>1. pc[r] \in Statement /\ Rank(pc[r]) < Rank("deleteStock") /\ Rank(pc[r]) < Rank("setVolume")
    BY <1>7, Ranks DEF CartView, Statement, Issues
  <2> QED
    BY <1>7, <2>1, ReadingOn, RejectOn DEF CartView, Issues
<1>8. CASE SetVolume(r)
  <2>1. pc[r] \in Statement /\ Rank(pc[r]) < Rank("setQuantity")
    BY <1>8, Ranks DEF SetVolume, Statement, Issues
  <2> QED
    BY <1>8, <2>1, GuardedOn DEF SetVolume, Issues
<1>9. CASE SetQuantity(r)
  <2>1. pc[r] \in Statement /\ Rank(pc[r]) < Rank("commit")
    BY <1>9, Ranks DEF SetQuantity, Statement, Issues
  <2> QED
    BY <1>9, <2>1, GuardedOn DEF SetQuantity, Issues
<1>10. CASE DeleteStock(r)
  <2>1. pc[r] \in Statement /\ Rank(pc[r]) < Rank("deleteItem")
    BY <1>10, Ranks DEF DeleteStock, Statement, Issues
  <2> QED
    BY <1>10, <2>1, GuardedOn DEF DeleteStock, Issues
<1>11. CASE DeleteItem(r)
  <2>1. pc[r] \in Statement /\ Rank(pc[r]) < Rank("commit")
    BY <1>11, Ranks DEF DeleteItem, Statement, Issues
  <2> QED
    BY <1>11, <2>1, GuardedOn DEF DeleteItem, Issues
<1> QED
  BY <1>1, <1>2, <1>3, <1>4, <1>5, <1>6, <1>7, <1>8, <1>9, <1>10, <1>11 DEF CartStep

\* An order item that is inserted is one less to insert: the last one leads on,
\* the others come back for a smaller set.
LEMMA InsertOrderItemGoesOn ==
  ASSUME TypedInv, NEW r \in Request, InsertOrderItem(r)
  PROVE  Alone(r)
<1>1. pc[r] = "insertOrderItem" /\ pc[r] \in Statement
  BY DEF InsertOrderItem, Statement, Issues
<1>2. PICK l \in loc[r].rows :
        \E allowed, old, new :
          Guarded(r, allowed, "orderItem", old, new,
                  IF loc[r].rows \ {l} = {} THEN "orderView" ELSE "insertOrderItem",
                  [loc[r] EXCEPT !.rows = loc[r].rows \ {l}])
  BY DEF InsertOrderItem, Issues
<1> DEFINE rest == loc[r].rows \ {l}
<1>3. CASE rest = {}
  <2>1. PICK allowed, old, new :
          Guarded(r, allowed, "orderItem", old, new, "orderView", [loc[r] EXCEPT !.rows = rest])
    BY <1>2, <1>3
  <2>2. Rank(pc[r]) < Rank("orderView")
    BY <1>1, Ranks
  <2> QED
    BY <1>1, <2>1, <2>2, GuardedOn
<1>4. CASE rest # {} /\ Leave(r, "error")
  BY <1>1, <1>4, LeaveOn DEF Final, Rejected
<1>5. CASE rest # {} /\ ~Leave(r, "error")
  <2>1. /\ pc' = [pc EXCEPT ![r] = "insertOrderItem"]
        /\ loc' = [loc EXCEPT ![r] = [loc[r] EXCEPT !.rows = rest]] /\ body' = body
    BY <1>2, <1>5 DEF Guarded, GoTo
  <2>2. pc'[r] = pc[r] /\ loc'[r] = [loc[r] EXCEPT !.rows = rest]
    BY <1>1, <2>1, TypedParts
  <2>3. "rows" \in DOMAIN loc[r]
    BY TypedParts DEF LocTyped, NoLocals
  <2>4. loc'[r].rows = rest
    BY <2>2, <2>3
  <2>5. OthersStay(r)
    BY <2>1 DEF TypedInv, OthersStay
  <2> QED
    BY <1>1, <1>2, <2>2, <2>4, <2>5 DEF Alone, Further
<1> QED
  BY <1>3, <1>4, <1>5

\* The statements of OrderService.
LEMMA OrderGoesOn ==
  ASSUME TypedInv, NEW r \in Request, OrderStep(r)
  PROVE  Alone(r)
<1>1. CASE LoadCheckout(r)
  <2>1. pc[r] \in Statement /\ Rank(pc[r]) < Rank("insertOrder")
    BY <1>1, Ranks DEF LoadCheckout, Statement, Issues
  <2> QED
    BY <1>1, <2>1, ReadingOn, RejectOn DEF LoadCheckout, Issues
<1>2. CASE InsertOrder(r)
  <2>1. pc[r] \in Statement /\ Rank(pc[r]) < Rank("insertOrderItem")
    BY <1>2, Ranks DEF InsertOrder, Statement, Issues
  <2> QED
    BY <1>2, <2>1, GuardedOn DEF InsertOrder, Issues
<1>3. CASE OrderView(r)
  <2>1. pc[r] \in Statement /\ Rank(pc[r]) < Rank("commit")
    BY <1>3, Ranks DEF OrderView, Statement, Issues
  <2> QED
    BY <1>3, <2>1, ReadingOn, RejectOn DEF OrderView, Answering
<1> QED
  BY <1>1, <1>2, <1>3, InsertOrderItemGoesOn DEF OrderStep

\* A replay that is answered, or refused for another payload.
LEMMA AnswerReplayOn ==
  ASSUME TypedInv, NEW r \in Request, NEW a, pc[r] \in Statement, Rank(pc[r]) < Rank("commit"),
         AnswerReplay(r, a)
  PROVE  Alone(r)
  BY ReadingOn, RejectOn DEF AnswerReplay, Answering

\* The statements of PaymentService.
LEMMA PaymentGoesOn ==
  ASSUME TypedInv, NEW r \in Request, PaymentStep(r)
  PROVE  Alone(r)
<1>1. CASE LoadOrder(r)
  <2>1. pc[r] \in Statement /\ Rank(pc[r]) < Rank("listAttempts")
    BY <1>1, Ranks DEF LoadOrder, Statement, Issues
  <2> QED
    BY <1>1, <2>1, ReadingOn, RejectOn DEF LoadOrder, Issues
<1>2. CASE ListAttempts(r)
  <2>1. pc[r] \in Statement /\ Rank(pc[r]) < Rank("insertAttempt") /\ Rank(pc[r]) < Rank("commit")
    BY <1>2, Ranks DEF ListAttempts, Statement, Issues
  <2> QED
    BY <1>2, <2>1, ReadingOn, RejectOn, AnswerReplayOn DEF ListAttempts, Issues
<1>3. CASE InsertAttempt(r)
  <2>1. pc[r] \in Statement /\ Rank(pc[r]) < Rank("replay")
    BY <1>3, Ranks DEF InsertAttempt, Statement, Issues
  <2>2. Rank(pc[r]) < Rank(AfterAttempt(body[r].outcome))
    BY <1>3, Ranks DEF InsertAttempt, AfterAttempt, Issues
  <2> QED
    BY <1>3, <2>1, <2>2, ReadingOn, GuardedOn DEF InsertAttempt, Issues
<1>4. CASE Replay(r)
  <2>1. pc[r] \in Statement /\ Rank(pc[r]) < Rank("commit")
    BY <1>4, Ranks DEF Replay, Statement, Issues
  <2>2. "error" \in Final
    BY DEF Final, Rejected
  <2> QED
    BY <1>4, <2>1, <2>2, LeaveOn, AnswerReplayOn DEF Replay, Issues
<1>5. CASE InsertPayment(r)
  <2>1. pc[r] \in Statement /\ Rank(pc[r]) < Rank("commit")
    BY <1>5, Ranks DEF InsertPayment, Statement, Issues
  <2> QED
    BY <1>5, <2>1, GuardedOn DEF InsertPayment, Issues
<1> QED
  BY <1>1, <1>2, <1>3, <1>4, <1>5 DEF PaymentStep

\* The transaction around them.
LEMMA TransactionGoesOn ==
  ASSUME TypedInv, NEW r \in Request, Begin(r) \/ OpenTransaction(r) \/ Lock(r) \/ Commit(r) \/ TimeOut(r) \/ Abort(r)
  PROVE  Alone(r)
<1>1. CASE Begin(r)
  <2>1. /\ pc' = [pc EXCEPT ![r] = "begin"] /\ loc' = [loc EXCEPT ![r] = loc[r]]
        /\ body' = body
    BY <1>1, TypedParts DEF Begin, GoTo, TypedInv
  <2>2. Rank(pc[r]) < Rank("begin")
    BY <1>1, Ranks DEF Begin
  <2> QED
    BY <2>1, <2>2, GoingOn
<1>2. CASE OpenTransaction(r)
  <2>1. PICK b \in Body : body' = [body EXCEPT ![r] = b]
    BY <1>2 DEF OpenTransaction
  <2>2. pc' = [pc EXCEPT ![r] = "lock"] /\ loc' = [loc EXCEPT ![r] = loc[r]]
    BY <1>2, TypedParts DEF OpenTransaction, GoTo, TypedInv
  <2>3. Rank(pc[r]) < Rank("lock")
    BY <1>2, Ranks DEF OpenTransaction, Issues
  <2>4. \A q \in Request : q # r => body'[q] = body[q]
    BY <2>1 DEF TypedInv
  <2> QED
    BY <2>2, <2>3, <2>4, GoingOn
<1>6. CASE Lock(r)
  <2>1. pc' = [pc EXCEPT ![r] = FirstStatement(body[r].op)] /\ loc' = [loc EXCEPT ![r] = loc[r]] /\ body' = body
    BY <1>6, TypedParts DEF Lock, GoTo, TypedInv
  <2>2. Rank(pc[r]) < Rank(FirstStatement(body[r].op))
    BY <1>6, Ranks DEF Lock, Issues, FirstStatement
  <2> QED
    BY <2>1, <2>2, GoingOn
<1>3. CASE Commit(r)
  <2>1. PICK reply \in {Result(r), "lost"} : pc' = [pc EXCEPT ![r] = reply]
    BY <1>3 DEF Commit, GoTo
  <2>2. reply \in Final
    BY DEF Result, Final
  <2>3. Rank(pc[r]) < Rank(reply)
    BY <1>3, <2>2, Ranks, RepliesAreLast DEF Commit
  <2>4. loc' = [loc EXCEPT ![r] = NoLocals] /\ body' = body
    BY <1>3 DEF Commit
  <2> QED
    BY <2>1, <2>3, <2>4, GoingOn
<1>4. CASE TimeOut(r) \/ Abort(r)
  <2>1. pc[r] \in Statement \cup {"begin", "lock"}
    BY <1>4 DEF TimeOut, Abort, Waiting
  <2>2. "timeout" \in Final /\ "aborted" \in Final
    BY DEF Final, Rejected
  <2> QED
    BY <1>4, <2>1, <2>2, LeaveOn DEF TimeOut, Abort
<1> QED
  BY <1>1, <1>2, <1>3, <1>4, <1>6

\* Every step of a request.
LEMMA StepGoesOn ==
  ASSUME TypedInv, NEW r \in Request, Begin(r) \/ Step(r) \/ TimeOut(r) \/ Abort(r)
  PROVE  Alone(r)
  BY CartGoesOn, OrderGoesOn, PaymentGoesOn, TransactionGoesOn DEF Step

\* Every step moves exactly one request, and that one forward: to a later
\* statement of its use case, or to the same INSERT with one item less to do.
\* No request is ever sent back, whatever the others write, so each issues at
\* most as many statements as its use case has and its checkout has lines.
THEOREM EveryStepGoesOn == Spec => [][\E r \in Request : Alone(r)]_vars
<1>1. ASSUME TypedInv, Next PROVE \E r \in Request : Alone(r)
  BY <1>1, StepGoesOn DEF Next
<1>2. TypedInv /\ [Next]_vars => [\E r \in Request : Alone(r)]_vars
  BY <1>1
<1> QED
  BY <1>2, SeedKeepsTypedInv, StepKeepsTypedInv, PTL DEF Spec

-----------------------------------------------------------------------------
(* What requests are told of attempts and payments.  The UNIQUE constraints*)
(* and the ON CONFLICT clause of insertAttempt are enough for the stored   *)
(* attempts to be what the requests were told, for every payment to have   *)
(* its attempt, and for an order to be paid once.                          *)

\* A typed step is a step of one request.
LEMMA WritingIsAlone ==
  ASSUME TypedInv, NEW r \in Request, Writing(r)
  PROVE  OthersStay(r)
  BY DEF TypedInv, Writing, OthersStay

\* A request that ends before its commit.
Ended(r) ==
  /\ OthersStay(r)
  /\ pc'[r] \in Rejected /\ body'[r] = None /\ loc'[r] = NoLocals
  /\ db' = db

\* Leaving is ending.
LEMMA LeaveEnds ==
  ASSUME TypedInv, NEW r \in Request, NEW s \in Rejected, Leave(r, s)
  PROVE  Ended(r)
<1>1. Writing(r)
  BY LeaveTyped
<1> QED
  BY <1>1, WritingIsAlone, TypedParts DEF Leave, GoTo, Ended

\* So is a rejection.
LEMMA RejectEnds ==
  ASSUME TypedInv, NEW r \in Request, Reject(r)
  PROVE  Ended(r)
  BY LeaveEnds DEF Reject, Rejected

\* A statement that reads.
Read(r, s, l) ==
  /\ OthersStay(r)
  /\ pc'[r] = s /\ body'[r] = body[r] /\ loc'[r] = l
  /\ db' = db

\* Reading leaves the tables alone.
LEMMA ReadingReads ==
  ASSUME TypedInv, NEW r \in Request, NEW s, NEW l, Reading(r, s, l)
  PROVE  Read(r, s, l)
  BY TypedParts DEF Reading, GoTo, Read, OthersStay, TypedInv

\* A statement that writes rows of table t.
Wrote(r, t, old, new, s, l) ==
  /\ OthersStay(r)
  /\ pc'[r] = s /\ body'[r] = body[r] /\ loc'[r] = l
  /\ db'[t] = (db[t] \ old) \cup new
  /\ \A u \in Table : u # t => db'[u] = db[u]

\* A guarded statement writes its table, or is refused.
LEMMA GuardedWrites ==
  ASSUME TypedInv, NEW r \in Request, NEW allowed, NEW t \in Table, NEW old, NEW new, NEW s, NEW l,
         Guarded(r, allowed, t, old, new, s, l)
  PROVE  \/ allowed /\ Wrote(r, t, old, new, s, l)
         \/ ~allowed /\ Ended(r)
<1>1. CASE allowed /\ WrittenBy(r, t, old, new, s, l)
  BY <1>1, TypedParts DEF WrittenBy, Wrote, OthersStay, TypedInv
<1>2. CASE ~allowed /\ Leave(r, "error")
  BY <1>2, LeaveEnds DEF Rejected
<1> QED
  BY <1>1, <1>2, GuardedIs

\* r has been told, or is about to be told, that its attempt is stored.
Promised(r) ==
  \/ pc[r] \in {"created", "replayed", "insertPayment"}
  \/ pc[r] = "commit" /\ loc[r].reply \in {"created", "replayed"}

Stored(d, b) == \E a \in d.attempt : a.order = b.order /\ a.key = b.key /\ a.outcome = b.outcome

\* r has paid, and is told so or about to be.
Paying(r) ==
  /\ body[r].outcome = Succeeded
  /\ \/ pc[r] = "created"
     \/ pc[r] = "commit" /\ loc[r].reply = "created"

Paid(d, order) == \E p \in d.payment : p.order = order

\* An attempt of an order and key is one, a cart line is in one order.
OneRow(d) ==
  /\ \A x, y \in d.attempt : x.order = y.order /\ x.key = y.key => x = y
  /\ \A x, y \in d.orderItem : x.line = y.line => x = y

PromiseInv ==
  /\ OneRow(db) /\ Backed(db)
  /\ \A r \in Request :
       /\ Promised(r) => Stored(db, body[r])
       /\ pc[r] = "insertPayment" => body[r].outcome = Succeeded
       /\ Paying(r) => Paid(db, body[r].order)
  /\ \A r1, r2 \in Request :
       Paying(r1) /\ Paying(r2) /\ body[r1].order = body[r2].order => r1 = r2

\* What a step of r may do: rows of attempt and payment stay, and only r moves.
Grows(r) ==
  /\ OthersStay(r)
  /\ db.attempt \subseteq db'.attempt
  /\ db.payment \subseteq db'.payment
  /\ OneRow(db') /\ Backed(db')
  /\ Promised(r)' => Stored(db', body'[r])
  /\ pc'[r] = "insertPayment" => body'[r].outcome = Succeeded
  /\ Paying(r)' =>
       /\ Paid(db', body'[r].order)
       /\ (Paying(r) /\ body'[r] = body[r]) \/ ~Paid(db, body'[r].order)

\* A step of one request does not take back what another was told.
LEMMA GrowsKeeps ==
  ASSUME PromiseInv, NEW r \in Request, Grows(r)
  PROVE  PromiseInv'
<1>1. \A q \in Request : q # r =>
        /\ Promised(q)' <=> Promised(q)
        /\ Paying(q)' <=> Paying(q)
        /\ pc'[q] = pc[q] /\ body'[q] = body[q]
  BY DEF Grows, OthersStay, Promised, Paying
<1>2. ASSUME NEW q \in Request
      PROVE  /\ Promised(q)' => Stored(db', body'[q])
             /\ pc'[q] = "insertPayment" => body'[q].outcome = Succeeded
             /\ Paying(q)' => Paid(db', body'[q].order)
  <2>1. CASE q = r
    BY <2>1 DEF Grows
  <2>2. CASE q # r
    BY <1>1, <2>2 DEF Grows, PromiseInv, Stored, Paid
  <2> QED
    BY <2>1, <2>2
<1>3. ASSUME NEW q \in Request, q # r, Paying(q)', Paying(r)', body'[q].order = body'[r].order PROVE FALSE
  <2>1. Paying(q) /\ body'[q] = body[q] /\ Paid(db, body[q].order)
    BY <1>1, <1>3 DEF PromiseInv
  <2>2. Paying(r) /\ body'[r] = body[r]
    BY <1>3, <2>1 DEF Grows
  <2> QED
    BY <1>3, <2>1, <2>2 DEF PromiseInv
<1>4. ASSUME NEW r1 \in Request, NEW r2 \in Request, Paying(r1)', Paying(r2)', body'[r1].order = body'[r2].order
      PROVE  r1 = r2
  <2>1. CASE r1 # r /\ r2 # r
    BY <1>1, <1>4, <2>1 DEF PromiseInv
  <2>2. CASE r1 = r \/ r2 = r
    BY <1>3, <1>4, <2>2
  <2> QED
    BY <2>1, <2>2
<1>5. (\A q \in Request :
         /\ Promised(q) => Stored(db, body[q])
         /\ pc[q] = "insertPayment" => body[q].outcome = Succeeded
         /\ Paying(q) => Paid(db, body[q].order))'
  BY <1>2
<1>6. (\A r1, r2 \in Request :
         Paying(r1) /\ Paying(r2) /\ body[r1].order = body[r2].order => r1 = r2)'
  BY <1>4
<1> QED
  BY <1>5, <1>6 DEF PromiseInv, Grows

\* The labels at which a request has been told something.
Telling == {"created", "replayed", "insertPayment"}

\* A reading statement.
LEMMA ReadGrows ==
  ASSUME PromiseInv, NEW r \in Request, NEW s, NEW l, Read(r, s, l),
         s \notin Telling, s = "commit" => l.reply \notin {"created", "replayed"}
  PROVE  Grows(r)
  BY DEF PromiseInv, Grows, Read, Promised, Paying, Telling

\* A request that has ended has been told nothing.
LEMMA EndedGrows ==
  ASSUME PromiseInv, NEW r \in Request, Ended(r)
  PROVE  Grows(r)
<1>1. pc'[r] \notin Telling \cup {"commit"}
  BY DEF Ended, Rejected, Telling
<1> QED
  BY <1>1 DEF PromiseInv, Grows, Ended, Promised, Paying, Telling

\* A write to a table that the promises do not mention.
LEMMA WroteGrows ==
  ASSUME PromiseInv, NEW r \in Request,
         NEW t \in {"cart", "cartItem", "itemStock", "order"}, NEW old, NEW new, NEW s, NEW l,
         Wrote(r, t, old, new, s, l),
         s \notin Telling, s = "commit" => l.reply \notin {"created", "replayed"}
  PROVE  Grows(r)
<1>1. db'.attempt = db.attempt /\ db'.payment = db.payment /\ db'.orderItem = db.orderItem
  BY TableIs DEF Wrote
<1>2. OneRow(db') /\ Backed(db')
  BY <1>1 DEF PromiseInv, OneRow, Backed
<1> QED
  BY <1>1, <1>2 DEF PromiseInv, Grows, Wrote, Promised, Paying, Telling

\* The same for a statement that a constraint may refuse.
LEMMA GuardedGrows ==
  ASSUME TypedInv, PromiseInv, NEW r \in Request, NEW allowed,
         NEW t \in {"cart", "cartItem", "itemStock", "order"}, NEW old, NEW new, NEW s, NEW l,
         Guarded(r, allowed, t, old, new, s, l),
         s \notin Telling, s = "commit" => l.reply \notin {"created", "replayed"}
  PROVE  Grows(r)
<1>1. t \in Table
  BY TableIs
<1>2. Wrote(r, t, old, new, s, l) \/ Ended(r)
  BY <1>1, GuardedWrites
<1> QED
  BY <1>2, WroteGrows, EndedGrows

\* Most statements are followed by another one.
LEMMA ReadingOnGrows ==
  ASSUME TypedInv, PromiseInv, NEW r \in Request, NEW s, NEW l, Reading(r, s, l),
         s \notin Telling, s = "commit" => l.reply \notin {"created", "replayed"}
  PROVE  Grows(r)
  BY ReadingReads, ReadGrows

\* An attempt that is found is one that is stored.
LEMMA ReplayGrows ==
  ASSUME TypedInv, PromiseInv, NEW r \in Request, NEW a \in AttemptsWith(body[r].order, body[r].key),
         AnswerReplay(r, a)
  PROVE  Grows(r)
<1>1. a \in db.attempt /\ a.order = body[r].order /\ a.key = body[r].key
  BY DEF AttemptsWith
<1>2. CASE a.outcome = body[r].outcome
  <2> DEFINE l == [NoLocals EXCEPT !.reply = "replayed"]
  <2>1. Stored(db, body[r])
    BY <1>1, <1>2 DEF Stored
  <2>2. Reading(r, "commit", l)
    BY <1>2 DEF AnswerReplay, Answering
  <2>3. l.reply = "replayed"
    BY DEF NoLocals
  <2> HIDE DEF l
  <2>4. Read(r, "commit", l)
    BY <2>2, ReadingReads
  <2> QED
    BY <2>1, <2>3, <2>4 DEF Read, Grows, PromiseInv, Paying
<1>3. CASE a.outcome # body[r].outcome
  BY <1>3, RejectEnds, EndedGrows DEF AnswerReplay
<1> QED
  BY <1>2, <1>3

\* The replies of locals that nothing has been told of.
LEMMA NothingTold ==
  /\ NoLocals.reply \notin {"created", "replayed"}
  /\ \A x : [NoLocals EXCEPT !.cart = x].reply \notin {"created", "replayed"}
  /\ "commit" \notin Telling
  BY DEF NoLocals, Telling

\* Every statement of CartService.
LEMMA CartStepGrows ==
  ASSUME TypedInv, PromiseInv, NEW r \in Request, CartStep(r)
  PROVE  Grows(r)
<1>1. \A op : AfterCart(op) \in {"commit", "loadVariant", "cartView"}
  BY DEF AfterCart
<1>2. ASSUME NEW op PROVE AfterCart(op) \notin Telling
  BY <1>1 DEF Telling
<1>3. ASSUME Reject(r) PROVE Grows(r)
  BY <1>3, RejectEnds, EndedGrows
<1>4. \A s \in Statement \ {"commit", "insertPayment"} : s \notin Telling /\ s # "commit"
  BY DEF Statement, Telling
<1>5. ASSUME NEW s \in Statement \ {"commit", "insertPayment"}, NEW l, Reading(r, s, l) PROVE Grows(r)
  BY <1>4, <1>5, ReadingOnGrows
<1>6. CASE FindCart(r)
  <2>1. ASSUME NEW x, Reading(r, AfterCart(body[r].op), [NoLocals EXCEPT !.cart = x]) PROVE Grows(r)
    BY <1>2, <2>1, NothingTold, ReadingOnGrows
  <2>2. "insertCart" \in Statement \ {"commit", "insertPayment"}
    BY DEF Statement
  <2> QED
    BY <1>3, <1>5, <1>6, <2>1, <2>2 DEF FindCart
<1>7. CASE InsertCart(r)
  <2>1. PICK new : Guarded(r, TRUE, "cart", {}, new, AfterCart(body[r].op), [NoLocals EXCEPT !.cart = r])
    BY <1>7 DEF InsertCart
  <2> QED
    BY <1>2, <2>1, NothingTold, GuardedGrows
<1>8. CASE LoadVariant(r)
  BY <1>3, <1>5, <1>8 DEF LoadVariant, Statement
<1>9. CASE FindItem(r)
  BY <1>3, <1>5, <1>9 DEF FindItem, Statement
<1>10. CASE InsertItem(r)
  <2>1. PICK new : Guarded(r, TRUE, "cartItem", {}, new, "insertStock", loc[r])
    BY <1>10 DEF InsertItem
  <2>2. "insertStock" \notin Telling /\ "insertStock" # "commit"
    BY DEF Telling
  <2> QED
    BY <2>1, <2>2, GuardedGrows
<1>11. CASE InsertStock(r)
  <2>1. PICK allowed, new : Guarded(r, allowed, "itemStock", {}, new, "commit", NoLocals)
    BY <1>11 DEF InsertStock
  <2> QED
    BY <2>1, NothingTold, GuardedGrows
<1>12. CASE CartView(r)
  BY <1>3, <1>5, <1>12 DEF CartView, Statement
<1>13. CASE SetVolume(r)
  <2>1. PICK old, new : Guarded(r, TRUE, "cartItem", old, new, "setQuantity", loc[r])
    BY <1>13 DEF SetVolume
  <2>2. "setQuantity" \notin Telling /\ "setQuantity" # "commit"
    BY DEF Telling
  <2> QED
    BY <2>1, <2>2, GuardedGrows
<1>14. CASE SetQuantity(r)
  <2>1. PICK old, new : Guarded(r, TRUE, "itemStock", old, new, "commit", NoLocals)
    BY <1>14 DEF SetQuantity
  <2> QED
    BY <2>1, NothingTold, GuardedGrows
<1>15. CASE DeleteStock(r)
  <2>1. PICK old : Guarded(r, TRUE, "itemStock", old, {}, "deleteItem", loc[r])
    BY <1>15 DEF DeleteStock
  <2>2. "deleteItem" \notin Telling /\ "deleteItem" # "commit"
    BY DEF Telling
  <2> QED
    BY <2>1, <2>2, GuardedGrows
<1>16. CASE DeleteItem(r)
  <2>1. PICK allowed, old : Guarded(r, allowed, "cartItem", old, {}, "commit", NoLocals)
    BY <1>16 DEF DeleteItem
  <2> QED
    BY <2>1, NothingTold, GuardedGrows
<1> QED
  BY <1>6, <1>7, <1>8, <1>9, <1>10, <1>11, <1>12, <1>13, <1>14, <1>15, <1>16 DEF CartStep

\* An item is inserted only for a line that has none.
LEMMA InsertOrderItemGrows ==
  ASSUME TypedInv, PromiseInv, NEW r \in Request, InsertOrderItem(r)
  PROVE  Grows(r)
<1>1. PICK x \in loc[r].rows :
        LET rest == loc[r].rows \ {x}
            allowed == OrderedIn(x.line) = {} /\ \E i \in db.cartItem : i.id = x.line
        IN Guarded(r, allowed, "orderItem", {}, {[line |-> x.line, order |-> r, volume |-> x.quantity]},
                   IF rest = {} THEN "orderView" ELSE "insertOrderItem",
                   [loc[r] EXCEPT !.rows = rest])
  BY DEF InsertOrderItem, VolumeRead
<1> DEFINE item == [line |-> x.line, order |-> r, volume |-> x.quantity]
           rest == loc[r].rows \ {x}
           s == IF rest = {} THEN "orderView" ELSE "insertOrderItem"
           l == [loc[r] EXCEPT !.rows = rest]
           allowed == OrderedIn(x.line) = {} /\ \E i \in db.cartItem : i.id = x.line
<1>2. item.line = x.line /\ s \in {"orderView", "insertOrderItem"}
  OBVIOUS
<1>3. Guarded(r, allowed, "orderItem", {}, {item}, s, l)
  BY <1>1
<1> HIDE DEF item, s, l
<1>4. \/ allowed /\ Wrote(r, "orderItem", {}, {item}, s, l)
      \/ Ended(r)
  BY <1>3, TableIs, GuardedWrites
<1>5. CASE Ended(r)
  BY <1>5, EndedGrows
<1>6. CASE allowed /\ Wrote(r, "orderItem", {}, {item}, s, l)
  <2>1. db'.attempt = db.attempt /\ db'.payment = db.payment /\ db'.orderItem = db.orderItem \cup {item}
    BY <1>6, TableIs DEF Wrote
  <2>2. \A oi \in db.orderItem : oi.line # x.line
    BY <1>6 DEF OrderedIn
  <2>3. OneRow(db') /\ Backed(db')
    BY <1>2, <2>1, <2>2 DEF PromiseInv, OneRow, Backed
  <2> QED
    BY <1>2, <1>6, <2>1, <2>3 DEF Grows, Wrote, Promised, Paying
<1> QED
  BY <1>4, <1>5, <1>6

\* Every statement of OrderService.
LEMMA OrderStepGrows ==
  ASSUME TypedInv, PromiseInv, NEW r \in Request, OrderStep(r)
  PROVE  Grows(r)
<1>1. ASSUME Reject(r) PROVE Grows(r)
  BY <1>1, RejectEnds, EndedGrows
<1>2. CASE LoadCheckout(r)
  <2>1. "insertOrder" \notin Telling /\ "insertOrder" # "commit"
    BY DEF Telling
  <2> QED
    BY <1>1, <1>2, <2>1, ReadingOnGrows DEF LoadCheckout
<1>3. CASE InsertOrder(r)
  <2>1. PICK new : Guarded(r, TRUE, "order", {}, new, "insertOrderItem", loc[r])
    BY <1>3 DEF InsertOrder
  <2>2. "insertOrderItem" \notin Telling /\ "insertOrderItem" # "commit"
    BY DEF Telling
  <2> QED
    BY <2>1, <2>2, GuardedGrows
<1>4. CASE OrderView(r)
  <2>1. [NoLocals EXCEPT !.reply = "ok"].reply \notin {"created", "replayed"}
    BY DEF NoLocals
  <2> QED
    BY <1>1, <1>4, <2>1, NothingTold, ReadingOnGrows DEF OrderView, Answering
<1> QED
  BY <1>2, <1>3, <1>4, InsertOrderItemGrows DEF OrderStep

\* The attempt is inserted only when none of its order and key is there.
LEMMA InsertAttemptGrows ==
  ASSUME TypedInv, PromiseInv, NEW r \in Request, InsertAttempt(r)
  PROVE  Grows(r)
<1> DEFINE b == body[r]
           row == [id |-> r, order |-> b.order, key |-> b.key, outcome |-> b.outcome]
           s == AfterAttempt(b.outcome)
           l == [NoLocals EXCEPT !.reply = "created"]
<1>1. row.order = b.order /\ row.key = b.key /\ row.outcome = b.outcome
  OBVIOUS
<1>2. CASE Conflicts(r)
  <2>1. Reading(r, "replay", NoLocals)
    BY <1>2 DEF InsertAttempt
  <2>2. "replay" \notin Telling /\ "replay" # "commit"
    BY DEF Telling
  <2> QED
    BY <2>1, <2>2, ReadingOnGrows
<1>3. CASE ~Conflicts(r)
  <2>1. Guarded(r, TRUE, "attempt", {}, {row}, s, l)
    BY <1>1, <1>3 DEF InsertAttempt
  <2>2. l.reply = "created"
    BY DEF NoLocals
  <2>3. s \in {"insertPayment", "commit"} /\ (s = "insertPayment" <=> b.outcome = Succeeded)
    BY DEF AfterAttempt
  <2> HIDE DEF row, l, s
  <2>4. Wrote(r, "attempt", {}, {row}, s, l)
    BY <2>1, TableIs, GuardedWrites
  <2>5. db'.payment = db.payment /\ db'.orderItem = db.orderItem /\ db'.attempt = db.attempt \cup {row}
    BY <2>4, TableIs DEF Wrote
  <2>6. \A a \in db.attempt : ~(a.order = b.order /\ a.key = b.key)
    BY <1>3 DEF Conflicts, AttemptsWith
  <2>7. OneRow(db') /\ Backed(db')
    BY <1>1, <2>5, <2>6 DEF PromiseInv, OneRow, Backed
  <2>8. Stored(db', b)
    BY <1>1, <2>5 DEF Stored
  <2>9. ~Paying(r)'
    BY <2>3, <2>4 DEF Wrote, Paying
  <2> QED
    BY <2>3, <2>4, <2>5, <2>7, <2>8, <2>9 DEF Grows, Wrote
<1> QED
  BY <1>2, <1>3

\* The payment comes after its attempt, and once.
LEMMA InsertPaymentGrows ==
  ASSUME TypedInv, PromiseInv, NEW r \in Request, InsertPayment(r)
  PROVE  Grows(r)
<1> DEFINE b == body[r]
           row == [order |-> b.order]
<1>1. Guarded(r, Unpaid(r), "payment", {}, {row}, "commit", loc[r]) /\ row.order = b.order
  BY DEF InsertPayment
<1>2. Stored(db, b) /\ b.outcome = Succeeded
  BY DEF InsertPayment, Issues, PromiseInv, Promised
<1> HIDE DEF row
<1>3. (Unpaid(r) /\ Wrote(r, "payment", {}, {row}, "commit", loc[r])) \/ Ended(r)
  BY <1>1, TableIs, GuardedWrites
<1>4. CASE Ended(r)
  BY <1>4, EndedGrows
<1>5. CASE Unpaid(r) /\ Wrote(r, "payment", {}, {row}, "commit", loc[r])
  <2>1. /\ db'.attempt = db.attempt /\ db'.orderItem = db.orderItem
        /\ db'.payment = db.payment \cup {row}
    BY <1>5, TableIs DEF Wrote
  <2>2. OneRow(db')
    BY <2>1 DEF PromiseInv, OneRow
  <2>3. Backed(db')
    BY <1>1, <1>2, <2>1 DEF PromiseInv, Backed, Stored
  <2>4. Stored(db', b)
    BY <1>2, <2>1 DEF Stored
  <2>5. ~Paid(db, b.order) /\ Paid(db', b.order)
    BY <1>1, <1>5, <2>1 DEF Paid, Unpaid
  <2> QED
    BY <1>2, <1>5, <2>1, <2>2, <2>3, <2>4, <2>5 DEF Grows, Wrote
<1> QED
  BY <1>3, <1>4, <1>5

\* Every statement of PaymentService.
LEMMA PaymentStepGrows ==
  ASSUME TypedInv, PromiseInv, NEW r \in Request, PaymentStep(r)
  PROVE  Grows(r)
<1>1. ASSUME Reject(r) PROVE Grows(r)
  BY <1>1, RejectEnds, EndedGrows
<1>2. CASE LoadOrder(r)
  <2>1. "listAttempts" \notin Telling /\ "listAttempts" # "commit"
    BY DEF Telling
  <2> QED
    BY <1>1, <1>2, <2>1, ReadingOnGrows DEF LoadOrder
<1>3. CASE ListAttempts(r)
  <2>1. "insertAttempt" \notin Telling /\ "insertAttempt" # "commit"
    BY DEF Telling
  <2> QED
    BY <1>1, <1>3, <2>1, ReadingOnGrows, ReplayGrows DEF ListAttempts
<1>4. CASE Replay(r)
  <2>1. ASSUME Leave(r, "error") PROVE Grows(r)
    BY <2>1, LeaveEnds, EndedGrows DEF Rejected
  <2> QED
    BY <1>4, <2>1, ReplayGrows DEF Replay
<1> QED
  BY <1>2, <1>3, <1>4, InsertAttemptGrows, InsertPaymentGrows DEF PaymentStep

\* The transaction around the operation.
LEMMA TransactionGrows ==
  ASSUME TypedInv, PromiseInv, NEW r \in Request,
         Begin(r) \/ OpenTransaction(r) \/ Lock(r) \/ Commit(r) \/ TimeOut(r) \/ Abort(r)
  PROVE  Grows(r)
<1>1. OthersStay(r)
  BY BeginTyped, OpenTyped, LockTyped, CommitTyped, EndTyped, WritingIsAlone
<1>2. CASE Begin(r) \/ OpenTransaction(r)
  <2>1. pc'[r] \in {"begin", "lock"} /\ db' = db
    BY <1>2, TypedParts DEF Begin, OpenTransaction, GoTo
  <2> QED
    BY <1>1, <2>1 DEF PromiseInv, Grows, Promised, Paying
<1>3. CASE Lock(r)
  <2>1. body[r] \in Body
    BY <1>3, TypedParts DEF Lock, Issues
  <2>2. FirstStatement(body[r].op) \in {"loadCheckout", "loadOrder", "findCart"}
    BY <2>1, FirstIs
  <2>3. pc'[r] = FirstStatement(body[r].op) /\ db' = db
    BY <1>3, TypedParts DEF Lock, GoTo
  <2> QED
    BY <1>1, <2>2, <2>3 DEF PromiseInv, Grows, Promised, Paying
<1>4. CASE Commit(r)
  <2>1. pc[r] = "commit" /\ pc'[r] \in {Result(r), "lost"} /\ body'[r] = body[r] /\ db' = db
    BY <1>4, TypedParts DEF Commit, GoTo
  <2>2. pc'[r] \in {"created", "replayed", "ok", "lost"}
    BY <2>1 DEF Result
  <2>3. pc'[r] \in {"created", "replayed"} => loc[r].reply = pc'[r]
    BY <2>1 DEF Result
  <2> QED
    BY <1>1, <2>1, <2>2, <2>3 DEF PromiseInv, Grows, Promised, Paying
<1>5. CASE TimeOut(r) \/ Abort(r)
  <2>1. "timeout" \in Rejected /\ "aborted" \in Rejected
    BY DEF Rejected
  <2> QED
    BY <1>5, <2>1, LeaveEnds, EndedGrows DEF TimeOut, Abort
<1> QED
  BY <1>2, <1>3, <1>4, <1>5

\* The seed keeps its constraints, and nobody has been told anything yet.
LEMMA SeedKeepsPromises == Init => PromiseInv
  BY SeedKeepsConstraints DEF Init, PromiseInv, Promised, Paying, OneRow, Keys

\* And so does every step.
LEMMA StepKeepsPromises ==
  ASSUME TypedInv, PromiseInv, [Next]_vars
  PROVE  PromiseInv'
<1>1. CASE UNCHANGED vars
  BY <1>1 DEF vars, PromiseInv, Promised, Paying, Paid, Stored, OneRow, Backed
<1>2. CASE Next
  <2>1. PICK r \in Request : Begin(r) \/ Step(r) \/ TimeOut(r) \/ Abort(r)
    BY <1>2 DEF Next
  <2>2. Grows(r)
    BY <2>1, TransactionGrows, CartStepGrows, OrderStepGrows, PaymentStepGrows DEF Step
  <2> QED
    BY <2>2, GrowsKeeps
<1> QED
  BY <1>1, <1>2

\* The promises hold in every state.
LEMMA AlwaysPromises == Spec => [](TypedInv /\ PromiseInv)
  BY SeedKeepsTypedInv, StepKeepsTypedInv, SeedKeepsPromises, StepKeepsPromises, PTL DEF Spec

\* Whoever was answered 201, or 200 to a replay, was told what the one stored
\* attempt of that order and key says, however requests race, retry or die.
THEOREM AttemptsAreStoredAsTold == Spec => []AckedAttemptStored
<1>1. PromiseInv => AckedAttemptStored
  BY DEF PromiseInv, AckedAttemptStored, Promised, Stored, OneRow
<1> QED
  BY <1>1, AlwaysPromises, PTL

\* An order is only paid by an attempt that succeeded, and a cart line is only
\* in one order, likewise.
THEOREM PaymentsHaveTheirAttempt == Spec => []PaymentBacked
<1>1. PromiseInv => PaymentBacked
  BY DEF PromiseInv, PaymentBacked, OneRow, Backed
<1> QED
  BY <1>1, AlwaysPromises, PTL

\* Of the requests that race to pay an order, under whatever keys, at most one
\* is answered 201 for a success, and that order has its payment row: the
\* UNIQUE constraint of order_payments decides, not the has_payment read before.
THEOREM CreatedSuccessesAreOne == Spec => []OneCreatedSuccess
<1>1. PromiseInv => OneCreatedSuccess
  <2>1. \A r \in Request : CreatedSuccess(r) => Paying(r)
    BY DEF CreatedSuccess, Paying
  <2> QED
    BY <2>1 DEF PromiseInv, OneCreatedSuccess, Paid
<1> QED
  BY <1>1, AlwaysPromises, PTL

-----------------------------------------------------------------------------
(* What each statement does to the tables.                                 *)

\* Rows old of table t are replaced by new, and the other tables stay.
Changed(t, old, new) ==
  /\ db'[t] = (db[t] \ old) \cup new
  /\ \A u \in Table : u # t => db'[u] = db[u]

\* The rows of a line, and the rows that a request inserts.
ItemAt(line) == {i \in db.cartItem : i.id = line}
StockAt(line) == {s \in db.itemStock : s.item = line}
NewCart(r, n) == [id |-> r, customer |-> Buyer(r), created |-> n]
NewItem(r) == [id |-> r, cart |-> loc[r].cart, volume |-> loc[r].quantity]
NewStock(r) == [item |-> r, variant |-> body[r].variant, quantity |-> loc[r].quantity]
NewOrder(r) == [id |-> r, customer |-> Buyer(r), cash |-> Cash(loc[r].rows)]
NewOrderItem(r, l) == [line |-> l.line, order |-> r, volume |-> l.quantity]
NewAttempt(r) ==
  [id |-> r, order |-> body[r].order, key |-> body[r].key, outcome |-> body[r].outcome]
NewPayment(r) == [order |-> body[r].order]

\* What the statement of r at each label may write.
CartWrite(r) ==
  \/ pc[r] = "insertCart" /\ \E n : Changed("cart", {}, {NewCart(r, n)})
  \/ pc[r] = "insertItem" /\ Changed("cartItem", {}, {NewItem(r)})
  \/ pc[r] = "insertStock" /\ Changed("itemStock", {}, {NewStock(r)})
  \/ /\ pc[r] = "setVolume"
     /\ Changed("cartItem", ItemAt(loc[r].line),
                {[i EXCEPT !.volume = loc[r].quantity] : i \in ItemAt(loc[r].line)})
  \/ /\ pc[r] = "setQuantity"
     /\ Changed("itemStock", StockAt(loc[r].line),
                {[s EXCEPT !.quantity = loc[r].quantity] : s \in StockAt(loc[r].line)})
  \/ pc[r] = "deleteStock" /\ Changed("itemStock", StockAt(loc[r].line), {})
  \/ pc[r] = "deleteItem" /\ Changed("cartItem", ItemAt(loc[r].line), {})

OrderWrite(r) ==
  \/ pc[r] = "insertOrder" /\ Changed("order", {}, {NewOrder(r)})
  \/ /\ pc[r] = "insertOrderItem"
     /\ \E l \in loc[r].rows : Changed("orderItem", {}, {NewOrderItem(r, l)})

PaymentWrite(r) ==
  \/ pc[r] = "insertAttempt" /\ Changed("attempt", {}, {NewAttempt(r)})
  \/ pc[r] = "insertPayment" /\ Changed("payment", {}, {NewPayment(r)})

TableStep(r) == db' = db \/ CartWrite(r) \/ OrderWrite(r) \/ PaymentWrite(r)

\* What is written is a change of one table.
LEMMA GuardedChanges ==
  ASSUME TypedInv, NEW r \in Request, NEW allowed, NEW t \in Table, NEW old, NEW new, NEW s, NEW l,
         Guarded(r, allowed, t, old, new, s, l)
  PROVE  db' = db \/ Changed(t, old, new)
  BY GuardedWrites DEF Wrote, Changed, Ended

\* The statements of CartService.
LEMMA CartTables ==
  ASSUME TypedInv, NEW r \in Request, CartStep(r)
  PROVE  TableStep(r)
<1> USE TableIs
<1>1. CASE FindCart(r) \/ LoadVariant(r) \/ FindItem(r) \/ CartView(r)
  BY <1>1 DEF FindCart, LoadVariant, FindItem, CartView, Reading, Reject, Leave, TableStep
<1>2. CASE InsertCart(r)
  <2> DEFINE mine == {c \in db.cart : c.customer = Buyer(r)}
  <2>1. Guarded(r, TRUE, "cart", {}, {NewCart(r, Cardinality(mine))}, AfterCart(body[r].op), [NoLocals EXCEPT !.cart = r])
    BY <1>2 DEF InsertCart, NewCart
  <2> HIDE DEF mine
  <2>2. db' = db \/ Changed("cart", {}, {NewCart(r, Cardinality(mine))})
    BY <2>1, GuardedChanges
  <2> QED
    BY <1>2, <2>2 DEF InsertCart, Issues, TableStep, CartWrite
<1>3. CASE InsertItem(r)
  <2>1. Guarded(r, TRUE, "cartItem", {}, {NewItem(r)}, "insertStock", loc[r])
    BY <1>3 DEF InsertItem, NewItem
  <2> QED
    BY <1>3, <2>1, GuardedChanges DEF InsertItem, Issues, TableStep, CartWrite
<1>4. CASE InsertStock(r)
  <2>1. PICK allowed : Guarded(r, allowed, "itemStock", {}, {NewStock(r)}, "commit", NoLocals)
    BY <1>4 DEF InsertStock, NewStock
  <2> QED
    BY <1>4, <2>1, GuardedChanges DEF InsertStock, Issues, TableStep, CartWrite
<1>5. CASE SetVolume(r)
  <2> DEFINE new == {[i EXCEPT !.volume = loc[r].quantity] : i \in ItemAt(loc[r].line)}
  <2>1. Guarded(r, TRUE, "cartItem", ItemAt(loc[r].line), new, "setQuantity", loc[r])
    BY <1>5 DEF SetVolume, ItemAt
  <2> HIDE DEF new
  <2>2. db' = db \/ Changed("cartItem", ItemAt(loc[r].line), new)
    BY <2>1, GuardedChanges
  <2>3. pc[r] = "setVolume"
    BY <1>5 DEF SetVolume, Issues
  <2> QED
    BY <2>2, <2>3 DEF TableStep, CartWrite, new
<1>6. CASE SetQuantity(r)
  <2> DEFINE new == {[s EXCEPT !.quantity = loc[r].quantity] : s \in StockAt(loc[r].line)}
  <2>1. Guarded(r, TRUE, "itemStock", StockAt(loc[r].line), new, "commit", NoLocals)
    BY <1>6 DEF SetQuantity, StockAt
  <2> HIDE DEF new
  <2>2. db' = db \/ Changed("itemStock", StockAt(loc[r].line), new)
    BY <2>1, GuardedChanges
  <2>3. pc[r] = "setQuantity"
    BY <1>6 DEF SetQuantity, Issues
  <2> QED
    BY <2>2, <2>3 DEF TableStep, CartWrite, new
<1>7. CASE DeleteStock(r)
  <2>1. Guarded(r, TRUE, "itemStock", StockAt(loc[r].line), {}, "deleteItem", loc[r])
    BY <1>7 DEF DeleteStock, StockAt
  <2> QED
    BY <1>7, <2>1, GuardedChanges DEF DeleteStock, Issues, TableStep, CartWrite
<1>8. CASE DeleteItem(r)
  <2>1. PICK allowed : Guarded(r, allowed, "cartItem", ItemAt(loc[r].line), {}, "commit", NoLocals)
    BY <1>8 DEF DeleteItem, ItemAt
  <2> QED
    BY <1>8, <2>1, GuardedChanges DEF DeleteItem, Issues, TableStep, CartWrite
<1> QED
  BY <1>1, <1>2, <1>3, <1>4, <1>5, <1>6, <1>7, <1>8 DEF CartStep

\* The statements of OrderService and PaymentService.
LEMMA OrderTables ==
  ASSUME TypedInv, NEW r \in Request, OrderStep(r) \/ PaymentStep(r)
  PROVE  TableStep(r)
<1> USE TableIs
<1>1. CASE LoadCheckout(r) \/ OrderView(r)
  BY <1>1 DEF LoadCheckout, OrderView, Answering, Reading, Reject, Leave, TableStep
<1>2. CASE LoadOrder(r) \/ ListAttempts(r) \/ Replay(r)
  BY <1>2 DEF LoadOrder, ListAttempts, Replay, AnswerReplay, Answering, Reading, Reject, Leave, TableStep
<1>3. CASE InsertOrder(r)
  <2>1. Guarded(r, TRUE, "order", {}, {NewOrder(r)}, "insertOrderItem", loc[r])
    BY <1>3 DEF InsertOrder, NewOrder
  <2> QED
    BY <1>3, <2>1, GuardedChanges DEF InsertOrder, Issues, TableStep, OrderWrite
<1>4. CASE InsertOrderItem(r)
  <2>1. PICK x \in loc[r].rows : \E allowed, s, l :
          Guarded(r, allowed, "orderItem", {}, {NewOrderItem(r, x)}, s, l)
    BY <1>4 DEF InsertOrderItem, NewOrderItem, VolumeRead
  <2> QED
    BY <1>4, <2>1, GuardedChanges DEF InsertOrderItem, Issues, TableStep, OrderWrite
<1>5. CASE InsertAttempt(r)
  <2>1. CASE Conflicts(r)
    BY <1>5, <2>1 DEF InsertAttempt, Reading, TableStep
  <2>2. CASE ~Conflicts(r)
    <3>1. \E s, l : Guarded(r, TRUE, "attempt", {}, {NewAttempt(r)}, s, l)
      BY <1>5, <2>2 DEF InsertAttempt, NewAttempt
    <3> QED
      BY <1>5, <3>1, GuardedChanges DEF InsertAttempt, Issues, TableStep, PaymentWrite
  <2> QED
    BY <2>1, <2>2
<1>6. CASE InsertPayment(r)
  <2>1. Guarded(r, Unpaid(r), "payment", {}, {NewPayment(r)}, "commit", loc[r])
    BY <1>6 DEF InsertPayment, NewPayment
  <2> QED
    BY <1>6, <2>1, GuardedChanges DEF InsertPayment, Issues, TableStep, PaymentWrite
<1> QED
  BY <1>1, <1>2, <1>3, <1>4, <1>5, <1>6 DEF OrderStep, PaymentStep

\* Every step of a request.
LEMMA StepsOfTables ==
  ASSUME TypedInv, NEW r \in Request, Begin(r) \/ Step(r) \/ TimeOut(r) \/ Abort(r)
  PROVE  TableStep(r)
<1>1. CASE Begin(r) \/ OpenTransaction(r) \/ Lock(r) \/ Commit(r) \/ TimeOut(r) \/ Abort(r)
  BY <1>1 DEF Begin, OpenTransaction, Lock, Commit, TimeOut, Abort, Leave, TableStep
<1> QED
  BY <1>1, CartTables, OrderTables DEF Step

-----------------------------------------------------------------------------
(* Names.  A row carries the name of the request that inserted it, which is*)
(* past that statement and never comes back to it.                         *)

\* If a request made x, it is past the statements of rank n.
Past(x, n) == x \in Request => Rank(pc[x]) > n

NamedInv ==
  /\ \A c \in db.cart : Past(c.id, 4)
  /\ \A i \in db.cartItem : Past(i.id, 7)
  /\ \A s \in db.itemStock : Past(s.item, 8)
  /\ \A o \in db.order : Past(o.id, 4)
  /\ \A x, y \in db.cart : x.id = y.id => x = y
  /\ \A x, y \in db.cartItem : x.id = y.id => x = y
  /\ \A x, y \in db.itemStock : x.item = y.item => x = y
  /\ \A x, y \in db.order : x.id = y.id => x = y

\* Ranks only grow.
LEMMA PastStays ==
  ASSUME TypedInv, NEW r \in Request, Alone(r), NEW x, NEW n \in 0..12, Past(x, n), TypedInv'
  PROVE  Past(x, n)'
<1>1. CASE x = r
  <2>1. Rank(pc[r]) \in 0..12 /\ Rank(pc'[r]) \in 0..12
    BY RepliesAreLast DEF TypedInv, TypedAt
  <2>2. Rank(pc'[r]) >= Rank(pc[r])
    BY <2>1 DEF Alone, Further
  <2>3. Rank(pc[r]) > n
    BY <1>1 DEF Past
  <2>4. Rank(pc'[r]) > n
    BY <2>1, <2>2, <2>3
  <2> QED
    BY <1>1, <2>4 DEF Past
<1>2. CASE x # r
  BY <1>2 DEF Past, Alone, OthersStay
<1> QED
  BY <1>1, <1>2

\* The request that has just issued a statement that inserts is past it.
LEMMA MovedPast ==
  ASSUME TypedInv, TypedInv', NEW r \in Request, Alone(r), pc[r] # "insertOrderItem",
         NEW n \in 0..12, Rank(pc[r]) = n
  PROVE  Past(r, n)' /\ ~Past(r, n)
<1>1. Rank(pc[r]) \in 0..12 /\ Rank(pc'[r]) \in 0..12
  BY RepliesAreLast DEF TypedInv, TypedAt
<1>2. Rank(pc'[r]) > Rank(pc[r])
  BY DEF Alone, Further
<1> QED
  BY <1>1, <1>2 DEF Past

\* Nobody writes a table with a row it has not inserted.
LEMMA NamesStay ==
  ASSUME TypedInv, NamedInv, TypedInv', NEW r \in Request, Alone(r)
  PROVE  /\ \A c \in db.cart : Past(c.id, 4)'
         /\ \A i \in db.cartItem : Past(i.id, 7)'
         /\ \A s \in db.itemStock : Past(s.item, 8)'
         /\ \A o \in db.order : Past(o.id, 4)'
<1>1. 4 \in 0..12 /\ 7 \in 0..12 /\ 8 \in 0..12
  OBVIOUS
<1> QED
  BY <1>1, PastStays DEF NamedInv

\* Every step keeps the names and the keys.
LEMMA StepKeepsNames ==
  ASSUME TypedInv, NamedInv, TypedInv', NEW r \in Request, Alone(r), TableStep(r)
  PROVE  NamedInv'
<1> USE TableIs, Ranks
<1>1. /\ \A c \in db.cart : Past(c.id, 4)'
      /\ \A i \in db.cartItem : Past(i.id, 7)'
      /\ \A s \in db.itemStock : Past(s.item, 8)'
      /\ \A o \in db.order : Past(o.id, 4)'
  BY NamesStay
<1>2. CASE db' = db
  BY <1>1, <1>2 DEF NamedInv
<1>3. CASE CartWrite(r)
  <2>1. CASE pc[r] = "insertCart" /\ \E n : Changed("cart", {}, {NewCart(r, n)})
    <3>1. PICK n : Changed("cart", {}, {NewCart(r, n)})
      BY <2>1
    <3>2. Past(r, 4)' /\ ~Past(r, 4)
      BY <2>1, MovedPast
    <3>3. NewCart(r, n).id = r
      BY DEF NewCart
    <3> DEFINE c == NewCart(r, n)
    <3> HIDE DEF c
    <3>4. c.id = r /\ db'.cart = db.cart \cup {c} /\ db'.cartItem = db.cartItem
          /\ db'.itemStock = db.itemStock /\ db'.order = db.order
      BY <3>1, <3>3 DEF Changed, c
    <3> QED
      BY <1>1, <3>2, <3>4 DEF NamedInv
  <2>2. CASE pc[r] = "insertItem" /\ Changed("cartItem", {}, {NewItem(r)})
    <3>1. Past(r, 7)' /\ ~Past(r, 7)
      BY <2>2, MovedPast
    <3>2. NewItem(r).id = r
      BY DEF NewItem
    <3>3. db'.cartItem = db.cartItem \cup {NewItem(r)} /\ db'.cart = db.cart
          /\ db'.itemStock = db.itemStock /\ db'.order = db.order
      BY <2>2 DEF Changed
    <3> QED
      BY <1>1, <3>1, <3>2, <3>3 DEF NamedInv
  <2>3. CASE pc[r] = "insertStock" /\ Changed("itemStock", {}, {NewStock(r)})
    <3>1. Past(r, 8)' /\ ~Past(r, 8)
      BY <2>3, MovedPast
    <3>2. NewStock(r).item = r
      BY DEF NewStock
    <3>3. db'.itemStock = db.itemStock \cup {NewStock(r)} /\ db'.cart = db.cart
          /\ db'.cartItem = db.cartItem /\ db'.order = db.order
      BY <2>3 DEF Changed
    <3> QED
      BY <1>1, <3>1, <3>2, <3>3 DEF NamedInv
  <2>4. CASE Changed("cartItem", ItemAt(loc[r].line),
                     {[i EXCEPT !.volume = loc[r].quantity] : i \in ItemAt(loc[r].line)})
    <3> DEFINE new == {[i EXCEPT !.volume = loc[r].quantity] : i \in ItemAt(loc[r].line)}
    <3>1. db.cartItem \subseteq Row.cartItem
      BY TableTyped
    <3>2. \A i \in ItemAt(loc[r].line) : [i EXCEPT !.volume = loc[r].quantity].id = i.id
      BY <3>1 DEF ItemAt, Row
    <3>3. \A x \in new : \E i \in ItemAt(loc[r].line) : x.id = i.id
      BY <3>2
    <3>4. \A x, y \in new : x.id = y.id => x = y
      <4>1. \A i, j \in ItemAt(loc[r].line) : i = j
        BY DEF NamedInv, ItemAt
      <4> QED
        BY <4>1
    <3> HIDE DEF new
    <3>5. db'.cartItem = (db.cartItem \ ItemAt(loc[r].line)) \cup new /\ db'.cart = db.cart
          /\ db'.itemStock = db.itemStock /\ db'.order = db.order
      BY <2>4 DEF Changed, new
    <3>6. \A x \in db'.cartItem : Past(x.id, 7)'
      BY <1>1, <3>3, <3>5 DEF ItemAt
    <3>7. \A x, y \in db'.cartItem : x.id = y.id => x = y
      BY <3>3, <3>4, <3>5 DEF NamedInv, ItemAt
    <3> QED
      BY <1>1, <3>5, <3>6, <3>7 DEF NamedInv
  <2>5. CASE Changed("itemStock", StockAt(loc[r].line),
                     {[s EXCEPT !.quantity = loc[r].quantity] : s \in StockAt(loc[r].line)})
    <3> DEFINE new == {[s EXCEPT !.quantity = loc[r].quantity] : s \in StockAt(loc[r].line)}
    <3>1. db.itemStock \subseteq Row.itemStock
      BY TableTyped
    <3>2. \A s \in StockAt(loc[r].line) : [s EXCEPT !.quantity = loc[r].quantity].item = s.item
      BY <3>1 DEF StockAt, Row
    <3>3. \A x \in new : \E s \in StockAt(loc[r].line) : x.item = s.item
      BY <3>2
    <3>4. \A x, y \in new : x.item = y.item => x = y
      <4>1. \A i, j \in StockAt(loc[r].line) : i = j
        BY DEF NamedInv, StockAt
      <4> QED
        BY <4>1
    <3> HIDE DEF new
    <3>5. db'.itemStock = (db.itemStock \ StockAt(loc[r].line)) \cup new /\ db'.cart = db.cart
          /\ db'.cartItem = db.cartItem /\ db'.order = db.order
      BY <2>5 DEF Changed, new
    <3>6. \A x \in db'.itemStock : Past(x.item, 8)'
      BY <1>1, <3>3, <3>5 DEF StockAt
    <3>7. \A x, y \in db'.itemStock : x.item = y.item => x = y
      BY <3>3, <3>4, <3>5 DEF NamedInv, StockAt
    <3> QED
      BY <1>1, <3>5, <3>6, <3>7 DEF NamedInv
  <2>6. CASE Changed("itemStock", StockAt(loc[r].line), {})
    <3>1. db'.itemStock \subseteq db.itemStock /\ db'.cart = db.cart
          /\ db'.cartItem = db.cartItem /\ db'.order = db.order
      BY <2>6 DEF Changed
    <3> QED
      BY <1>1, <3>1 DEF NamedInv
  <2>7. CASE Changed("cartItem", ItemAt(loc[r].line), {})
    <3>1. db'.cartItem \subseteq db.cartItem /\ db'.cart = db.cart
          /\ db'.itemStock = db.itemStock /\ db'.order = db.order
      BY <2>7 DEF Changed
    <3> QED
      BY <1>1, <3>1 DEF NamedInv
  <2> QED
    BY <1>3, <2>1, <2>2, <2>3, <2>4, <2>5, <2>6, <2>7 DEF CartWrite
<1>4. CASE pc[r] = "insertOrder" /\ Changed("order", {}, {NewOrder(r)})
  <2>1. Past(r, 4)' /\ ~Past(r, 4)
    BY <1>4, MovedPast
  <2>2. NewOrder(r).id = r
    BY DEF NewOrder
  <2>3. db'.order = db.order \cup {NewOrder(r)} /\ db'.cart = db.cart
        /\ db'.cartItem = db.cartItem /\ db'.itemStock = db.itemStock
    BY <1>4 DEF Changed
  <2> QED
    BY <1>1, <2>1, <2>2, <2>3 DEF NamedInv
<1>5. CASE \E t \in {"orderItem", "attempt", "payment"} : \E new : Changed(t, {}, new)
  <2>1. db'.cart = db.cart /\ db'.cartItem = db.cartItem /\ db'.itemStock = db.itemStock /\ db'.order = db.order
    BY <1>5 DEF Changed
  <2> QED
    BY <1>1, <2>1 DEF NamedInv
<1>6. OrderWrite(r) \/ PaymentWrite(r) =>
        \/ pc[r] = "insertOrder" /\ Changed("order", {}, {NewOrder(r)})
        \/ \E t \in {"orderItem", "attempt", "payment"} : \E new : Changed(t, {}, new)
  BY DEF OrderWrite, PaymentWrite
<1> QED
  BY <1>2, <1>3, <1>4, <1>5, <1>6 DEF TableStep

\* The seed has names of its own.
LEMMA SeedKeepsNames == Init => NamedInv
<1> SUFFICES ASSUME Init PROVE NamedInv
  OBVIOUS
<1>1. db = SeedDb
  BY DEF Init
<1>2. \A t \in {"cart", "cartItem", "order"} : \A x \in SeedDb[t] : x.id \notin Request
  BY SeedIsNamed, RequestsAreNew
<1>3. \A s \in SeedDb.itemStock : s.item \notin Request
  <2>1. \A s \in SeedDb.itemStock : \E i \in SeedDb.cartItem : i.id = s.item
    BY SeedKeepsConstraints DEF References
  <2> QED
    BY <1>2, <2>1
<1> QED
  BY <1>1, <1>2, <1>3, SeedKeepsConstraints DEF NamedInv, Past, Keys

-----------------------------------------------------------------------------
(* Owners.  What a request has read of its buyer's carts, lines and orders *)
(* may be old when it is used, but it never becomes another buyer's.       *)

\* The line was made, and as long as it is there, it is in a cart of the buyer.
Mine(who, line) ==
  /\ Past(line, 7)
  /\ \A i \in db.cartItem : i.id = line => CartOf(db, who, i.cart)

\* What request r relies on at label s, with locals l and body b.
Owns(r, s, l, b) ==
  /\ s \in {"loadVariant", "findItem", "insertItem", "cartView"} => CartOf(db, b.customer, l.cart)
  /\ s = "insertStock" => Mine(b.customer, r)
  /\ s \in {"setVolume", "setQuantity", "deleteStock", "deleteItem"} => Mine(b.customer, l.line)
  /\ s \in {"insertOrder", "insertOrderItem"} => \A x \in l.rows : Mine(b.customer, x.line)
  /\ s \in {"listAttempts", "insertAttempt", "replay", "insertPayment"} =>
       OrderOf(db, b.customer, b.order)

OwnInv == \A r \in Request : Owns(r, pc[r], loc[r], body[r])

\* The labels at which a request relies on something.
Relying ==
  {"loadVariant", "findItem", "insertItem", "cartView", "insertStock", "setVolume", "setQuantity",
   "deleteStock", "deleteItem", "insertOrder", "insertOrderItem", "listAttempts", "insertAttempt",
   "replay", "insertPayment"}

\* Nothing is relied on elsewhere.
LEMMA RestOwns ==
  ASSUME NEW r, NEW s, s \notin Relying, NEW l, NEW b
  PROVE  Owns(r, s, l, b)
  BY DEF Owns, Relying

\* Carts and orders stay, and lines stay in their carts: a step of r may only
\* add its own, and does so once.
RowsKept(r) ==
  /\ db.cart \subseteq db'.cart
  /\ db.order \subseteq db'.order
  /\ \A x \in db'.cartItem :
       \/ \E i \in db.cartItem : i.id = x.id /\ i.cart = x.cart
       \/ ~Past(x.id, 7)

\* Every step keeps the rows in this sense.
LEMMA StepKeepsRows ==
  ASSUME TypedInv, NEW r \in Request, TableStep(r)
  PROVE  RowsKept(r)
<1> USE TableIs
<1>1. CASE pc[r] = "insertItem" /\ Changed("cartItem", {}, {NewItem(r)})
  <2>1. NewItem(r).id = r
    BY DEF NewItem
  <2>2. ~Past(r, 7)
    BY <1>1, Ranks DEF Past
  <2> QED
    BY <1>1, <2>1, <2>2 DEF Changed, RowsKept
<1>2. CASE Changed("cartItem", ItemAt(loc[r].line),
                   {[i EXCEPT !.volume = loc[r].quantity] : i \in ItemAt(loc[r].line)})
  <2> DEFINE new == {[i EXCEPT !.volume = loc[r].quantity] : i \in ItemAt(loc[r].line)}
  <2>1. db.cartItem \subseteq Row.cartItem
    BY TableTyped
  <2>2. \A x \in new : \E i \in db.cartItem : i.id = x.id /\ i.cart = x.cart
    BY <2>1 DEF ItemAt, Row
  <2> HIDE DEF new
  <2>3. db'.cartItem \subseteq db.cartItem \cup new /\ db'.cart = db.cart /\ db'.order = db.order
    BY <1>2 DEF Changed, new
  <2> QED
    BY <2>2, <2>3 DEF RowsKept
<1>3. CASE \E t \in {"itemStock", "orderItem", "attempt", "payment"} : \E old, new : Changed(t, old, new)
  BY <1>3 DEF Changed, RowsKept
<1>4. CASE \E t \in {"cart", "order"} : \E new : Changed(t, {}, new)
  BY <1>4 DEF Changed, RowsKept
<1>5. CASE \E old : Changed("cartItem", old, {})
  BY <1>5 DEF Changed, RowsKept
<1>6. CASE db' = db
  BY <1>6 DEF RowsKept
<1>7. CASE CartWrite(r)
  BY <1>1, <1>2, <1>3, <1>4, <1>5, <1>7 DEF CartWrite
<1>8. CASE OrderWrite(r) \/ PaymentWrite(r)
  BY <1>3, <1>4, <1>8 DEF OrderWrite, PaymentWrite
<1> QED
  BY <1>6, <1>7, <1>8 DEF TableStep

\* A cart stays with its buyer, and so does an order.
LEMMA OwnersStay ==
  ASSUME NEW r \in Request, RowsKept(r), NEW who, NEW x
  PROVE  /\ CartOf(db, who, x) => CartOf(db', who, x)
         /\ OrderOf(db, who, x) => OrderOf(db', who, x)
  BY DEF RowsKept, CartOf, OrderOf

\* So does a line.
LEMMA MineStays ==
  ASSUME TypedInv, TypedInv', NEW r \in Request, RowsKept(r), Alone(r), NEW who, NEW line, Mine(who, line)
  PROVE  Mine(who, line)'
<1>1. Past(line, 7)'
  <2>1. 7 \in 0..12
    OBVIOUS
  <2> QED
    BY <2>1, PastStays DEF Mine
<1>2. ASSUME NEW x \in db'.cartItem, x.id = line PROVE CartOf(db', who, x.cart)
  <2>1. PICK i \in db.cartItem : i.id = x.id /\ i.cart = x.cart
    BY <1>2 DEF RowsKept, Mine
  <2> QED
    BY <1>2, <2>1, OwnersStay DEF Mine
<1> QED
  BY <1>1, <1>2 DEF Mine

\* What a request relies on stays.
LEMMA OwnsStays ==
  ASSUME TypedInv, TypedInv', NEW r \in Request, RowsKept(r), Alone(r),
         NEW q, NEW s, NEW l, NEW b, Owns(q, s, l, b)
  PROVE  /\ s \in {"loadVariant", "findItem", "insertItem", "cartView"} => CartOf(db', b.customer, l.cart)
         /\ s = "insertStock" => Mine(b.customer, q)'
         /\ s \in {"setVolume", "setQuantity", "deleteStock", "deleteItem"} => Mine(b.customer, l.line)'
         /\ s \in {"insertOrder", "insertOrderItem"} => \A x \in l.rows : Mine(b.customer, x.line)'
         /\ s \in {"listAttempts", "insertAttempt", "replay", "insertPayment"} =>
              OrderOf(db', b.customer, b.order)
  BY OwnersStay, MineStays DEF Owns

\* What r relies on after a step, said of the tables before it.
Relies(r) == Owns(r, pc'[r], loc'[r], body'[r])

\* A line that is shown in a cart of the buyer is the buyer's.
LEMMA LineIsMine ==
  ASSUME NamedInv, NEW who, NEW cart, CartOf(db, who, cart), NEW x \in LinesOf(cart)
  PROVE  Mine(who, x.line)
<1>1. PICK i \in db.cartItem : i.id = x.line /\ i.cart = cart
  BY DEF LinesOf
<1> QED
  BY <1>1 DEF NamedInv, Mine

\* A rejected request relies on nothing.
LEMMA EndedRelies ==
  ASSUME NEW r \in Request, Ended(r)
  PROVE  Relies(r)
<1>1. pc'[r] \notin Relying
  BY DEF Ended, Rejected, Relying
<1> QED
  BY <1>1, RestOwns DEF Relies

\* A statement that reads relies on what it has read.
LEMMA ReadingRelies ==
  ASSUME TypedInv, NEW r \in Request, NEW s, NEW l, Reading(r, s, l), Owns(r, s, l, body[r])
  PROVE  Relies(r)
  BY ReadingReads DEF Read, Relies

\* The same for one that writes and goes on.
LEMMA GuardedRelies ==
  ASSUME TypedInv, NEW r \in Request, NEW allowed, NEW t \in Table, NEW old, NEW new, NEW s, NEW l,
         Guarded(r, allowed, t, old, new, s, l), Owns(r, s, l, body[r])
  PROVE  Relies(r)
  BY GuardedWrites, EndedRelies DEF Wrote, Relies

\* The statements of CartService.
LEMMA CartRelies ==
  ASSUME TypedInv, NamedInv, OwnInv, NEW r \in Request, CartStep(r), ~InsertCart(r), ~InsertItem(r)
  PROVE  Relies(r)
<1> USE TableIs
<1>1. Owns(r, pc[r], loc[r], body[r]) /\ Buyer(r) = body[r].customer
  BY DEF OwnInv, Buyer
<1>2. DOMAIN loc[r] = DOMAIN NoLocals
  BY TypedParts
<1>3. ASSUME Reject(r) PROVE Relies(r)
  BY <1>3, RejectEnds, EndedRelies
<1>4. ASSUME NEW t \in Table, NEW allowed, NEW old, NEW new, NEW l, Guarded(r, allowed, t, old, new, "commit", l)
      PROVE  Relies(r)
  <2>1. "commit" \notin Relying
    BY DEF Relying
  <2> QED
    BY <1>4, <2>1, RestOwns, GuardedRelies
<1>5. CASE FindCart(r)
  <2>1. CASE Reading(r, AfterCart(body[r].op), [NoLocals EXCEPT !.cart = Newest(ActiveCarts(r)).id])
    <3> DEFINE c == Newest(ActiveCarts(r))
               l == [NoLocals EXCEPT !.cart = c.id]
    <3>1. CASE ActiveCarts(r) # {}
      <4>1. ActiveCarts(r) \subseteq Row.cart /\ IsFiniteSet(ActiveCarts(r))
        BY TableTyped, FS_Subset DEF ActiveCarts
      <4>2. c \in ActiveCarts(r)
        BY <3>1, <4>1, NewestIs DEF Row
      <4>3. CartOf(db, body[r].customer, c.id)
        BY <1>1, <4>2 DEF ActiveCarts, CartOf
      <4>4. l.cart = c.id
        BY DEF NoLocals
      <4>5. AfterCart(body[r].op) \in {"commit", "loadVariant", "cartView"}
        BY DEF AfterCart
      <4> HIDE DEF c, l
      <4>6. Owns(r, AfterCart(body[r].op), l, body[r])
        BY <4>3, <4>4, <4>5 DEF Owns
      <4> QED
        BY <2>1, <4>6, ReadingRelies DEF l, c
    <3>2. CASE ActiveCarts(r) = {}
      <4>1. Reading(r, "insertCart", NoLocals) \/ Reject(r)
        BY <1>5, <3>2 DEF FindCart
      <4>2. "insertCart" \notin Relying
        BY DEF Relying
      <4> QED
        BY <1>3, <4>1, <4>2, RestOwns, ReadingRelies
    <3> QED
      BY <3>1, <3>2
  <2>2. CASE Reading(r, "insertCart", NoLocals)
    <3>1. "insertCart" \notin Relying
      BY DEF Relying
    <3> QED
      BY <2>2, <3>1, RestOwns, ReadingRelies
  <2> QED
    BY <1>3, <1>5, <2>1, <2>2 DEF FindCart
<1>6. CASE LoadVariant(r)
  <2>1. PICK a : Reading(r, "findItem", [loc[r] EXCEPT !.available = a]) \/ Reject(r)
    BY <1>6 DEF LoadVariant
  <2>2. [loc[r] EXCEPT !.available = a].cart = loc[r].cart
    BY <1>2 DEF NoLocals
  <2> DEFINE l == [loc[r] EXCEPT !.available = a]
  <2> HIDE DEF l
  <2>3. Owns(r, "findItem", l, body[r])
    BY <1>1, <1>6, <2>2 DEF LoadVariant, Issues, Owns, l
  <2> QED
    BY <1>3, <2>1, <2>3, ReadingRelies DEF l
<1>7. CASE FindItem(r)
  <2>1. CartOf(db, body[r].customer, loc[r].cart)
    BY <1>1, <1>7 DEF FindItem, Issues, Owns
  <2>2. CASE Reading(r, "insertItem", [loc[r] EXCEPT !.quantity = body[r].quantity])
    <3> DEFINE l == [loc[r] EXCEPT !.quantity = body[r].quantity]
    <3>1. l.cart = loc[r].cart
      BY <1>2 DEF NoLocals
    <3> HIDE DEF l
    <3>2. Owns(r, "insertItem", l, body[r])
      BY <2>1, <3>1 DEF Owns
    <3> QED
      BY <2>2, <3>2, ReadingRelies DEF l
  <2>3. ASSUME NEW x \in LinesOf(loc[r].cart), NEW q, Reading(r, "setVolume", [loc[r] EXCEPT !.line = x.line, !.quantity = q])
        PROVE  Relies(r)
    <3> DEFINE l == [loc[r] EXCEPT !.line = x.line, !.quantity = q]
    <3>1. l.line = x.line
      BY <1>2 DEF NoLocals
    <3> HIDE DEF l
    <3>2. Owns(r, "setVolume", l, body[r])
      BY <2>1, <3>1, LineIsMine DEF Owns
    <3> QED
      BY <2>3, <3>2, ReadingRelies DEF l
  <2> QED
    BY <1>3, <1>7, <2>2, <2>3 DEF FindItem
<1>8. CASE CartView(r)
  <2>1. CartOf(db, body[r].customer, loc[r].cart)
    BY <1>1, <1>8 DEF CartView, Issues, Owns
  <2>2. CASE Reject(r)
    BY <1>3, <2>2
  <2>3. CASE ~Reject(r)
    <3>1. PICK x \in LinesOf(loc[r].cart) : x.line = body[r].line
      BY <1>8, <2>3 DEF CartView
    <3>2. Mine(body[r].customer, body[r].line)
      BY <2>1, <3>1, LineIsMine
    <3>3. PICK s \in {"deleteStock", "setVolume"} : \E l : Reading(r, s, l) /\ l.line = body[r].line
      <4>1. CASE Reading(r, "deleteStock", [NoLocals EXCEPT !.line = body[r].line])
        <5>1. [NoLocals EXCEPT !.line = body[r].line].line = body[r].line
          BY DEF NoLocals
        <5> QED
          BY <4>1, <5>1
      <4>2. CASE Reading(r, "setVolume", [NoLocals EXCEPT !.line = body[r].line, !.quantity = body[r].quantity])
        <5>1. [NoLocals EXCEPT !.line = body[r].line, !.quantity = body[r].quantity].line = body[r].line
          BY DEF NoLocals
        <5> QED
          BY <4>2, <5>1
      <4> QED
        BY <1>8, <2>3, <4>1, <4>2 DEF CartView
    <3>4. PICK l : Reading(r, s, l) /\ l.line = body[r].line
      BY <3>3
    <3>5. Owns(r, s, l, body[r])
      BY <3>2, <3>4 DEF Owns
    <3> QED
      BY <3>4, <3>5, ReadingRelies
  <2> QED
    BY <2>2, <2>3
<1>9. CASE SetVolume(r)
  <2>1. PICK old, new : Guarded(r, TRUE, "cartItem", old, new, "setQuantity", loc[r])
    BY <1>9 DEF SetVolume
  <2>2. Owns(r, "setQuantity", loc[r], body[r])
    BY <1>1, <1>9 DEF SetVolume, Issues, Owns
  <2> QED
    BY <2>1, <2>2, GuardedRelies
<1>10. CASE DeleteStock(r)
  <2>1. PICK old : Guarded(r, TRUE, "itemStock", old, {}, "deleteItem", loc[r])
    BY <1>10 DEF DeleteStock
  <2>2. Owns(r, "deleteItem", loc[r], body[r])
    BY <1>1, <1>10 DEF DeleteStock, Issues, Owns
  <2> QED
    BY <2>1, <2>2, GuardedRelies
<1>11. CASE InsertStock(r)
  <2>1. PICK allowed, new : Guarded(r, allowed, "itemStock", {}, new, "commit", NoLocals)
    BY <1>11 DEF InsertStock
  <2> QED
    BY <1>4, <2>1
<1>12. CASE SetQuantity(r)
  <2>1. PICK old, new : Guarded(r, TRUE, "itemStock", old, new, "commit", NoLocals)
    BY <1>12 DEF SetQuantity
  <2> QED
    BY <1>4, <2>1
<1>13. CASE DeleteItem(r)
  <2>1. PICK allowed, old : Guarded(r, allowed, "cartItem", old, {}, "commit", NoLocals)
    BY <1>13 DEF DeleteItem
  <2> QED
    BY <1>4, <2>1
<1> QED
  BY <1>5, <1>6, <1>7, <1>8, <1>9, <1>10, <1>11, <1>12, <1>13 DEF CartStep

\* The statements of OrderService.
LEMMA OrderRelies ==
  ASSUME TypedInv, NamedInv, OwnInv, NEW r \in Request, OrderStep(r)
  PROVE  Relies(r)
<1> USE TableIs
<1>1. Owns(r, pc[r], loc[r], body[r]) /\ Buyer(r) = body[r].customer
  BY DEF OwnInv, Buyer
<1>2. DOMAIN loc[r] = DOMAIN NoLocals
  BY TypedParts
<1>3. ASSUME Reject(r) PROVE Relies(r)
  BY <1>3, RejectEnds, EndedRelies
<1>4. CASE LoadCheckout(r)
  <2> DEFINE rows == CheckoutRows(r, body[r].cart)
             l == [NoLocals EXCEPT !.rows = rows]
  <2>1. \A x \in rows : Mine(body[r].customer, x.line)
    <3>1. ASSUME NEW x \in rows PROVE Mine(body[r].customer, x.line)
      <4>1. x \in LinesOf(body[r].cart) /\ CartOf(db, body[r].customer, body[r].cart)
        BY <1>1, <3>1 DEF CheckoutRows, CartOf
      <4> QED
        BY <4>1, LineIsMine
    <3> QED
      BY <3>1
  <2>2. l.rows = rows
    BY DEF NoLocals
  <2>3. Reading(r, "insertOrder", l) \/ Reject(r)
    BY <1>4 DEF LoadCheckout
  <2> HIDE DEF l, rows
  <2>4. Owns(r, "insertOrder", l, body[r])
    BY <2>1, <2>2 DEF Owns
  <2> QED
    BY <1>3, <2>3, <2>4, ReadingRelies
<1>5. CASE InsertOrder(r)
  <2>1. PICK new : Guarded(r, TRUE, "order", {}, new, "insertOrderItem", loc[r])
    BY <1>5 DEF InsertOrder
  <2>2. Owns(r, "insertOrderItem", loc[r], body[r])
    BY <1>1, <1>5 DEF InsertOrder, Issues, Owns
  <2> QED
    BY <2>1, <2>2, GuardedRelies
<1>6. CASE InsertOrderItem(r)
  <2>1. PICK x \in loc[r].rows : \E allowed, new : \E s \in {"orderView", "insertOrderItem"} :
          Guarded(r, allowed, "orderItem", {}, new, s, [loc[r] EXCEPT !.rows = loc[r].rows \ {x}])
    BY <1>6 DEF InsertOrderItem
  <2> DEFINE l == [loc[r] EXCEPT !.rows = loc[r].rows \ {x}]
  <2>2. l.rows \subseteq loc[r].rows
    BY <1>2 DEF NoLocals
  <2> HIDE DEF l
  <2>3. Owns(r, "insertOrderItem", l, body[r]) /\ Owns(r, "orderView", l, body[r])
    BY <1>1, <1>6, <2>2 DEF InsertOrderItem, Issues, Owns
  <2> QED
    BY <2>1, <2>3, GuardedRelies DEF l
<1>7. CASE OrderView(r)
  <2>1. "commit" \notin Relying
    BY DEF Relying
  <2>2. (\E l : Reading(r, "commit", l)) \/ Reject(r)
    BY <1>7 DEF OrderView, Answering
  <2> QED
    BY <1>3, <2>1, <2>2, RestOwns, ReadingRelies
<1> QED
  BY <1>4, <1>5, <1>6, <1>7 DEF OrderStep

\* The statements of PaymentService.
LEMMA PaymentRelies ==
  ASSUME TypedInv, OwnInv, NEW r \in Request, PaymentStep(r)
  PROVE  Relies(r)
<1> USE TableIs
<1>1. Owns(r, pc[r], loc[r], body[r]) /\ Buyer(r) = body[r].customer
  BY DEF OwnInv, Buyer
<1>2. "commit" \notin Relying
  BY DEF Relying
<1>3. ASSUME Reject(r) \/ Leave(r, "error") PROVE Relies(r)
  BY <1>3, RejectEnds, LeaveEnds, EndedRelies DEF Rejected
<1>4. ASSUME NEW a, AnswerReplay(r, a) PROVE Relies(r)
  <2>1. (\E l : Reading(r, "commit", l)) \/ Reject(r)
    BY <1>4 DEF AnswerReplay, Answering
  <2> QED
    BY <1>2, <1>3, <2>1, RestOwns, ReadingRelies
<1>5. CASE LoadOrder(r)
  <2>1. CASE Reject(r)
    BY <1>3, <2>1
  <2>2. CASE ~Reject(r)
    <3>1. PICK l : Reading(r, "listAttempts", l)
      BY <1>5, <2>2 DEF LoadOrder
    <3>2. OrderOf(db, body[r].customer, body[r].order)
      BY <1>1, <1>5, <2>2 DEF LoadOrder, OrderOfBuyer, OrderOf
    <3>3. Owns(r, "listAttempts", l, body[r])
      BY <3>2 DEF Owns
    <3> QED
      BY <3>1, <3>3, ReadingRelies
  <2> QED
    BY <2>1, <2>2
<1>6. CASE ListAttempts(r)
  <2>1. (\E a : AnswerReplay(r, a)) \/ Reading(r, "insertAttempt", NoLocals) \/ Reject(r)
    BY <1>6 DEF ListAttempts
  <2>2. Owns(r, "insertAttempt", NoLocals, body[r])
    BY <1>1, <1>6 DEF ListAttempts, Issues, Owns
  <2> QED
    BY <1>3, <1>4, <2>1, <2>2, ReadingRelies
<1>7. CASE InsertAttempt(r)
  <2>1. OrderOf(db, body[r].customer, body[r].order)
    BY <1>1, <1>7 DEF InsertAttempt, Issues, Owns
  <2>2. \/ Reading(r, "replay", NoLocals)
        \/ \E new, l : Guarded(r, TRUE, "attempt", {}, new, AfterAttempt(body[r].outcome), l)
    BY <1>7 DEF InsertAttempt
  <2>3. \A l : Owns(r, "replay", l, body[r]) /\ Owns(r, AfterAttempt(body[r].outcome), l, body[r])
    BY <2>1 DEF Owns, AfterAttempt
  <2> QED
    BY <2>2, <2>3, ReadingRelies, GuardedRelies
<1>8. CASE Replay(r)
  BY <1>3, <1>4, <1>8 DEF Replay
<1>9. CASE InsertPayment(r)
  <2>1. PICK new : Guarded(r, Unpaid(r), "payment", {}, new, "commit", loc[r])
    BY <1>9 DEF InsertPayment
  <2> QED
    BY <1>2, <2>1, RestOwns, GuardedRelies
<1> QED
  BY <1>5, <1>6, <1>7, <1>8, <1>9 DEF PaymentStep

\* The transaction around them.
LEMMA TransactionRelies ==
  ASSUME TypedInv, NEW r \in Request,
         Begin(r) \/ OpenTransaction(r) \/ Lock(r) \/ Commit(r) \/ TimeOut(r) \/ Abort(r)
  PROVE  Relies(r)
<1>1. CASE Begin(r) \/ OpenTransaction(r)
  <2>1. pc'[r] \in {"begin", "lock"}
    BY <1>1, TypedParts DEF Begin, OpenTransaction, GoTo
  <2>2. pc'[r] \notin Relying
    BY <2>1 DEF Relying
  <2> QED
    BY <2>2, RestOwns DEF Relies
<1>2. CASE Lock(r)
  <2>1. body[r] \in Body
    BY <1>2, TypedParts DEF Lock, Issues
  <2>2. pc'[r] \in {"loadCheckout", "loadOrder", "findCart"}
    BY <1>2, <2>1, FirstIs, TypedParts DEF Lock, GoTo
  <2>3. pc'[r] \notin Relying
    BY <2>2 DEF Relying
  <2> QED
    BY <2>3, RestOwns DEF Relies
<1>3. CASE Commit(r)
  <2>1. pc'[r] \in {"created", "replayed", "ok", "lost"}
    BY <1>3, TypedParts DEF Commit, GoTo, Result
  <2>2. pc'[r] \notin Relying
    BY <2>1 DEF Relying
  <2> QED
    BY <2>2, RestOwns DEF Relies
<1>4. CASE TimeOut(r) \/ Abort(r)
  <2>1. "timeout" \in Rejected /\ "aborted" \in Rejected
    BY DEF Rejected
  <2> QED
    BY <1>4, <2>1, LeaveEnds, EndedRelies DEF TimeOut, Abort
<1> QED
  BY <1>1, <1>2, <1>3, <1>4

\* What r relies on, where it is.
Relied(r) == Owns(r, pc[r], loc[r], body[r])

\* A statement that inserts a cart goes on with that cart.
LEMMA InsertCartOwns ==
  ASSUME TypedInv, NEW r \in Request, InsertCart(r)
  PROVE  Relied(r)'
<1> USE TableIs
<1> DEFINE n == Cardinality({c \in db.cart : c.customer = Buyer(r)})
           l == [NoLocals EXCEPT !.cart = r]
<1>1. Guarded(r, TRUE, "cart", {}, {NewCart(r, n)}, AfterCart(body[r].op), l)
  BY DEF InsertCart, NewCart
<1>2. l.cart = r
  BY DEF NoLocals
<1>3. NewCart(r, n).id = r /\ NewCart(r, n).customer = body[r].customer
  BY DEF NewCart, Buyer
<1> HIDE DEF n, l
<1>4. Wrote(r, "cart", {}, {NewCart(r, n)}, AfterCart(body[r].op), l)
  BY <1>1, GuardedWrites
<1>5. NewCart(r, n) \in db'.cart
  BY <1>4 DEF Wrote
<1>6. CartOf(db', body'[r].customer, loc'[r].cart)
  BY <1>2, <1>3, <1>4, <1>5 DEF CartOf, Wrote
<1>7. pc'[r] \in {"commit", "loadVariant", "cartView"}
  BY <1>4 DEF Wrote, AfterCart
<1> QED
  BY <1>6, <1>7 DEF Relied, Owns

\* So does one that inserts a line.
LEMMA InsertItemOwns ==
  ASSUME TypedInv, TypedInv', NamedInv, OwnInv, NEW r \in Request, InsertItem(r), Alone(r)
  PROVE  Relied(r)'
<1> USE TableIs, Ranks
<1>1. Guarded(r, TRUE, "cartItem", {}, {NewItem(r)}, "insertStock", loc[r])
  BY DEF InsertItem, NewItem
<1>2. NewItem(r).id = r /\ NewItem(r).cart = loc[r].cart
  BY DEF NewItem
<1>3. Wrote(r, "cartItem", {}, {NewItem(r)}, "insertStock", loc[r])
  BY <1>1, GuardedWrites
<1>4. pc[r] = "insertItem"
  BY DEF InsertItem, Issues
<1>5. CartOf(db, body[r].customer, loc[r].cart)
  BY <1>4 DEF OwnInv, Owns
<1>6. CartOf(db', body'[r].customer, loc[r].cart)
  BY <1>3, <1>5 DEF CartOf, Wrote
<1>7. Past(r, 7)' /\ ~Past(r, 7)
  <2>1. 7 \in 0..12 /\ Rank(pc[r]) = 7
    BY <1>4
  <2> QED
    BY <1>4, <2>1, MovedPast
<1>8. \A i \in db'.cartItem : i.id = r => i.cart = loc[r].cart
  BY <1>2, <1>3, <1>7 DEF Wrote, NamedInv
<1>9. \A i \in db'.cartItem : i.id = r => CartOf(db', body'[r].customer, i.cart)
  BY <1>6, <1>8
<1>10. pc'[r] = "insertStock"
  BY <1>3 DEF Wrote
<1> QED
  BY <1>7, <1>9, <1>10 DEF Relied, Owns, Mine, Past

\* What is relied on before a step with the place and locals after it, is relied
\* on after it.
LEMMA StaysOwned ==
  ASSUME TypedInv, TypedInv', NEW r \in Request, RowsKept(r), Alone(r),
         NEW q \in Request, Owns(q, pc'[q], loc'[q], body'[q])
  PROVE  Relied(q)'
<1>1. \E s, l, b : s = pc'[q] /\ l = loc'[q] /\ b = body'[q]
  OBVIOUS
<1>2. PICK s, l, b : s = pc'[q] /\ l = loc'[q] /\ b = body'[q]
  BY <1>1
<1>3. Owns(q, s, l, b)
  BY <1>2
<1>4. /\ s \in {"loadVariant", "findItem", "insertItem", "cartView"} => CartOf(db', b.customer, l.cart)
      /\ s = "insertStock" => Mine(b.customer, q)'
      /\ s \in {"setVolume", "setQuantity", "deleteStock", "deleteItem"} => Mine(b.customer, l.line)'
      /\ s \in {"insertOrder", "insertOrderItem"} => \A x \in l.rows : Mine(b.customer, x.line)'
      /\ s \in {"listAttempts", "insertAttempt", "replay", "insertPayment"} =>
           OrderOf(db', b.customer, b.order)
  BY <1>3, OwnsStays
<1> QED
  BY <1>2, <1>4 DEF Relied, Owns, Mine, Past

\* Every step keeps what requests rely on.
LEMMA StepKeepsOwns ==
  ASSUME TypedInv, TypedInv', NamedInv, OwnInv, NEW r \in Request, Alone(r),
         Begin(r) \/ Step(r) \/ TimeOut(r) \/ Abort(r)
  PROVE  OwnInv'
<1>1. RowsKept(r)
  BY StepsOfTables, StepKeepsRows
<1>2. ASSUME NEW q \in Request, q # r PROVE Relied(q)'
  <2>1. Owns(q, pc[q], loc[q], body[q])
    BY DEF OwnInv
  <2>2. pc'[q] = pc[q] /\ loc'[q] = loc[q] /\ body'[q] = body[q]
    BY <1>2 DEF Alone, OthersStay
  <2>3. Owns(q, pc'[q], loc'[q], body'[q])
    BY <2>1, <2>2
  <2> QED
    BY <1>1, <2>3, StaysOwned
<1>3. Relied(r)'
  <2>1. CASE InsertCart(r)
    BY <2>1, InsertCartOwns
  <2>2. CASE InsertItem(r)
    BY <2>2, InsertItemOwns
  <2>3. CASE ~InsertCart(r) /\ ~InsertItem(r)
    <3>1. Relies(r)
      BY <2>3, CartRelies, OrderRelies, PaymentRelies, TransactionRelies DEF Step
    <3> QED
      BY <1>1, <3>1, StaysOwned DEF Relies
  <2> QED
    BY <2>1, <2>2, <2>3
<1>4. \A q \in Request : Relied(q)'
  BY <1>2, <1>3
<1> QED
  BY <1>4 DEF OwnInv, Relied

\* In the beginning nobody relies on anything.
LEMMA SeedKeepsOwns == Init => OwnInv
<1> SUFFICES ASSUME Init, NEW r \in Request PROVE Owns(r, pc[r], loc[r], body[r])
  BY DEF OwnInv
<1>1. pc[r] \notin Relying
  BY DEF Init, Relying
<1> QED
  BY <1>1, RestOwns

-----------------------------------------------------------------------------
(* Whole orders.  A checkout inserts its order with the sum of the rows it *)
(* has read, and an item for each of these rows, whatever becomes of the   *)
(* rows meanwhile.                                                         *)

\* The lines were made, and their stock rows, as long as they are there, still
\* name the variant they were read with.
Known(rows) ==
  \A x \in rows :
    /\ Past(x.line, 8)
    /\ \A s \in db.itemStock : s.item = x.line => s.variant = x.variant

\* The order of r sums up the rows all, and has an item for each but those left.
OrderedAs(d, r, b, all, left) ==
  /\ all \subseteq LineRow /\ all # {} /\ left \subseteq all
  /\ [id |-> r, customer |-> b.customer, cash |-> Cash(all)] \in d.order
  /\ ItemsOf(d, r) = {NewOrderItem(r, x) : x \in all \ left}

\* r is a checkout that has inserted its order.
Ordering(r) ==
  /\ pc[r] \in {"insertOrderItem", "orderView", "commit", "ok", "lost"}
  /\ body[r].op = "createOrder"

\* What a checkout knows of its order.
WholeAt(r) ==
  /\ pc[r] = "insertOrder" => loc[r].rows # {} /\ Known(loc[r].rows)
  /\ Ordering(r) =>
       /\ pc[r] # "insertOrderItem" => loc[r].rows = {}
       /\ \E all : Known(all) /\ OrderedAs(db, r, body[r], all, loc[r].rows)

WholeInv ==
  /\ \A oi \in db.orderItem : Past(oi.order, 4)
  /\ \A r \in Request : WholeAt(r)

\* What happens to order items, orders and stock rows in a step of r: stock
\* rows keep their variant, and items are added to its own order.
SoldKept(r) ==
  /\ db.order \subseteq db'.order
  /\ db.orderItem \subseteq db'.orderItem
  /\ \A oi \in db'.orderItem : oi \in db.orderItem \/ (oi.order = r /\ Past(r, 4))
  /\ \A x \in db'.itemStock :
       \/ \E s \in db.itemStock : s.item = x.item /\ s.variant = x.variant
       \/ ~Past(x.item, 8)

\* Every step keeps them in this sense.
LEMMA StepKeepsSold ==
  ASSUME TypedInv, NEW r \in Request, TableStep(r)
  PROVE  SoldKept(r)
<1> USE TableIs
<1>1. CASE pc[r] = "insertStock" /\ Changed("itemStock", {}, {NewStock(r)})
  <2>1. NewStock(r).item = r
    BY DEF NewStock
  <2>2. ~Past(r, 8)
    BY <1>1, Ranks DEF Past
  <2> QED
    BY <1>1, <2>1, <2>2 DEF Changed, SoldKept
<1>2. CASE Changed("itemStock", StockAt(loc[r].line),
                   {[s EXCEPT !.quantity = loc[r].quantity] : s \in StockAt(loc[r].line)})
  <2> DEFINE new == {[s EXCEPT !.quantity = loc[r].quantity] : s \in StockAt(loc[r].line)}
  <2>1. db.itemStock \subseteq Row.itemStock
    BY TableTyped
  <2>2. \A x \in new : \E s \in db.itemStock : s.item = x.item /\ s.variant = x.variant
    BY <2>1 DEF StockAt, Row
  <2> HIDE DEF new
  <2>3. /\ db'.itemStock \subseteq db.itemStock \cup new
        /\ db'.order = db.order /\ db'.orderItem = db.orderItem
    BY <1>2 DEF Changed, new
  <2> QED
    BY <2>2, <2>3 DEF SoldKept
<1>3. CASE \E t \in {"cart", "cartItem", "attempt", "payment"} : \E old, new : Changed(t, old, new)
  BY <1>3 DEF Changed, SoldKept
<1>4. CASE \E new : Changed("order", {}, new)
  BY <1>4 DEF Changed, SoldKept
<1>5. CASE \E old : Changed("itemStock", old, {})
  BY <1>5 DEF Changed, SoldKept
<1>6. CASE pc[r] = "insertOrderItem" /\ \E l \in loc[r].rows : Changed("orderItem", {}, {NewOrderItem(r, l)})
  <2>1. \A l : NewOrderItem(r, l).order = r
    BY DEF NewOrderItem
  <2>2. Past(r, 4)
    BY <1>6, Ranks DEF Past
  <2> QED
    BY <1>6, <2>1, <2>2 DEF Changed, SoldKept
<1>7. CASE db' = db
  BY <1>7 DEF SoldKept
<1>8. CASE CartWrite(r)
  BY <1>1, <1>2, <1>3, <1>5, <1>8 DEF CartWrite
<1>9. CASE OrderWrite(r) \/ PaymentWrite(r)
  BY <1>3, <1>4, <1>6, <1>9 DEF OrderWrite, PaymentWrite
<1> QED
  BY <1>7, <1>8, <1>9 DEF TableStep

\* Rows that are known stay known.
LEMMA KnownStays ==
  ASSUME TypedInv, TypedInv', NEW r \in Request, Alone(r), SoldKept(r), NEW rows, Known(rows)
  PROVE  Known(rows)'
<1>1. ASSUME NEW x \in rows PROVE Past(x.line, 8)'
  <2>1. Past(x.line, 8) /\ 8 \in 0..12
    BY DEF Known
  <2> QED
    BY <2>1, PastStays
<1>2. ASSUME NEW x \in rows, NEW s \in db'.itemStock, s.item = x.line PROVE s.variant = x.variant
  BY <1>2 DEF SoldKept, Known
<1> QED
  BY <1>1, <1>2 DEF Known

\* The items of another request's order stay as they are.
LEMMA ItemsStay ==
  ASSUME NEW r \in Request, SoldKept(r), NEW q, q # r
  PROVE  ItemsOf(db', q) = ItemsOf(db, q)
  BY DEF SoldKept, ItemsOf

\* Another request's order stays what it was.
LEMMA OtherStaysWhole ==
  ASSUME TypedInv, TypedInv', NEW r \in Request, Alone(r), SoldKept(r),
         NEW q \in Request, q # r, WholeAt(q)
  PROVE  WholeAt(q)'
<1>1. pc'[q] = pc[q] /\ loc'[q] = loc[q] /\ body'[q] = body[q]
  BY DEF Alone, OthersStay
<1>2. \A rows : Known(rows) => Known(rows)'
  BY KnownStays
<1>3. ASSUME pc[q] = "insertOrder" PROVE loc'[q].rows # {} /\ Known(loc[q].rows)'
  <2>1. PICK rows : rows = loc[q].rows
    OBVIOUS
  <2>2. rows # {} /\ Known(rows)
    BY <1>3, <2>1 DEF WholeAt
  <2>3. Known(rows)'
    BY <1>2, <2>2
  <2> QED
    BY <1>1, <2>1, <2>2, <2>3 DEF Known
<1>4. ASSUME Ordering(q)
      PROVE  /\ pc[q] # "insertOrderItem" => loc'[q].rows = {}
             /\ \E all : Known(all)' /\ OrderedAs(db', q, body'[q], all, loc'[q].rows)
  <2>1. PICK all : Known(all) /\ OrderedAs(db, q, body[q], all, loc[q].rows)
    BY <1>4 DEF WholeAt
  <2>2. Known(all)'
    BY <1>2, <2>1
  <2>3. ItemsOf(db', q) = ItemsOf(db, q)
    BY ItemsStay
  <2>4. OrderedAs(db', q, body'[q], all, loc'[q].rows)
    BY <1>1, <2>1, <2>3 DEF OrderedAs, SoldKept
  <2> QED
    BY <1>1, <1>4, <2>2, <2>4 DEF WholeAt
<1> QED
  BY <1>1, <1>3, <1>4 DEF WholeAt, Ordering, Known

\* A request that is at none of the labels knows nothing of an order.
LEMMA NotOrdering ==
  ASSUME NEW r \in Request,
         pc[r] \notin {"insertOrder", "insertOrderItem", "orderView"},
         pc[r] \in {"commit", "ok", "lost"} => body[r].op # "createOrder"
  PROVE  WholeAt(r)
  BY DEF WholeAt, Ordering

\* The same after a step.
LEMMA NotOrderingNext ==
  ASSUME NEW r \in Request,
         pc'[r] \notin {"insertOrder", "insertOrderItem", "orderView"},
         pc'[r] \in {"commit", "ok", "lost"} => body'[r].op # "createOrder"
  PROVE  WholeAt(r)'
  BY DEF WholeAt, Ordering

\* A rejected checkout promises nothing.
LEMMA EndedWhole ==
  ASSUME NEW r \in Request, Ended(r)
  PROVE  WholeAt(r)'
<1>1. pc'[r] \notin {"insertOrder", "insertOrderItem", "orderView", "commit", "ok", "lost"}
  BY DEF Ended, Rejected
<1> QED
  BY <1>1, NotOrderingNext

\* The statements of the other two services are not a checkout's.
LEMMA ElsewhereWhole ==
  ASSUME TypedInv, TypedInv', NEW r \in Request, CartStep(r) \/ PaymentStep(r)
  PROVE  WholeAt(r)'
<1>1. ~Ended(r) => body'[r] = body[r]
  <2>1. \A t \in Table : \A allowed, old, new, s, l :
          Guarded(r, allowed, t, old, new, s, l) => Ended(r) \/ body'[r] = body[r]
    BY GuardedWrites DEF Wrote
  <2>2. \A s, l : Reading(r, s, l) => body'[r] = body[r]
    BY ReadingReads DEF Read
  <2>3. Reject(r) \/ Leave(r, "error") => Ended(r)
    BY RejectEnds, LeaveEnds DEF Rejected
  <2>4. CASE CartStep(r)
    <3>1. FindCart(r) \/ LoadVariant(r) \/ FindItem(r) \/ CartView(r) => body'[r] = body[r] \/ Reject(r)
      BY <2>2 DEF FindCart, LoadVariant, FindItem, CartView
    <3>2. InsertCart(r) \/ InsertItem(r) \/ InsertStock(r) \/ SetVolume(r) \/ SetQuantity(r)
          \/ DeleteStock(r) \/ DeleteItem(r) => body'[r] = body[r] \/ Ended(r)
      BY <2>1, TableIs DEF InsertCart, InsertItem, InsertStock, SetVolume, SetQuantity, DeleteStock, DeleteItem
    <3> QED
      BY <2>3, <2>4, <3>1, <3>2 DEF CartStep
  <2>5. CASE PaymentStep(r)
    <3>1. LoadOrder(r) \/ ListAttempts(r) \/ Replay(r) => body'[r] = body[r] \/ Reject(r) \/ Leave(r, "error")
      BY <2>2 DEF LoadOrder, ListAttempts, Replay, AnswerReplay, Answering
    <3>2. InsertAttempt(r) \/ InsertPayment(r) => body'[r] = body[r] \/ Ended(r)
      BY <2>1, <2>2, TableIs DEF InsertAttempt, InsertPayment
    <3> QED
      BY <2>3, <2>5, <3>1, <3>2 DEF PaymentStep
  <2> QED
    BY <2>4, <2>5
<1>2. body[r].op \in CartOps \cup {"createAttempt"}
  <2>1. CartStep(r) => pc[r] \in {"findCart", "insertCart", "loadVariant", "findItem", "insertItem",
           "insertStock", "cartView", "setVolume", "setQuantity", "deleteStock", "deleteItem"}
    BY DEF CartStep, FindCart, InsertCart, LoadVariant, FindItem, InsertItem, InsertStock, CartView,
           SetVolume, SetQuantity, DeleteStock, DeleteItem, Issues
  <2>2. PaymentStep(r) =>
          pc[r] \in {"loadOrder", "listAttempts", "insertAttempt", "replay", "insertPayment"}
    BY DEF PaymentStep, LoadOrder, ListAttempts, InsertAttempt, Replay, InsertPayment, Issues
  <2>3. BodyFits(pc[r], body[r])
    BY TypedParts
  <2> QED
    BY <2>1, <2>2, <2>3 DEF BodyFits, CartOps
<1>3. CASE Ended(r)
  BY <1>3, EndedWhole
<1>4. CASE ~Ended(r)
  <2>1. body'[r].op # "createOrder"
    BY <1>1, <1>2, <1>4 DEF CartOps
  <2>2. BodyFits(pc'[r], body'[r])
    BY DEF TypedInv, TypedAt
  <2>3. pc'[r] \notin {"insertOrder", "insertOrderItem", "orderView"}
    BY <2>1, <2>2 DEF BodyFits
  <2> QED
    BY <2>1, <2>3, NotOrderingNext
<1> QED
  BY <1>3, <1>4

\* The rows that a checkout reads are known.
LEMMA LoadCheckoutWhole ==
  ASSUME TypedInv, TypedInv', NamedInv, NEW r \in Request, LoadCheckout(r), Alone(r), SoldKept(r)
  PROVE  WholeAt(r)'
<1> DEFINE rows == CheckoutRows(r, body[r].cart)
           l == [NoLocals EXCEPT !.rows = rows]
<1>1. CASE Reject(r)
  BY <1>1, RejectEnds, EndedWhole
<1>2. CASE Reading(r, "insertOrder", l) /\ rows # {}
  <2>1. Known(rows)
    <3>1. ASSUME NEW x \in rows
          PROVE  Past(x.line, 8) /\ \A s \in db.itemStock : s.item = x.line => s.variant = x.variant
      <4>1. x \in LinesOf(body[r].cart)
        BY DEF CheckoutRows
      <4>2. PICK i \in db.cartItem, s \in db.itemStock :
              s.item = i.id /\ x = [line |-> i.id, variant |-> s.variant, quantity |-> s.quantity]
        BY <4>1 DEF LinesOf
      <4>3. x.line = s.item /\ x.variant = s.variant
        BY <4>2
      <4> QED
        BY <4>3 DEF NamedInv
    <3> QED
      BY <3>1 DEF Known
  <2>2. l.rows = rows
    BY DEF NoLocals
  <2> HIDE DEF l, rows
  <2>3. PICK R : R = rows
    OBVIOUS
  <2>4. Known(R)
    BY <2>1, <2>3
  <2>5. Known(R)'
    BY <2>4, KnownStays
  <2>6. pc'[r] = "insertOrder" /\ loc'[r].rows = R
    BY <1>2, <2>2, <2>3, ReadingReads DEF Read
  <2> QED
    BY <1>2, <2>3, <2>5, <2>6 DEF WholeAt, Ordering, Known
<1> QED
  BY <1>1, <1>2 DEF LoadCheckout

\* The order is inserted with their sum, and no item.
LEMMA InsertOrderWhole ==
  ASSUME TypedInv, TypedInv', WholeInv, NEW r \in Request, InsertOrder(r), Alone(r), SoldKept(r)
  PROVE  WholeAt(r)'
<1> USE TableIs
<1>1. Guarded(r, TRUE, "order", {}, {NewOrder(r)}, "insertOrderItem", loc[r])
  BY DEF InsertOrder, NewOrder
<1>2. Wrote(r, "order", {}, {NewOrder(r)}, "insertOrderItem", loc[r])
  BY <1>1, GuardedWrites
<1>3. pc[r] = "insertOrder"
  BY DEF InsertOrder, Issues
<1>4. PICK all : all = loc[r].rows
  OBVIOUS
<1>5. all # {} /\ Known(all)
  BY <1>3, <1>4 DEF WholeInv, WholeAt
<1>6. Known(all)'
  BY <1>5, KnownStays
<1>7. all \subseteq LineRow
  BY <1>4, TypedParts DEF LocTyped
<1>8. ItemsOf(db', r) = {}
  <2>1. db'.orderItem = db.orderItem
    BY <1>2 DEF Wrote
  <2>2. ~Past(r, 4)
    BY <1>3, Ranks DEF Past
  <2> QED
    BY <2>1, <2>2 DEF ItemsOf, WholeInv
<1>9. NewOrder(r) \in db'.order
  BY <1>2 DEF Wrote
<1>10. [id |-> r, customer |-> body'[r].customer, cash |-> Cash(all)] \in db'.order
  BY <1>2, <1>4, <1>9 DEF NewOrder, Wrote, Buyer
<1>11. all \ all = {}
  OBVIOUS
<1>12. OrderedAs(db', r, body'[r], all, all)
  BY <1>5, <1>7, <1>8, <1>10, <1>11 DEF OrderedAs
<1>13. pc'[r] = "insertOrderItem" /\ loc'[r].rows = all
  BY <1>2, <1>4 DEF Wrote
<1> QED
  BY <1>6, <1>12, <1>13 DEF WholeAt, Ordering, Known

\* Each of them gets its item.
LEMMA InsertOrderItemWhole ==
  ASSUME TypedInv, TypedInv', WholeInv, NEW r \in Request, InsertOrderItem(r), Alone(r), SoldKept(r)
  PROVE  WholeAt(r)'
<1> USE TableIs
<1>1. PICK x \in loc[r].rows : \E allowed :
        Guarded(r, allowed, "orderItem", {}, {NewOrderItem(r, x)},
                IF loc[r].rows \ {x} = {} THEN "orderView" ELSE "insertOrderItem",
                [loc[r] EXCEPT !.rows = loc[r].rows \ {x}])
  BY DEF InsertOrderItem, NewOrderItem, VolumeRead
<1> DEFINE l == [loc[r] EXCEPT !.rows = loc[r].rows \ {x}]
           s == IF loc[r].rows \ {x} = {} THEN "orderView" ELSE "insertOrderItem"
<1>2. l.rows = loc[r].rows \ {x}
  BY TypedParts DEF NoLocals
<1>3. s \in {"orderView", "insertOrderItem"} /\ (s = "orderView" => loc[r].rows \ {x} = {})
  OBVIOUS
<1> HIDE DEF l, s
<1>4. CASE Ended(r)
  BY <1>4, EndedWhole
<1>5. CASE Wrote(r, "orderItem", {}, {NewOrderItem(r, x)}, s, l)
  <2>1. pc[r] = "insertOrderItem"
    BY DEF InsertOrderItem, Issues
  <2>2. body[r].op = "createOrder"
    BY <2>1, TypedParts DEF BodyFits
  <2>3. PICK all : Known(all) /\ OrderedAs(db, r, body[r], all, loc[r].rows)
    BY <2>1, <2>2 DEF WholeInv, WholeAt, Ordering
  <2>4. Known(all)'
    BY <2>3, KnownStays
  <2>5. db'.orderItem = db.orderItem \cup {NewOrderItem(r, x)} /\ db'.order = db.order
        /\ pc'[r] = s /\ loc'[r] = l /\ body'[r] = body[r]
    BY <1>5 DEF Wrote
  <2>6. ItemsOf(db', r) = ItemsOf(db, r) \cup {NewOrderItem(r, x)}
    <3>1. NewOrderItem(r, x).order = r
      BY DEF NewOrderItem
    <3> QED
      BY <2>5, <3>1 DEF ItemsOf
  <2>7. all \ (loc[r].rows \ {x}) = (all \ loc[r].rows) \cup {x}
    BY <2>3 DEF OrderedAs
  <2>8. {NewOrderItem(r, y) : y \in (all \ loc[r].rows) \cup {x}}
          = {NewOrderItem(r, y) : y \in all \ loc[r].rows} \cup {NewOrderItem(r, x)}
    OBVIOUS
  <2>9. ItemsOf(db', r) = {NewOrderItem(r, y) : y \in all \ l.rows}
    BY <1>2, <2>3, <2>6, <2>7, <2>8 DEF OrderedAs
  <2>10. OrderedAs(db', r, body'[r], all, loc'[r].rows)
    BY <1>2, <2>3, <2>5, <2>9 DEF OrderedAs
  <2> QED
    BY <1>2, <1>3, <2>4, <2>5, <2>10 DEF WholeAt, Ordering, Known
<1> QED
  BY <1>1, <1>4, <1>5, GuardedWrites DEF l, s

\* The checkout is read back and answered.
LEMMA AnsweredWhole ==
  ASSUME TypedInv, TypedInv', WholeInv, NEW r \in Request, Alone(r), SoldKept(r),
         pc[r] \in {"orderView", "commit"}, db' = db, body'[r] = body[r], loc'[r].rows = {},
         pc'[r] \in {"commit", "created", "replayed", "ok", "lost"}
  PROVE  WholeAt(r)'
<1>1. CASE body[r].op = "createOrder"
  <2>1. PICK all : Known(all) /\ OrderedAs(db, r, body[r], all, loc[r].rows)
    BY <1>1 DEF WholeInv, WholeAt, Ordering
  <2>2. Known(all)'
    BY <2>1, KnownStays
  <2>3. loc[r].rows = {}
    BY <1>1 DEF WholeInv, WholeAt, Ordering
  <2>4. OrderedAs(db', r, body'[r], all, loc'[r].rows)
    BY <2>1, <2>3 DEF OrderedAs
  <2> QED
    BY <2>2, <2>4 DEF WholeAt, Ordering, Known
<1>2. CASE body[r].op # "createOrder"
  BY <1>2, NotOrderingNext
<1> QED
  BY <1>1, <1>2

\* Every step of r keeps what it knows of its order.
LEMMA OwnStaysWhole ==
  ASSUME TypedInv, TypedInv', NamedInv, WholeInv, NEW r \in Request, Alone(r), SoldKept(r),
         Begin(r) \/ Step(r) \/ TimeOut(r) \/ Abort(r)
  PROVE  WholeAt(r)'
<1>1. CASE CartStep(r) \/ PaymentStep(r)
  BY <1>1, ElsewhereWhole
<1>2. CASE LoadCheckout(r) \/ InsertOrder(r) \/ InsertOrderItem(r)
  BY <1>2, LoadCheckoutWhole, InsertOrderWhole, InsertOrderItemWhole
<1>3. CASE OrderView(r)
  <2>1. CASE Reject(r)
    BY <2>1, RejectEnds, EndedWhole
  <2>2. CASE ~Reject(r)
    <3> DEFINE l == [NoLocals EXCEPT !.reply = "ok"]
    <3>1. Reading(r, "commit", l)
      BY <1>3, <2>2 DEF OrderView, Answering
    <3>2. l.rows = {}
      BY DEF NoLocals
    <3> HIDE DEF l
    <3>3. Read(r, "commit", l)
      BY <3>1, ReadingReads
    <3>4. pc[r] = "orderView"
      BY <1>3 DEF OrderView, Issues
    <3> QED
      BY <3>2, <3>3, <3>4, AnsweredWhole DEF Read
  <2> QED
    BY <2>1, <2>2
<1>4. CASE Commit(r)
  <2>1. pc'[r] \in {"created", "replayed", "ok", "lost"}
    BY <1>4, TypedParts DEF Commit, GoTo, Result
  <2>2. loc'[r] = NoLocals /\ body'[r] = body[r] /\ db' = db /\ pc[r] = "commit"
    BY <1>4, TypedParts DEF Commit
  <2>3. loc'[r].rows = {}
    BY <2>2 DEF NoLocals
  <2> QED
    BY <2>1, <2>2, <2>3, AnsweredWhole
<1>5. CASE Begin(r) \/ OpenTransaction(r) \/ Lock(r)
  <2>1. Lock(r) => body[r] \in Body
    BY TypedParts DEF Lock, Issues
  <2>2. pc'[r] \in {"begin", "lock", "loadCheckout", "loadOrder", "findCart"}
    BY <1>5, <2>1, FirstIs, TypedParts DEF Begin, OpenTransaction, Lock, GoTo
  <2> QED
    BY <2>2, NotOrderingNext
<1>6. CASE TimeOut(r) \/ Abort(r)
  <2>1. "timeout" \in Rejected /\ "aborted" \in Rejected
    BY DEF Rejected
  <2> QED
    BY <1>6, <2>1, LeaveEnds, EndedWhole DEF TimeOut, Abort
<1> QED
  BY <1>1, <1>2, <1>3, <1>4, <1>5, <1>6 DEF Step, OrderStep

\* Every step keeps what checkouts know of their orders.
LEMMA StepKeepsWhole ==
  ASSUME TypedInv, TypedInv', NamedInv, WholeInv, NEW r \in Request, Alone(r),
         Begin(r) \/ Step(r) \/ TimeOut(r) \/ Abort(r)
  PROVE  WholeInv'
<1>1. SoldKept(r)
  BY StepsOfTables, StepKeepsSold
<1>2. ASSUME NEW oi \in db'.orderItem PROVE Past(oi.order, 4)'
  <2>1. Past(oi.order, 4)
    BY <1>1, <1>2 DEF SoldKept, WholeInv
  <2>2. 4 \in 0..12
    OBVIOUS
  <2> QED
    BY <2>1, <2>2, PastStays
<1>3. ASSUME NEW q \in Request PROVE WholeAt(q)'
  BY <1>1, OwnStaysWhole, OtherStaysWhole DEF WholeInv
<1> QED
  BY <1>2, <1>3 DEF WholeInv

\* The seed's orders are nobody's checkout.
LEMMA SeedKeepsWhole == Init => WholeInv
<1> SUFFICES ASSUME Init PROVE WholeInv
  OBVIOUS
<1>1. db = SeedDb /\ \A r \in Request : pc[r] = "idle"
  BY DEF Init
<1>2. \A oi \in SeedDb.orderItem : oi.order \notin Request
  <2>1. \A oi \in SeedDb.orderItem : \E o \in SeedDb.order : o.id = oi.order
    BY SeedKeepsConstraints DEF References
  <2>2. \A o \in SeedDb.order : o.id \notin Request
    BY SeedIsNamed, RequestsAreNew
  <2> QED
    BY <2>1, <2>2
<1>3. \A r \in Request : WholeAt(r)
  BY <1>1, NotOrdering
<1> QED
  BY <1>1, <1>2, <1>3 DEF WholeInv, Past

\* What a checkout that was answered knows is what it was answered for.
LEMMA KnownIsSold ==
  ASSUME NEW r, NEW all, all \subseteq LineRow, Known(all),
         ItemsOf(db, r) = {NewOrderItem(r, x) : x \in all},
         \A oi \in ItemsOf(db, r) : \E s \in db.itemStock : s.item = oi.line
  PROVE  Sold(db, r) = all
<1> DEFINE line(oi, s) == [line |-> oi.line, variant |-> s.variant, quantity |-> oi.volume]
<1>1. \A oi \in db.orderItem, s \in db.itemStock :
        oi.order = r /\ s.item = oi.line => line(oi, s) \in all
  <2>1. ASSUME NEW oi \in db.orderItem, NEW s \in db.itemStock, oi.order = r, s.item = oi.line
        PROVE  line(oi, s) \in all
    <3>1. PICK x \in all : oi = NewOrderItem(r, x)
      BY <2>1 DEF ItemsOf
    <3>2. oi.line = x.line /\ oi.volume = x.quantity
      BY <3>1 DEF NewOrderItem
    <3>3. s.variant = x.variant
      BY <2>1, <3>2 DEF Known
    <3>4. x = [line |-> x.line, variant |-> x.variant, quantity |-> x.quantity]
      BY DEF LineRow
    <3> QED
      BY <3>2, <3>3, <3>4
  <2> QED
    BY <2>1
<1>2. \A x \in all : \E oi \in db.orderItem, s \in db.itemStock :
        oi.order = r /\ s.item = oi.line /\ line(oi, s) = x
  <2>1. ASSUME NEW x \in all
        PROVE  \E oi \in db.orderItem, s \in db.itemStock :
                 oi.order = r /\ s.item = oi.line /\ line(oi, s) = x
    <3>1. NewOrderItem(r, x) \in ItemsOf(db, r)
      OBVIOUS
    <3>2. PICK s \in db.itemStock : s.item = NewOrderItem(r, x).line
      BY <3>1
    <3>3. NewOrderItem(r, x).line = x.line /\ NewOrderItem(r, x).volume = x.quantity
          /\ NewOrderItem(r, x).order = r
      BY DEF NewOrderItem
    <3>4. s.variant = x.variant
      BY <3>2, <3>3 DEF Known
    <3>5. x = [line |-> x.line, variant |-> x.variant, quantity |-> x.quantity]
      BY DEF LineRow
    <3>6. line(NewOrderItem(r, x), s) = x
      BY <3>3, <3>4, <3>5
    <3>7. NewOrderItem(r, x) \in db.orderItem
      BY <3>1 DEF ItemsOf
    <3> QED
      BY <3>2, <3>3, <3>6, <3>7
  <2> QED
    BY <2>1
<1>3. Sold(db, r) = {line(p[1], p[2]) :
                       p \in {q \in db.orderItem \X db.itemStock : q[1].order = r /\ q[2].item = q[1].line}}
  BY DEF Sold
<1> HIDE DEF line
<1>4. ASSUME NEW x \in Sold(db, r) PROVE x \in all
  BY <1>1, <1>3, <1>4
<1>5. ASSUME NEW x \in all PROVE x \in Sold(db, r)
  <2>1. PICK oi \in db.orderItem, s \in db.itemStock : oi.order = r /\ s.item = oi.line /\ line(oi, s) = x
    BY <1>2
  <2>2. <<oi, s>> \in db.orderItem \X db.itemStock /\ <<oi, s>>[1] = oi /\ <<oi, s>>[2] = s
    OBVIOUS
  <2> QED
    BY <1>3, <2>1, <2>2
<1> QED
  BY <1>4, <1>5

\* From the invariant to what it says of answered checkouts.
LEMMA WholeIsAnswered == WholeInv => AnsweredOrderIsWhole
<1> SUFFICES ASSUME WholeInv, NEW r \in Request,
                    pc[r] \in {"ok", "lost"}, body[r].op = "createOrder"
             PROVE  \E o \in db.order :
                      /\ o.id = r /\ o.customer = Buyer(r)
                      /\ ItemsOf(db, r) # {}
                      /\ (\A oi \in ItemsOf(db, r) : \E s \in db.itemStock : s.item = oi.line)
                           => o.cash = Cash(Sold(db, r))
  BY DEF AnsweredOrderIsWhole
<1>1. PICK all : Known(all) /\ OrderedAs(db, r, body[r], all, {})
  <2>1. Ordering(r) /\ pc[r] # "insertOrderItem"
    BY DEF Ordering
  <2> QED
    BY <2>1 DEF WholeInv, WholeAt
<1>2. ItemsOf(db, r) = {NewOrderItem(r, x) : x \in all} /\ all # {} /\ all \subseteq LineRow
  <2>1. all \ {} = all
    OBVIOUS
  <2> QED
    BY <1>1, <2>1 DEF OrderedAs
<1>3. ItemsOf(db, r) # {}
  BY <1>2
<1>4. (\A oi \in ItemsOf(db, r) : \E s \in db.itemStock : s.item = oi.line) => Sold(db, r) = all
  BY <1>1, <1>2, KnownIsSold
<1>5. [id |-> r, customer |-> body[r].customer, cash |-> Cash(all)] \in db.order
  BY <1>1 DEF OrderedAs
<1> WITNESS [id |-> r, customer |-> body[r].customer, cash |-> Cash(all)] \in db.order
<1> QED
  BY <1>3, <1>4 DEF Buyer

\* The whole inductive invariant.
RowsInv == NamedInv /\ OwnInv /\ WholeInv

\* It holds in every state.
LEMMA AlwaysRows == Spec => [](TypedInv /\ RowsInv)
<1>1. Init => TypedInv /\ RowsInv
  BY SeedKeepsTypedInv, SeedKeepsNames, SeedKeepsOwns, SeedKeepsWhole DEF RowsInv
<1>2. TypedInv /\ RowsInv /\ [Next]_vars => TypedInv' /\ RowsInv'
  <2>1. ASSUME TypedInv, RowsInv, UNCHANGED vars PROVE TypedInv' /\ RowsInv'
    <3>1. TypedInv'
      BY <2>1, StepKeepsTypedInv
    <3> QED
      BY <2>1, <3>1 DEF RowsInv, vars, NamedInv, OwnInv, WholeInv, Past, Owns, Mine, WholeAt, Known, Ordering
  <2>2. ASSUME TypedInv, RowsInv, NEW r \in Request, Begin(r) \/ Step(r) \/ TimeOut(r) \/ Abort(r)
        PROVE  TypedInv' /\ RowsInv'
    <3>1. TypedInv'
      BY <2>2, StepKeepsTypedInv DEF Next
    <3>2. Alone(r) /\ TableStep(r)
      BY <2>2, StepGoesOn, StepsOfTables
    <3> QED
      BY <2>2, <3>1, <3>2, StepKeepsNames, StepKeepsOwns, StepKeepsWhole DEF RowsInv
  <2> QED
    BY <2>1, <2>2 DEF Next
<1> QED
  BY <1>1, <1>2, PTL DEF Spec

\* Every checkout that was answered has its whole order: createOrder inserts the
\* order with the sum of the rows of CHECKOUT_CART_SQL, and one item for each.
THEOREM AnsweredOrdersAreWhole == Spec => []AnsweredOrderIsWhole
<1>1. TypedInv /\ RowsInv => AnsweredOrderIsWhole
  BY WholeIsAnswered DEF RowsInv
<1> QED
  BY <1>1, AlwaysRows, PTL

-----------------------------------------------------------------------------
(* Buyers apart.                                                           *)

\* The buyer whose request moves is the only one whose rows change.
KeepsRowsOf(who) == RowsOf(db', who) = RowsOf(db, who)

\* Whose a cart, a line or an order is does not change for the other buyers.
SameOwners(who) ==
  /\ \A x : CartOf(db', who, x) <=> CartOf(db, who, x)
  /\ \A x : LineOf(db', who, x) <=> LineOf(db, who, x)
  /\ \A x : OrderOf(db', who, x) <=> OrderOf(db, who, x)

\* With the same owners, a buyer's rows are the same when no row comes or goes
\* that is the buyer's.
LEMMA SameRows ==
  ASSUME NEW who, SameOwners(who),
         \A c : c.customer = who => (c \in db'.cart <=> c \in db.cart),
         \A i : CartOf(db, who, i.cart) => (i \in db'.cartItem <=> i \in db.cartItem),
         \A s : LineOf(db, who, s.item) => (s \in db'.itemStock <=> s \in db.itemStock),
         \A o : o.customer = who => (o \in db'.order <=> o \in db.order),
         \A oi : OrderOf(db, who, oi.order) \/ LineOf(db, who, oi.line)
                   => (oi \in db'.orderItem <=> oi \in db.orderItem),
         \A a : OrderOf(db, who, a.order) => (a \in db'.attempt <=> a \in db.attempt),
         \A p : OrderOf(db, who, p.order) => (p \in db'.payment <=> p \in db.payment)
  PROVE  KeepsRowsOf(who)
<1>1. {c \in db'.cart : c.customer = who} = {c \in db.cart : c.customer = who}
  OBVIOUS
<1>2. {i \in db'.cartItem : CartOf(db', who, i.cart)} = {i \in db.cartItem : CartOf(db, who, i.cart)}
  BY DEF SameOwners
<1>3. {s \in db'.itemStock : LineOf(db', who, s.item)} = {s \in db.itemStock : LineOf(db, who, s.item)}
  BY DEF SameOwners
<1>4. {o \in db'.order : o.customer = who} = {o \in db.order : o.customer = who}
  OBVIOUS
<1>5. {oi \in db'.orderItem : OrderOf(db', who, oi.order) \/ LineOf(db', who, oi.line)}
        = {oi \in db.orderItem : OrderOf(db, who, oi.order) \/ LineOf(db, who, oi.line)}
  BY DEF SameOwners
<1>6. {a \in db'.attempt : OrderOf(db', who, a.order)} = {a \in db.attempt : OrderOf(db, who, a.order)}
  BY DEF SameOwners
<1>7. {p \in db'.payment : OrderOf(db', who, p.order)} = {p \in db.payment : OrderOf(db, who, p.order)}
  BY DEF SameOwners
<1> QED
  BY <1>1, <1>2, <1>3, <1>4, <1>5, <1>6, <1>7 DEF KeepsRowsOf, RowsOf

\* A cart or an order is one buyer's.
LEMMA OneOwner ==
  ASSUME NamedInv, NEW who, NEW b, who # b, NEW x
  PROVE  /\ CartOf(db, b, x) => ~CartOf(db, who, x)
         /\ OrderOf(db, b, x) => ~OrderOf(db, who, x)
  BY DEF NamedInv, CartOf, OrderOf

\* So is a line.
LEMMA OneLineOwner ==
  ASSUME NamedInv, NEW who, NEW b, who # b, NEW x, Mine(b, x)
  PROVE  ~LineOf(db, who, x)
<1> SUFFICES ASSUME NEW i \in db.cartItem, i.id = x, CartOf(db, who, i.cart) PROVE FALSE
  BY DEF LineOf
<1>1. CartOf(db, b, i.cart)
  BY DEF Mine
<1> QED
  BY <1>1, OneOwner

\* Writing rows of another buyer, into a table that says nothing of owners.
LEMMA OtherTable ==
  ASSUME NEW who, NEW t \in {"itemStock", "orderItem", "attempt", "payment"}, NEW old, NEW new,
         Changed(t, old, new),
         t = "itemStock" => \A s \in old \cup new : ~LineOf(db, who, s.item),
         t = "orderItem" => \A oi \in old \cup new : ~OrderOf(db, who, oi.order) /\ ~LineOf(db, who, oi.line),
         t \in {"attempt", "payment"} => \A a \in old \cup new : ~OrderOf(db, who, a.order)
  PROVE  KeepsRowsOf(who)
<1> USE TableIs
<1>1. db'.cart = db.cart /\ db'.cartItem = db.cartItem /\ db'.order = db.order
  BY DEF Changed
<1>2. SameOwners(who)
  BY <1>1 DEF SameOwners, CartOf, LineOf, OrderOf
<1>3. \A s : LineOf(db, who, s.item) => (s \in db'.itemStock <=> s \in db.itemStock)
  BY DEF Changed
<1>4. \A oi : OrderOf(db, who, oi.order) \/ LineOf(db, who, oi.line)
                => (oi \in db'.orderItem <=> oi \in db.orderItem)
  BY DEF Changed
<1>5. \A a : OrderOf(db, who, a.order) => (a \in db'.attempt <=> a \in db.attempt)
  BY DEF Changed
<1>6. \A p : OrderOf(db, who, p.order) => (p \in db'.payment <=> p \in db.payment)
  BY DEF Changed
<1> QED
  BY <1>1, <1>2, <1>3, <1>4, <1>5, <1>6, SameRows

\* Writing another buyer's lines.
LEMMA OtherLines ==
  ASSUME NEW who, NEW old, NEW new, Changed("cartItem", old, new),
         \A i \in old \cup new : ~CartOf(db, who, i.cart)
  PROVE  KeepsRowsOf(who)
<1> USE TableIs
<1>1. /\ db'.cart = db.cart /\ db'.order = db.order /\ db'.itemStock = db.itemStock
      /\ db'.orderItem = db.orderItem /\ db'.attempt = db.attempt /\ db'.payment = db.payment
      /\ db'.cartItem = (db.cartItem \ old) \cup new
  BY DEF Changed
<1>2. \A x : CartOf(db', who, x) <=> CartOf(db, who, x)
  BY <1>1 DEF CartOf
<1>3. \A i : CartOf(db, who, i.cart) => (i \in db'.cartItem <=> i \in db.cartItem)
  BY <1>1
<1>4. \A x : LineOf(db', who, x) <=> LineOf(db, who, x)
  BY <1>2, <1>3 DEF LineOf
<1>5. SameOwners(who)
  BY <1>1, <1>2, <1>4 DEF SameOwners, OrderOf
<1> QED
  BY <1>1, <1>3, <1>5, SameRows

\* A new cart or order of another buyer.
LEMMA OtherHeads ==
  ASSUME NEW who, NEW t \in {"cart", "order"}, NEW x, Changed(t, {}, {x}), x.customer # who
  PROVE  KeepsRowsOf(who)
<1> USE TableIs
<1>1. /\ db'.itemStock = db.itemStock /\ db'.cartItem = db.cartItem
      /\ db'.orderItem = db.orderItem /\ db'.attempt = db.attempt /\ db'.payment = db.payment
      /\ db'.cart = db.cart \/ db'.cart = db.cart \cup {x}
      /\ db'.order = db.order \/ db'.order = db.order \cup {x}
  BY DEF Changed
<1>2. \A y : CartOf(db', who, y) <=> CartOf(db, who, y)
  BY <1>1 DEF CartOf
<1>3. \A y : OrderOf(db', who, y) <=> OrderOf(db, who, y)
  BY <1>1 DEF OrderOf
<1>4. SameOwners(who)
  BY <1>1, <1>2, <1>3 DEF SameOwners, LineOf
<1> QED
  BY <1>1, <1>4, SameRows

\* Whatever r writes, it writes for its own buyer.
LEMMA StepKeepsApart ==
  ASSUME TypedInv, RowsInv, NEW r \in Request, TableStep(r), NEW who, who # Buyer(r)
  PROVE  KeepsRowsOf(who)
<1> USE TableIs
<1>1. Owns(r, pc[r], loc[r], body[r]) /\ Buyer(r) = body[r].customer /\ NamedInv
  BY DEF RowsInv, OwnInv, Buyer
<1>2. CASE pc[r] = "insertCart" /\ \E n : Changed("cart", {}, {NewCart(r, n)})
  <2>1. PICK n : Changed("cart", {}, {NewCart(r, n)})
    BY <1>2
  <2>2. NewCart(r, n).customer # who
    BY DEF NewCart
  <2> QED
    BY <2>1, <2>2, OtherHeads
<1>3. CASE pc[r] = "insertItem" /\ Changed("cartItem", {}, {NewItem(r)})
  <2>1. CartOf(db, Buyer(r), loc[r].cart)
    BY <1>1, <1>3 DEF Owns
  <2>2. ~CartOf(db, who, NewItem(r).cart)
    BY <1>1, <2>1, OneOwner DEF NewItem
  <2> QED
    BY <1>3, <2>2, OtherLines
<1>4. CASE pc[r] = "insertStock" /\ Changed("itemStock", {}, {NewStock(r)})
  <2>1. Mine(Buyer(r), r)
    BY <1>1, <1>4 DEF Owns
  <2>2. ~LineOf(db, who, NewStock(r).item)
    BY <1>1, <2>1, OneLineOwner DEF NewStock
  <2> QED
    BY <1>4, <2>2, OtherTable
<1>5. pc[r] \in {"setVolume", "setQuantity", "deleteStock", "deleteItem"} =>
        /\ ~LineOf(db, who, loc[r].line)
        /\ \A i \in ItemAt(loc[r].line) : ~CartOf(db, who, i.cart)
  <2>1. ASSUME pc[r] \in {"setVolume", "setQuantity", "deleteStock", "deleteItem"}
        PROVE  /\ ~LineOf(db, who, loc[r].line)
               /\ \A i \in ItemAt(loc[r].line) : ~CartOf(db, who, i.cart)
    <3>1. Mine(Buyer(r), loc[r].line)
      BY <1>1, <2>1 DEF Owns
    <3>2. ~LineOf(db, who, loc[r].line)
      BY <1>1, <3>1, OneLineOwner
    <3> QED
      BY <3>2 DEF ItemAt, LineOf
  <2> QED
    BY <2>1
<1>6. CASE /\ pc[r] = "setVolume"
           /\ Changed("cartItem", ItemAt(loc[r].line),
                      {[i EXCEPT !.volume = loc[r].quantity] : i \in ItemAt(loc[r].line)})
  <2> DEFINE new == {[i EXCEPT !.volume = loc[r].quantity] : i \in ItemAt(loc[r].line)}
  <2>1. \A i \in ItemAt(loc[r].line) : ~CartOf(db, who, i.cart)
    BY <1>5, <1>6
  <2>2. \A i \in ItemAt(loc[r].line) : [i EXCEPT !.volume = loc[r].quantity].cart = i.cart
    BY TableTyped DEF ItemAt, Row
  <2>3. \A x \in new : ~CartOf(db, who, x.cart)
    BY <2>1, <2>2
  <2> HIDE DEF new
  <2>4. Changed("cartItem", ItemAt(loc[r].line), new)
    BY <1>6 DEF new
  <2> QED
    BY <2>1, <2>3, <2>4, OtherLines
<1>7. CASE /\ pc[r] = "setQuantity"
           /\ Changed("itemStock", StockAt(loc[r].line),
                      {[s EXCEPT !.quantity = loc[r].quantity] : s \in StockAt(loc[r].line)})
  <2> DEFINE new == {[s EXCEPT !.quantity = loc[r].quantity] : s \in StockAt(loc[r].line)}
  <2>1. ~LineOf(db, who, loc[r].line)
    BY <1>5, <1>7
  <2>2. \A s \in StockAt(loc[r].line) : [s EXCEPT !.quantity = loc[r].quantity].item = s.item
    BY TableTyped DEF StockAt, Row
  <2>3. \A x \in StockAt(loc[r].line) \cup new : ~LineOf(db, who, x.item)
    BY <2>1, <2>2 DEF StockAt
  <2> HIDE DEF new
  <2>4. Changed("itemStock", StockAt(loc[r].line), new)
    BY <1>7 DEF new
  <2> QED
    BY <2>3, <2>4, OtherTable
<1>8. CASE pc[r] = "deleteStock" /\ Changed("itemStock", StockAt(loc[r].line), {})
  <2>1. \A s \in StockAt(loc[r].line) \cup {} : ~LineOf(db, who, s.item)
    BY <1>5, <1>8 DEF StockAt
  <2> QED
    BY <1>8, <2>1, OtherTable
<1>9. CASE pc[r] = "deleteItem" /\ Changed("cartItem", ItemAt(loc[r].line), {})
  <2>1. \A i \in ItemAt(loc[r].line) \cup {} : ~CartOf(db, who, i.cart)
    BY <1>5, <1>9
  <2> QED
    BY <1>9, <2>1, OtherLines
<1>10. CASE pc[r] = "insertOrder" /\ Changed("order", {}, {NewOrder(r)})
  <2>1. NewOrder(r).customer # who
    BY DEF NewOrder
  <2> QED
    BY <1>10, <2>1, OtherHeads
<1>11. CASE pc[r] = "insertOrderItem" /\ \E l \in loc[r].rows : Changed("orderItem", {}, {NewOrderItem(r, l)})
  <2>1. PICK l \in loc[r].rows : Changed("orderItem", {}, {NewOrderItem(r, l)})
    BY <1>11
  <2>2. ~LineOf(db, who, l.line)
    <3>1. Mine(Buyer(r), l.line)
      BY <1>1, <1>11 DEF Owns
    <3> QED
      BY <1>1, <3>1, OneLineOwner
  <2>3. ~OrderOf(db, who, r)
    <3>1. Ordering(r)
      BY <1>11, TypedParts DEF BodyFits, Ordering
    <3>2. PICK all : OrderedAs(db, r, body[r], all, loc[r].rows)
      BY <3>1 DEF RowsInv, WholeInv, WholeAt
    <3>3. OrderOf(db, Buyer(r), r)
      BY <1>1, <3>2 DEF OrderedAs, OrderOf
    <3> QED
      BY <1>1, <3>3, OneOwner
  <2>4. NewOrderItem(r, l).line = l.line /\ NewOrderItem(r, l).order = r
    BY DEF NewOrderItem
  <2> QED
    BY <2>1, <2>2, <2>3, <2>4, OtherTable
<1>12. CASE PaymentWrite(r)
  <2>1. OrderOf(db, Buyer(r), body[r].order)
    BY <1>1, <1>12 DEF PaymentWrite, Owns
  <2>2. ~OrderOf(db, who, body[r].order)
    BY <1>1, <2>1, OneOwner
  <2>3. NewAttempt(r).order = body[r].order /\ NewPayment(r).order = body[r].order
    BY DEF NewAttempt, NewPayment
  <2> QED
    BY <1>12, <2>2, <2>3, OtherTable DEF PaymentWrite
<1>13. CASE db' = db
  BY <1>13 DEF KeepsRowsOf
<1>14. CASE CartWrite(r)
  BY <1>2, <1>3, <1>4, <1>6, <1>7, <1>8, <1>9, <1>14 DEF CartWrite
<1>15. CASE OrderWrite(r)
  BY <1>10, <1>11, <1>15 DEF OrderWrite
<1> QED
  BY <1>12, <1>13, <1>14, <1>15 DEF TableStep

\* Only a statement writes, and a request at a statement has its body.
LEMMA WritersHaveBodies ==
  ASSUME TypedInv, NEW r \in Request, TableStep(r), db' # db
  PROVE  body[r] # None
<1>1. pc[r] \in Statement
  BY DEF TableStep, CartWrite, OrderWrite, PaymentWrite, Statement
<1> QED
  BY <1>1, TypedParts, NoneIsNoBody

\* Buyers are kept apart: whatever carts, lines and orders the others name in
\* their requests, and however old what their statements have read is, only
\* requests in a buyer's own name change the buyer's rows.  findActiveCartId,
\* CHECKOUT_CART_SQL and LOAD_ORDER_SQL ask for the customer; the UPDATEs,
\* DELETEs and INSERTs that follow do not, and need not.
THEOREM BuyersStayApart == Spec => BuyersApart
<1> DEFINE Apart == \A who \in Customer :
                      RowsOf(db, who)' # RowsOf(db, who)
                        => \E r \in Request : Moves(r) /\ body[r] # None /\ Buyer(r) = who
<1>1. ASSUME TypedInv, RowsInv, [Next]_vars PROVE [Apart]_vars
  <2>1. CASE UNCHANGED vars
    BY <2>1
  <2>2. ASSUME NEW r \in Request, Begin(r) \/ Step(r) \/ TimeOut(r) \/ Abort(r), NEW who \in Customer,
               RowsOf(db, who)' # RowsOf(db, who)
        PROVE  Moves(r) /\ body[r] # None /\ Buyer(r) = who
    <3>1. TableStep(r) /\ Alone(r)
      BY <1>1, <2>2, StepsOfTables, StepGoesOn
    <3>2. RowsOf(db, who)' = RowsOf(db', who)
      BY DEF RowsOf, CartOf, LineOf, OrderOf
    <3>3. Buyer(r) = who
      BY <1>1, <2>2, <3>1, <3>2, StepKeepsApart DEF KeepsRowsOf
    <3>4. db' # db
      BY <2>2, <3>2
    <3>5. body[r] # None
      BY <1>1, <3>1, <3>4, WritersHaveBodies
    <3>6. Moves(r)
      <4>1. Rank(pc[r]) \in 0..12
        BY <1>1, RepliesAreLast, TypedParts
      <4>2. pc'[r] = pc[r] => loc'[r] # loc[r]
        BY <3>1, <4>1 DEF Alone, Further
      <4> QED
        BY <4>2 DEF Moves
    <3> QED
      BY <3>3, <3>5, <3>6
  <2> QED
    BY <1>1, <2>1, <2>2 DEF Next
<1>2. TypedInv /\ RowsInv /\ [Next]_vars => [Apart]_vars
  BY <1>1
<1> QED
  BY <1>2, AlwaysRows, PTL DEF Spec, BuyersApart

=============================================================================
