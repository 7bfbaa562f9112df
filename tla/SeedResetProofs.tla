-------------------------- MODULE SeedResetProofs --------------------------
(***************************************************************************)
(* The script of the seed reset against the foreign keys of the schema, for*)
(* any number of callers, of ids that requests draw and of seeded products:*)
(* a reset that nothing overlaps runs into no constraint and leaves exactly*)
(* the fixtures, whatever earlier requests and broken resets have left.    *)
(*                                                                         *)
(* The tables are ordered twice, by the place in which resetSeedScope      *)
(* empties them (Emptying) and by that in which seed fills them (Filling): *)
(* a row names only rows of tables that are emptied later and filled       *)
(* earlier than its own.                                                   *)
(***************************************************************************)
EXTENDS SeedReset, TLAPS

\* The tables each table's foreign keys name.
Parents == [
  customers |-> {},
  addresses |-> {},
  sales |-> {"customers"},
  sale_snapshots |-> {"sales"},
  sale_snapshot_contents |-> {"sale_snapshots"},
  sale_snapshot_tags |-> {"sale_snapshots"},
  sale_snapshot_units |-> {"sale_snapshots"},
  sale_snapshot_unit_options |-> {},
  sale_snapshot_unit_option_candidates |-> {},
  sale_snapshot_unit_stocks |-> {"sale_snapshot_units"},
  carts |-> {"customers"},
  cart_items |-> {"carts", "sale_snapshots"},
  cart_item_stocks |-> {"cart_items", "sale_snapshot_units", "sale_snapshot_unit_stocks"},
  cart_item_stock_choices |-> {},
  orders |-> {"customers", "addresses"},
  order_items |-> {"orders", "cart_items", "customers"},
  order_payments |-> {"orders"},
  payment_attempts |-> {"orders"}]

\* The place of each table in Deletes.
Emptying == [
  cart_item_stock_choices |-> 1, cart_item_stocks |-> 2, order_items |-> 3, order_payments |-> 4,
  payment_attempts |-> 5, cart_items |-> 6, orders |-> 7, carts |-> 8,
  sale_snapshot_unit_stocks |-> 9, sale_snapshot_unit_option_candidates |-> 10,
  sale_snapshot_unit_options |-> 11, sale_snapshot_units |-> 12, sale_snapshot_tags |-> 13,
  sale_snapshot_contents |-> 14, sale_snapshots |-> 15, sales |-> 16, addresses |-> 17,
  customers |-> 18]

\* The place of each table in Creates; what is not in it is not filled.
Filling == [
  customers |-> 1, addresses |-> 2, sales |-> 3, sale_snapshots |-> 4, sale_snapshot_contents |-> 5,
  sale_snapshot_tags |-> 6, sale_snapshot_units |-> 7, sale_snapshot_unit_stocks |-> 8, carts |-> 9,
  cart_items |-> 10, cart_item_stocks |-> 11, orders |-> 12, order_items |-> 13,
  payment_attempts |-> 14]

\* Every row has the foreign keys of its table.
Shaped(t, row) ==
  /\ row = [id |-> row.id, refs |-> row.refs]
  /\ \A ref \in row.refs : ref[1] \in Parents[t]

RowsShaped(d) == DOMAIN d = Table /\ \A t \in Table : \A row \in d[t] : Shaped(t, row)

\* How far a reset has come that nothing else has overlapped.
Swept(d, k) ==
  IF k <= Len(Deletes)
  THEN \A t \in Table : Emptying[t] < k => d[t] = {}
  ELSE \A t \in Table :
         d[t] = IF t \in DOMAIN Filling /\ Filling[t] < k - Len(Deletes) THEN Fixtures[t] ELSE {}

\* The inductive invariant.
ResetInv ==
  /\ RowsShaped(db)
  /\ DOMAIN pc = Reset /\ DOMAIN status = Reset /\ DOMAIN alone = Reset
  /\ \A r \in Reset : status[r] = "running" => pc[r] \in 1..Statements
  /\ \A r \in Reset : status[r] = "running" /\ alone[r] => Swept(db, pc[r])

-----------------------------------------------------------------------------

\* The eighteen tables, one by one.
LEMMA TableIs ==
  Table = {"customers", "addresses", "sales", "sale_snapshots", "sale_snapshot_contents",
           "sale_snapshot_tags", "sale_snapshot_units", "sale_snapshot_unit_options",
           "sale_snapshot_unit_option_candidates", "sale_snapshot_unit_stocks", "carts", "cart_items",
           "cart_item_stocks", "cart_item_stock_choices", "orders", "order_items", "order_payments",
           "payment_attempts"}
  BY DEF Table, Fixtures

\* Eighteen tables are emptied, fourteen are filled.
LEMMA Lengths == Len(Deletes) = 18 /\ Len(Creates) = 14 /\ Statements = 32
  BY DEF Deletes, Creates, Statements

\* Every table is emptied once, at its place.
LEMMA EmptyingIs ==
  /\ \A t \in Table : Emptying[t] \in 1..18
  /\ \A k \in 1..18 : Deletes[k] \in Table /\ Emptying[Deletes[k]] = k
  /\ \A t \in Table : Deletes[Emptying[t]] = t
<1>1. \A t \in Table : Emptying[t] \in 1..18
  BY TableIs DEF Emptying
<1>2. ASSUME NEW k \in 1..18 PROVE Deletes[k] \in Table /\ Emptying[Deletes[k]] = k
  BY TableIs DEF Emptying, Deletes
<1>3. \A t \in Table : Deletes[Emptying[t]] = t
  BY TableIs DEF Emptying, Deletes
<1> QED
  BY <1>1, <1>2, <1>3

\* Every table that is filled is filled once, at its place.
LEMMA FillingIs ==
  /\ DOMAIN Filling \subseteq Table
  /\ \A t \in DOMAIN Filling : Filling[t] \in 1..14
  /\ \A k \in 1..14 : Creates[k] \in DOMAIN Filling /\ Filling[Creates[k]] = k
  /\ \A t \in DOMAIN Filling : Creates[Filling[t]] = t
<1>0. DOMAIN Filling =
        {"customers", "addresses", "sales", "sale_snapshots", "sale_snapshot_contents",
         "sale_snapshot_tags", "sale_snapshot_units", "sale_snapshot_unit_stocks", "carts", "cart_items",
         "cart_item_stocks", "orders", "order_items", "payment_attempts"}
  BY DEF Filling
<1>1. \A t \in DOMAIN Filling : Filling[t] \in 1..14
  BY <1>0 DEF Filling
<1>2. ASSUME NEW k \in 1..14 PROVE Creates[k] \in DOMAIN Filling /\ Filling[Creates[k]] = k
  BY <1>0 DEF Filling, Creates
<1>3. \A t \in DOMAIN Filling : Creates[Filling[t]] = t
  BY <1>0 DEF Filling, Creates
<1> QED
  BY <1>0, <1>1, <1>2, <1>3, TableIs

\* A table is emptied before those its foreign keys name, except for a foreign
\* key that is ON DELETE SET NULL.
LEMMA ChildrenFirst ==
  \A u \in Table : \A t \in Parents[u] : t \in Table /\ (<<u, t>> \in SetNull \/ Emptying[u] < Emptying[t])
  BY TableIs DEF Parents, Emptying, SetNull

\* The row is one of t, and the rows it names are among those that the
\* script has put in before.
Filled(t, row) ==
  /\ Shaped(t, row)
  /\ \A ref \in row.refs :
       /\ ref[1] \in DOMAIN Filling
       /\ Filling[ref[1]] < Filling[t]
       /\ \E parent \in Fixtures[ref[1]] : parent.id = ref[2]

\* A table the script does not fill has no fixtures.
LEMMA NotFilled == \A t \in Table : t \notin DOMAIN Filling => Fixtures[t] = {}
  BY TableIs DEF Filling, Fixtures

\* The two columns of a row.
LEMMA RowIs ==
  ASSUME NEW id, NEW refs
  PROVE  /\ Row(id, refs).id = id /\ Row(id, refs).refs = refs
         /\ Row(id, refs) = [id |-> Row(id, refs).id, refs |-> Row(id, refs).refs]
  BY DEF Row

\* It is enough to look at each of the rows a reference names.
LEMMA RowIsFilled ==
  ASSUME NEW t \in DOMAIN Filling, NEW id, NEW refs,
         \A ref \in refs :
           /\ ref[1] \in Parents[t] /\ ref[1] \in DOMAIN Filling /\ Filling[ref[1]] < Filling[t]
           /\ \E parent \in Fixtures[ref[1]] : parent.id = ref[2]
  PROVE  Filled(t, Row(id, refs))
  BY RowIs DEF Filled, Shaped

\* What the rows of each table name.
LEMMA Parent ==
  /\ \A c \in {"demo1", "demo2", "seller"} : \E x \in Fixtures["customers"] : x.id = c
  /\ \A c \in {"demo1", "demo2"} : \E x \in Fixtures["addresses"] : x.id = c
  /\ \A p \in Product : \E x \in Fixtures["sales"] : x.id = p
  /\ \A p \in Product : \E x \in Fixtures["sale_snapshots"] : x.id = p
  /\ \A p \in Product : \E x \in Fixtures["sale_snapshot_units"] : x.id = p
  /\ \A p \in Product : \E x \in Fixtures["sale_snapshot_unit_stocks"] : x.id = p
  /\ \A c \in {"active", "paymentSuccess", "paymentFailure"} :
       /\ \E x \in Fixtures["carts"] : x.id = c
       /\ \E x \in Fixtures["cart_items"] : x.id = c
       /\ Holds[c] \in Product
  /\ \A o \in {"paymentSuccess", "paymentFailure"} : \E x \in Fixtures["orders"] : x.id = o
<1>1. /\ Fixtures["customers"] = Customers /\ Fixtures["addresses"] = Addresses
      /\ Fixtures["sales"] = Sales /\ Fixtures["sale_snapshots"] = Snapshots
      /\ Fixtures["sale_snapshot_units"] = Units /\ Fixtures["sale_snapshot_unit_stocks"] = Stocks
      /\ Fixtures["carts"] = Carts /\ Fixtures["cart_items"] = CartItems /\ Fixtures["orders"] = Orders
  BY DEF Fixtures
<1>2. DOMAIN Holds = {"active", "paymentSuccess", "paymentFailure"} /\ \A c \in DOMAIN Holds : Holds[c] \in Product
  BY CartedProductsAreSeeded DEF Holds
<1>3. ASSUME NEW c \in {"demo1", "demo2", "seller"} PROVE \E x \in Fixtures["customers"] : x.id = c
  <2>1. Row(c, {}) \in Fixtures["customers"]
    BY <1>1 DEF Customers
  <2> QED
    BY <2>1, RowIs
<1>4. ASSUME NEW c \in {"demo1", "demo2"} PROVE \E x \in Fixtures["addresses"] : x.id = c
  <2>1. Row(c, {}) \in Fixtures["addresses"]
    BY <1>1 DEF Addresses
  <2> QED
    BY <2>1, RowIs
<1>5. ASSUME NEW p \in Product
      PROVE  /\ \E x \in Fixtures["sales"] : x.id = p
             /\ \E x \in Fixtures["sale_snapshots"] : x.id = p
             /\ \E x \in Fixtures["sale_snapshot_units"] : x.id = p
             /\ \E x \in Fixtures["sale_snapshot_unit_stocks"] : x.id = p
  <2>1. /\ Row(p, {<<"customers", "seller">>}) \in Fixtures["sales"]
        /\ Row(p, {<<"sales", p>>}) \in Fixtures["sale_snapshots"]
        /\ Row(p, {<<"sale_snapshots", p>>}) \in Fixtures["sale_snapshot_units"]
        /\ Row(p, {<<"sale_snapshot_units", p>>}) \in Fixtures["sale_snapshot_unit_stocks"]
    BY <1>1 DEF Sales, Snapshots, Units, Stocks
  <2> QED
    BY <2>1, RowIs
<1>6. \A c \in DOMAIN Holds : \E x \in Fixtures["carts"] : x.id = c
  BY <1>1, <1>2 DEF Carts, Row
<1>7. ASSUME NEW c \in DOMAIN Holds PROVE \E x \in Fixtures["cart_items"] : x.id = c
  <2>1. Row(c, {<<"carts", c>>, <<"sale_snapshots", Holds[c]>>}) \in Fixtures["cart_items"]
    BY <1>1 DEF CartItems
  <2> QED
    BY <2>1, RowIs
<1>8. \A o \in {"paymentSuccess", "paymentFailure"} : \E x \in Fixtures["orders"] : x.id = o
  BY <1>1 DEF Orders, Row
<1> QED
  BY <1>2, <1>3, <1>4, <1>5, <1>6, <1>7, <1>8

\* When the script comes to a table, every row that its rows name is there.
LEMMA FixturesFilled ==
  ASSUME NEW t \in DOMAIN Filling, NEW row \in Fixtures[t]
  PROVE  Filled(t, row)
<1> DEFINE Names(refs) ==
      \A ref \in refs :
        /\ ref[1] \in Parents[t] /\ ref[1] \in DOMAIN Filling /\ Filling[ref[1]] < Filling[t]
        /\ \E parent \in Fixtures[ref[1]] : parent.id = ref[2]
<1> SUFFICES \E id, refs : row = Row(id, refs) /\ Names(refs)
  BY RowIsFilled
<1>1. CASE t \in {"customers", "addresses"}
  BY <1>1 DEF Fixtures, Customers, Addresses
<1>2. CASE t = "sales"
  <2>1. PICK p \in Product : row = Row(p, {<<"customers", "seller">>})
    BY <1>2 DEF Fixtures, Sales
  <2>2. Names({<<"customers", "seller">>})
    BY <1>2, Parent DEF Filling, Parents
  <2> QED
    BY <2>1, <2>2
<1>3. CASE t = "sale_snapshots"
  <2>1. PICK p \in Product : row = Row(p, {<<"sales", p>>})
    BY <1>3 DEF Fixtures, Snapshots
  <2>2. Names({<<"sales", p>>})
    BY <1>3, Parent DEF Filling, Parents
  <2> QED
    BY <2>1, <2>2
<1>4. CASE t \in {"sale_snapshot_contents", "sale_snapshot_tags", "sale_snapshot_units"}
  <2>1. PICK id, p : p \in Product /\ row = Row(id, {<<"sale_snapshots", p>>})
    <3>1. CASE t = "sale_snapshot_tags"
      <4>1. PICK tag \in {"channel", "section"}, p \in Product :
              row = Row(Named(tag, p), {<<"sale_snapshots", p>>})
        BY <3>1 DEF Fixtures, Tags
      <4> QED
        BY <4>1
    <3>2. CASE t = "sale_snapshot_contents"
      <4>1. PICK p \in Product : row = Row(p, {<<"sale_snapshots", p>>})
        BY <3>2 DEF Fixtures, Contents
      <4> QED
        BY <4>1
    <3>3. CASE t = "sale_snapshot_units"
      <4>1. PICK p \in Product : row = Row(p, {<<"sale_snapshots", p>>})
        BY <3>3 DEF Fixtures, Units
      <4> QED
        BY <4>1
    <3> QED
      BY <1>4, <3>1, <3>2, <3>3
  <2>2. Names({<<"sale_snapshots", p>>})
    BY <1>4, <2>1, Parent DEF Filling, Parents
  <2> QED
    BY <2>1, <2>2
<1>5. CASE t = "sale_snapshot_unit_stocks"
  <2>1. PICK p \in Product : row = Row(p, {<<"sale_snapshot_units", p>>})
    BY <1>5 DEF Fixtures, Stocks
  <2>2. Names({<<"sale_snapshot_units", p>>})
    BY <1>5, Parent DEF Filling, Parents
  <2> QED
    BY <2>1, <2>2
<1>6. CASE t = "carts"
  <2>1. PICK c, who : who \in {"demo1", "demo2"} /\ row = Row(c, {<<"customers", who>>})
    BY <1>6 DEF Fixtures, Carts
  <2>2. Names({<<"customers", who>>})
    BY <1>6, <2>1, Parent DEF Filling, Parents
  <2> QED
    BY <2>1, <2>2
<1>7. CASE t \in {"cart_items", "cart_item_stocks"}
  <2>1. DOMAIN Holds = {"active", "paymentSuccess", "paymentFailure"}
    BY DEF Holds
  <2>2. CASE t = "cart_items"
    <3>1. PICK c \in DOMAIN Holds : row = Row(c, {<<"carts", c>>, <<"sale_snapshots", Holds[c]>>})
      BY <2>2 DEF Fixtures, CartItems
    <3>2. Names({<<"carts", c>>, <<"sale_snapshots", Holds[c]>>})
      BY <2>1, <2>2, <3>1, Parent DEF Filling, Parents
    <3> QED
      BY <3>1, <3>2
  <2>3. CASE t = "cart_item_stocks"
    <3>1. PICK c \in DOMAIN Holds :
            row = Row(c, {<<"cart_items", c>>, <<"sale_snapshot_units", Holds[c]>>,
                          <<"sale_snapshot_unit_stocks", Holds[c]>>})
      BY <2>3 DEF Fixtures, CartItemStocks
    <3>2. Names({<<"cart_items", c>>, <<"sale_snapshot_units", Holds[c]>>,
                 <<"sale_snapshot_unit_stocks", Holds[c]>>})
      BY <2>1, <2>3, <3>1, Parent DEF Filling, Parents
    <3> QED
      BY <3>1, <3>2
  <2> QED
    BY <1>7, <2>2, <2>3
<1>8. CASE t = "orders"
  <2>1. PICK o, who : /\ who \in {"demo1", "demo2"}
                      /\ row = Row(o, {<<"customers", who>>, <<"addresses", who>>})
    BY <1>8 DEF Fixtures, Orders
  <2>2. Names({<<"customers", who>>, <<"addresses", who>>})
    BY <1>8, <2>1, Parent DEF Filling, Parents
  <2> QED
    BY <2>1, <2>2
<1>9. CASE t = "order_items"
  <2>1. PICK o \in {"paymentSuccess", "paymentFailure"} :
          row = Row(o, {<<"orders", o>>, <<"cart_items", o>>, <<"customers", "seller">>})
    BY <1>9 DEF Fixtures, OrderItems
  <2>2. Names({<<"orders", o>>, <<"cart_items", o>>, <<"customers", "seller">>})
    BY <1>9, <2>1, Parent DEF Filling, Parents
  <2> QED
    BY <2>1, <2>2
<1>10. CASE t = "payment_attempts"
  <2>1. PICK o \in {"paymentSuccess", "paymentFailure"} : row = Row(o, {<<"orders", o>>})
    BY <1>10 DEF Fixtures, PaymentAttempts
  <2>2. Names({<<"orders", o>>})
    BY <1>10, <2>1, Parent DEF Filling, Parents
  <2> QED
    BY <2>1, <2>2
<1> QED
  BY <1>1, <1>2, <1>3, <1>4, <1>5, <1>6, <1>7, <1>8, <1>9, <1>10 DEF Filling

\* The seeded rows have the foreign keys of their tables.
LEMMA FixturesShaped ==
  ASSUME NEW t \in Table, NEW row \in Fixtures[t]
  PROVE  Shaped(t, row)
<1>1. CASE t \in DOMAIN Filling
  BY <1>1, FixturesFilled DEF Filled
<1>2. CASE t \notin DOMAIN Filling
  BY <1>2, NotFilled
<1> QED
  BY <1>1, <1>2

-----------------------------------------------------------------------------

\* Inserted rows have the foreign keys of their table.
LEMMA InsertShaped ==
  ASSUME NEW d, RowsShaped(d), NEW t \in Table, NEW rows, \A row \in rows : Shaped(t, row)
  PROVE  RowsShaped([d EXCEPT ![t] = @ \cup rows])
  BY DEF RowsShaped

\* A deleteMany empties one table, refills none and adds no foreign key.
LEMMA EmptiedShaped ==
  ASSUME RowsShaped(db), NEW t \in Table
  PROVE  /\ RowsShaped(Emptied(t))
         /\ Emptied(t)[t] = {}
         /\ \A u \in Table : db[u] = {} => Emptied(t)[u] = {}
<1>1. ASSUME NEW u \in Table, NEW row \in Emptied(t)[u] PROVE Shaped(u, row)
  <2>1. u # t
    BY <1>1 DEF Emptied
  <2>2. PICK old \in db[u] : row = [old EXCEPT !.refs = {ref \in @ : ref[1] # t}]
    BY <1>1, <2>1 DEF Emptied
  <2>3. old = [id |-> old.id, refs |-> old.refs] /\ \A ref \in old.refs : ref[1] \in Parents[u]
    BY <2>2 DEF RowsShaped, Shaped
  <2>4. row = [id |-> old.id, refs |-> {ref \in old.refs : ref[1] # t}]
    BY <2>2, <2>3
  <2> QED
    BY <2>3, <2>4 DEF Shaped
<1>2. DOMAIN Emptied(t) = Table
  BY DEF Emptied
<1>3. Emptied(t)[t] = {} /\ \A u \in Table : db[u] = {} => Emptied(t)[u] = {}
  BY DEF Emptied
<1> QED
  BY <1>1, <1>2, <1>3 DEF RowsShaped

\* No row is left that names the table to be emptied.
LEMMA AloneMayEmpty ==
  ASSUME RowsShaped(db), NEW k \in 1..Len(Deletes), Swept(db, k)
  PROVE  MayEmpty(Deletes[k])
<1>1. Emptying[Deletes[k]] = k /\ k \in Nat
  BY Lengths, EmptyingIs
<1> SUFFICES ASSUME NEW u \in Table, NEW row \in db[u], NEW ref \in row.refs, ref[1] = Deletes[k]
             PROVE  <<u, Deletes[k]>> \in SetNull
  BY DEF MayEmpty
<1>2. Deletes[k] \in Parents[u]
  BY DEF RowsShaped, Shaped
<1>3. ~(Emptying[u] < k)
  BY Lengths DEF Swept
<1> QED
  BY <1>1, <1>2, <1>3, ChildrenFirst

\* The reset has come one table further.
LEMMA DeleteSweeps ==
  ASSUME RowsShaped(db), NEW k \in 1..Len(Deletes), Swept(db, k)
  PROVE  Swept(Emptied(Deletes[k]), k + 1)
<1> DEFINE t == Deletes[k]
           e == Emptied(t)
<1>1. t \in Table /\ k \in 1..18
  BY Lengths, EmptyingIs
<1>2. ASSUME NEW u \in Table, Emptying[u] < k + 1 PROVE e[u] = {}
  <2>1. Emptying[u] \in 1..18 /\ Deletes[Emptying[u]] = u
    BY EmptyingIs
  <2>2. CASE Emptying[u] = k
    BY <1>1, <2>1, <2>2, EmptiedShaped
  <2>3. CASE Emptying[u] < k
    <3>1. db[u] = {}
      BY <1>1, <2>3, Lengths DEF Swept
    <3> QED
      BY <1>1, <3>1, EmptiedShaped
  <2>4. Emptying[u] = k \/ Emptying[u] < k
    <3>1. k \in Nat /\ Emptying[u] \in Nat
      BY <1>1, <2>1
    <3> QED
      BY <1>2, <3>1
  <2> QED
    BY <2>2, <2>3, <2>4
<1> HIDE DEF t, e
<1>3. CASE k < 18
  BY <1>1, <1>2, <1>3, Lengths DEF Swept, e, t
<1>4. CASE k = 18
  <2>1. ASSUME NEW u \in Table PROVE e[u] = {}
    <3>1. Emptying[u] \in 1..18
      BY EmptyingIs
    <3>2. Emptying[u] < k + 1
      BY <1>4, <3>1
    <3> QED
      BY <1>2, <3>2
  <2>2. \A u \in DOMAIN Filling : ~(Filling[u] < 1)
    BY FillingIs
  <2> QED
    BY <1>4, <2>1, <2>2, Lengths DEF Swept, e, t
<1> QED
  BY <1>1, <1>3, <1>4

\* The table to be filled is empty, and what its rows name is there.
LEMMA AloneMayInsert ==
  ASSUME NEW k \in (Len(Deletes) + 1)..Statements, Swept(db, k)
  PROVE  LET t == Creates[k - Len(Deletes)]
         IN t \in DOMAIN Filling /\ MayInsert(t, Fixtures[t])
<1> DEFINE j == k - Len(Deletes)
           t == Creates[j]
<1>1. j \in 1..14 /\ ~(k <= Len(Deletes)) /\ t \in DOMAIN Filling /\ t \in Table /\ Filling[t] = j
  BY Lengths, FillingIs
<1>2. \A u \in Table : db[u] = IF u \in DOMAIN Filling /\ Filling[u] < j THEN Fixtures[u] ELSE {}
  BY <1>1 DEF Swept
<1> HIDE DEF j, t
<1>3. db[t] = {}
  BY <1>1, <1>2
<1>4. ASSUME NEW row \in Fixtures[t], NEW ref \in row.refs
      PROVE  \E parent \in db[ref[1]] : parent.id = ref[2]
  <2>1. /\ ref[1] \in DOMAIN Filling /\ Filling[ref[1]] < j
        /\ \E parent \in Fixtures[ref[1]] : parent.id = ref[2]
    BY <1>1, FixturesFilled DEF Filled
  <2>2. db[ref[1]] = Fixtures[ref[1]]
    BY <1>2, <2>1, FillingIs
  <2> QED
    BY <2>1, <2>2
<1>5. MayInsert(t, Fixtures[t])
  BY <1>3, <1>4 DEF MayInsert
<1> QED
  BY <1>1, <1>5 DEF t, j

\* The reset has come one table further, or has restored the seed.
LEMMA CreateFills ==
  ASSUME RowsShaped(db), NEW k \in (Len(Deletes) + 1)..Statements, Swept(db, k)
  PROVE  LET t == Creates[k - Len(Deletes)]
             e == [db EXCEPT ![t] = @ \cup Fixtures[t]]
         IN /\ k # Statements => Swept(e, k + 1)
            /\ k = Statements => e = Fixtures
<1> DEFINE j == k - Len(Deletes)
           t == Creates[j]
           e == [db EXCEPT ![t] = @ \cup Fixtures[t]]
<1>1. /\ j \in 1..14 /\ k \in 19..32 /\ ~(k <= Len(Deletes)) /\ k + 1 - Len(Deletes) = j + 1
      /\ ~(k + 1 <= Len(Deletes))
      /\ t \in DOMAIN Filling /\ t \in Table /\ Filling[t] = j
  BY Lengths, FillingIs
<1>2. \A u \in Table : db[u] = IF u \in DOMAIN Filling /\ Filling[u] < j THEN Fixtures[u] ELSE {}
  BY <1>1 DEF Swept
<1>3. DOMAIN e = Table /\ e[t] = db[t] \cup Fixtures[t] /\ \A u \in Table : u # t => e[u] = db[u]
  BY <1>1 DEF RowsShaped
<1>4. e = [u \in Table |-> e[u]]
  BY <1>3
<1>5. \A u \in DOMAIN Filling : Filling[u] \in 1..14 /\ (Filling[u] = j => u = t)
  BY FillingIs DEF t
<1> HIDE DEF t, e, j
<1>6. ASSUME NEW u \in Table
      PROVE  e[u] = IF u \in DOMAIN Filling /\ Filling[u] < j + 1 THEN Fixtures[u] ELSE {}
  <2>1. CASE u = t
    <3>1. ~(Filling[t] < j) /\ Filling[t] < j + 1
      BY <1>1
    <3>2. e[t] = Fixtures[t]
      BY <1>1, <1>2, <1>3, <3>1
    <3> QED
      BY <1>1, <2>1, <3>1, <3>2
  <2>2. CASE u # t
    <3>1. ASSUME u \in DOMAIN Filling PROVE Filling[u] < j + 1 <=> Filling[u] < j
      <4>1. Filling[u] \in Nat /\ j \in Nat /\ Filling[u] # j
        BY <1>1, <1>5, <2>2, <3>1
      <4> QED
        BY <4>1
    <3>2. e[u] = db[u]
      BY <1>3, <2>2
    <3> QED
      BY <1>2, <3>1, <3>2
  <2> QED
    BY <2>1, <2>2
<1>7. Swept(e, k + 1)
  BY <1>1, <1>6 DEF Swept
<1>8. ASSUME k = Statements PROVE e = Fixtures
  <2>1. j = 14
    BY <1>8, Lengths DEF j
  <2>2. ASSUME NEW u \in Table PROVE e[u] = Fixtures[u]
    <3>1. u \in DOMAIN Filling => Filling[u] < j + 1
      BY <1>5, <2>1
    <3> QED
      BY <1>6, <3>1, NotFilled
  <2>3. Fixtures = [u \in Table |-> Fixtures[u]]
    BY DEF Table, Fixtures
  <2> QED
    BY <1>4, <2>2, <2>3
<1> QED
  BY <1>7, <1>8 DEF e, t, j

-----------------------------------------------------------------------------

\* A reset that starts has emptied nothing yet, and the others are not alone.
LEMMA StartKeeps ==
  ASSUME ResetInv, NEW r \in Reset, Start(r)
  PROVE  ResetInv'
<1>1. /\ status' = [status EXCEPT ![r] = "running"] /\ pc' = [pc EXCEPT ![r] = 1] /\ db' = db
      /\ alone' = [Seen(r) EXCEPT ![r] = Running = {}]
  BY DEF Start
<1>2. DOMAIN alone' = Reset /\ \A o \in Reset : o # r => ~alone'[o]
  BY <1>1 DEF Seen
<1>3. pc'[r] = 1 /\ 1 \in 1..Statements
  BY <1>1, Lengths DEF ResetInv
<1>4. Swept(db, 1)
  <2>1. \A t \in Table : ~(Emptying[t] < 1)
    BY EmptyingIs
  <2> QED
    BY <2>1, Lengths DEF Swept
<1>5. \A o \in Reset : status'[o] = "running" => pc'[o] \in 1..Statements
  BY <1>1, <1>3 DEF ResetInv
<1>6. \A o \in Reset : status'[o] = "running" /\ alone'[o] => Swept(db', pc'[o])
  BY <1>1, <1>2, <1>3, <1>4
<1> QED
  BY <1>1, <1>2, <1>5, <1>6 DEF ResetInv

\* A statement of one reset: the others are no longer alone.
LEMMA WriteKeeps ==
  ASSUME ResetInv, NEW r \in Reset, RowsShaped(db'), alone' = Seen(r), status[r] = "running",
         pc' = [pc EXCEPT ![r] = @ + 1], DOMAIN status' = Reset,
         \A o \in Reset : o # r => status'[o] = status[o],
         status'[r] = "running" => pc[r] # Statements,
         status'[r] = "running" /\ alone[r] => Swept(db', pc[r] + 1)
  PROVE  ResetInv'
<1>1. /\ DOMAIN alone' = Reset /\ \A o \in Reset : o # r => ~alone'[o]
      /\ alone'[r] => alone[r]
  BY DEF Seen
<1>2. pc'[r] = pc[r] + 1 /\ \A o \in Reset : o # r => pc'[o] = pc[o]
  BY DEF ResetInv
<1>3. status'[r] = "running" => pc'[r] \in 1..Statements
  BY <1>2, Lengths DEF ResetInv
<1>4. \A o \in Reset : status'[o] = "running" => pc'[o] \in 1..Statements
  BY <1>2, <1>3 DEF ResetInv
<1>5. \A o \in Reset : status'[o] = "running" /\ alone'[o] => Swept(db', pc'[o])
  BY <1>1, <1>2
<1>6. DOMAIN pc' = Reset
  BY DEF ResetInv
<1> QED
  BY <1>1, <1>4, <1>5, <1>6 DEF ResetInv

\* A deleteMany.
LEMMA DeleteManyKeeps ==
  ASSUME ResetInv, NEW r \in Reset, DeleteMany(r)
  PROVE  ResetInv'
<1> DEFINE k == pc[r]
<1>1. /\ k \in 1..Len(Deletes) /\ db' = Emptied(Deletes[k]) /\ RowsShaped(db) /\ k # Statements
  BY Lengths DEF DeleteMany, ResetInv
<1>2. RowsShaped(db')
  BY <1>1, Lengths, EmptyingIs, EmptiedShaped
<1>3. alone[r] => Swept(db', k + 1)
  BY <1>1, DeleteSweeps DEF ResetInv, DeleteMany
<1> QED
  BY <1>1, <1>2, <1>3, WriteKeeps DEF DeleteMany, ResetInv

\* A createMany; the last one of a reset that is alone restores the seed.
LEMMA CreateManyKeeps ==
  ASSUME ResetInv, NEW r \in Reset, CreateMany(r)
  PROVE  /\ ResetInv'
         /\ alone[r] /\ status'[r] = "ok" => db' = Fixtures
<1> DEFINE k == pc[r]
           t == Creates[k - Len(Deletes)]
<1>1. /\ k \in (Len(Deletes) + 1)..Statements /\ RowsShaped(db)
      /\ db' = [db EXCEPT ![t] = @ \cup Fixtures[t]]
      /\ status' = [status EXCEPT ![r] = IF k = Statements THEN "ok" ELSE "running"]
      /\ status'[r] = IF k = Statements THEN "ok" ELSE "running"
      /\ status[r] = "running"
  BY Lengths DEF CreateMany, ResetInv
<1>2. t \in Table
  <2>1. k - Len(Deletes) \in 1..14
    BY <1>1, Lengths
  <2> QED
    BY <2>1, FillingIs
<1>3. RowsShaped(db')
  BY <1>1, <1>2, InsertShaped, FixturesShaped
<1>4. alone[r] => /\ k # Statements => Swept(db', k + 1)
                  /\ k = Statements => db' = Fixtures
  BY <1>1, CreateFills DEF ResetInv
<1>5. ResetInv'
  BY <1>1, <1>3, <1>4, WriteKeeps DEF CreateMany, ResetInv
<1> QED
  BY <1>1, <1>4, <1>5

\* A refused or killed reset changes no row.
LEMMA EndKeeps ==
  ASSUME ResetInv, NEW r \in Reset, Fail(r) \/ Kill(r)
  PROVE  ResetInv'
<1>1. status' = [status EXCEPT ![r] = "failed"] /\ UNCHANGED <<db, pc, alone>>
  BY DEF Fail, Kill
<1> QED
  BY <1>1 DEF ResetInv

\* After a request no reset is alone.
LEMMA RequestedKeeps ==
  ASSUME ResetInv, Requested, RowsShaped(db')
  PROVE  ResetInv'
  BY DEF ResetInv, Requested

\* The requests of buyers add rows with the foreign keys of their tables.
LEMMA RequestKeeps ==
  ASSUME ResetInv, Request
  PROVE  ResetInv'
<1>1. RowsShaped(db)
  BY DEF ResetInv
<1>2. PICK who \in Buyer, id \in NewId :
        \/ OpenCart(who, id)
        \/ \E p \in Product : AddItem(who, id, p)
        \/ Checkout(who, id)
        \/ Pay(who, id)
  BY DEF Request
<1>3. \A x, refs, t : (\A ref \in refs : ref[1] \in Parents[t]) => Shaped(t, Row(x, refs))
  BY RowIs DEF Shaped
<1>4. CASE OpenCart(who, id)
  <2> DEFINE row == Row(id, {<<"customers", who>>})
  <2>1. Shaped("carts", row) /\ "carts" \in Table
    BY <1>3, TableIs DEF Parents
  <2>2. db' = [db EXCEPT !["carts"] = @ \cup {row}] /\ Requested
    BY <1>4 DEF OpenCart
  <2> HIDE DEF row
  <2>3. RowsShaped(db')
    BY <1>1, <2>1, <2>2, InsertShaped
  <2> QED
    BY <2>2, <2>3, RequestedKeeps
<1>5. ASSUME NEW p \in Product, AddItem(who, id, p) PROVE ResetInv'
  <2>1. PICK c \in ActiveCarts(who) :
          /\ db' = [db EXCEPT
               !["cart_items"] = @ \cup {Row(id, {<<"carts", c.id>>, <<"sale_snapshots", p>>})},
               !["cart_item_stocks"] = @ \cup
                 {Row(id, {<<"cart_items", id>>, <<"sale_snapshot_units", p>>,
                           <<"sale_snapshot_unit_stocks", p>>})}]
          /\ Requested
    BY <1>5 DEF AddItem
  <2> DEFINE line == Row(id, {<<"carts", c.id>>, <<"sale_snapshots", p>>})
             stock == Row(id, {<<"cart_items", id>>, <<"sale_snapshot_units", p>>,
                               <<"sale_snapshot_unit_stocks", p>>})
             e == [db EXCEPT !["cart_items"] = @ \cup {line}]
  <2>2. Shaped("cart_items", line) /\ Shaped("cart_item_stocks", stock)
    BY <1>3 DEF Parents
  <2>3. db' = [e EXCEPT !["cart_item_stocks"] = @ \cup {stock}]
    BY <2>1
  <2>4. "cart_items" \in Table /\ "cart_item_stocks" \in Table
    BY TableIs
  <2> HIDE DEF line, stock
  <2>5. RowsShaped(e)
    BY <1>1, <2>2, <2>4, InsertShaped
  <2> HIDE DEF e
  <2>6. RowsShaped(db')
    BY <2>2, <2>3, <2>4, <2>5, InsertShaped
  <2> QED
    BY <2>1, <2>6, RequestedKeeps
<1>6. CASE Checkout(who, id)
  <2>1. PICK c \in ActiveCarts(who) :
          /\ db' = [db EXCEPT
               !["orders"] = @ \cup {Row(id, {<<"customers", who>>, <<"addresses", who>>})},
               !["order_items"] = @ \cup
                 {Row(l.id, {<<"orders", id>>, <<"cart_items", l.id>>, <<"customers", "seller">>}) :
                    l \in {x \in LinesOf(c) : IsStocked(x)}}]
          /\ Requested
    BY <1>6 DEF Checkout
  <2> DEFINE order == Row(id, {<<"customers", who>>, <<"addresses", who>>})
             items == {Row(l.id, {<<"orders", id>>, <<"cart_items", l.id>>, <<"customers", "seller">>}) :
                         l \in {x \in LinesOf(c) : IsStocked(x)}}
             e == [db EXCEPT !["orders"] = @ \cup {order}]
  <2>2. Shaped("orders", order) /\ \A item \in items : Shaped("order_items", item)
    <3>1. Shaped("orders", order)
      BY <1>3 DEF Parents
    <3>2. ASSUME NEW l
          PROVE  Shaped("order_items",
                        Row(l.id, {<<"orders", id>>, <<"cart_items", l.id>>, <<"customers", "seller">>}))
      BY <1>3 DEF Parents
    <3> QED
      BY <3>1, <3>2
  <2>3. db' = [e EXCEPT !["order_items"] = @ \cup items]
    BY <2>1
  <2>4. "orders" \in Table /\ "order_items" \in Table
    BY TableIs
  <2> HIDE DEF order, items
  <2>5. RowsShaped(e)
    BY <1>1, <2>2, <2>4, InsertShaped
  <2> HIDE DEF e
  <2>6. RowsShaped(db')
    BY <2>2, <2>3, <2>4, <2>5, InsertShaped
  <2> QED
    BY <2>1, <2>6, RequestedKeeps
<1>7. CASE Pay(who, id)
  <2>1. PICK o \in db["orders"] :
          /\ db' = [db EXCEPT
               !["payment_attempts"] = @ \cup {Row(id, {<<"orders", o.id>>})},
               !["order_payments"] = @ \cup {Row(id, {<<"orders", o.id>>})}]
          /\ Requested
    BY <1>7 DEF Pay
  <2> DEFINE row == Row(id, {<<"orders", o.id>>})
             e == [db EXCEPT !["payment_attempts"] = @ \cup {row}]
  <2>2. Shaped("payment_attempts", row) /\ Shaped("order_payments", row)
    BY <1>3 DEF Parents
  <2>3. db' = [e EXCEPT !["order_payments"] = @ \cup {row}]
    BY <2>1
  <2>4. "payment_attempts" \in Table /\ "order_payments" \in Table
    BY TableIs
  <2> HIDE DEF row
  <2>5. RowsShaped(e)
    BY <1>1, <2>2, <2>4, InsertShaped
  <2> HIDE DEF e
  <2>6. RowsShaped(db')
    BY <2>2, <2>3, <2>4, <2>5, InsertShaped
  <2> QED
    BY <2>1, <2>6, RequestedKeeps
<1> QED
  BY <1>2, <1>4, <1>5, <1>6, <1>7

\* Every step keeps the invariant.
LEMMA StepKeeps ==
  ASSUME ResetInv, [Next]_vars
  PROVE  ResetInv'
<1>1. CASE UNCHANGED vars
  BY <1>1 DEF vars, ResetInv
<1>2. CASE Next
  BY <1>2, StartKeeps, DeleteManyKeeps, CreateManyKeeps, EndKeeps, RequestKeeps DEF Next
<1> QED
  BY <1>1, <1>2

\* The seeded database satisfies it.
LEMMA SeedKeeps == Init => ResetInv
<1> SUFFICES ASSUME Init PROVE ResetInv
  OBVIOUS
<1>1. RowsShaped(db)
  BY FixturesShaped DEF Init, RowsShaped, Table
<1> QED
  BY <1>1 DEF Init, ResetInv

\* A reset that nothing overlaps has emptied, or filled, exactly the tables of
\* the statements it has done, whatever was in the database when it began.
THEOREM AlwaysResetInv == Spec => []ResetInv
  BY SeedKeeps, StepKeeps, PTL DEF Spec

\* A reset that nothing overlaps never breaks a constraint: resetSeedScope and
\* seed order their statements as the foreign keys demand.
THEOREM NeverRefusedAlone == Spec => []AloneIsNeverRefused
<1>1. ResetInv => AloneIsNeverRefused
  <2> SUFFICES ASSUME ResetInv, NEW r \in Reset, status[r] = "running", alone[r] PROVE ~Refused(r)
    BY DEF AloneIsNeverRefused
  <2>1. RowsShaped(db) /\ Swept(db, pc[r]) /\ pc[r] \in 1..Statements
    BY DEF ResetInv
  <2>2. CASE pc[r] <= Len(Deletes)
    <3>1. pc[r] \in 1..Len(Deletes)
      BY <2>1, <2>2, Lengths
    <3> QED
      BY <2>1, <2>2, <3>1, AloneMayEmpty DEF Refused
  <2>3. CASE ~(pc[r] <= Len(Deletes))
    <3>1. pc[r] \in (Len(Deletes) + 1)..Statements
      BY <2>1, <2>3, Lengths
    <3> QED
      BY <2>1, <2>3, <3>1, AloneMayInsert DEF Refused
  <2> QED
    BY <2>2, <2>3
<1> QED
  BY <1>1, AlwaysResetInv, PTL

\* When a reset that nothing overlapped answers 200, the database holds exactly
\* the seeded rows.
THEOREM RestoredAlone == Spec => AloneRestores
<1> DEFINE Restores == \A r \in Reset : alone[r] /\ status[r] = "running" /\ status'[r] = "ok" => db' = Fixtures
<1>1. ASSUME ResetInv, [Next]_vars PROVE [Restores]_vars
  <2> SUFFICES ASSUME Next, NEW r \in Reset, alone[r], status[r] = "running", status'[r] = "ok"
               PROVE  db' = Fixtures
    BY <1>1
  <2>1. CASE Request
    BY <2>1 DEF Request, OpenCart, AddItem, Checkout, Pay, Requested
  <2>2. CASE \E o \in Reset : Start(o) \/ DeleteMany(o) \/ CreateMany(o) \/ Fail(o) \/ Kill(o)
    <3>1. PICK o \in Reset : Start(o) \/ DeleteMany(o) \/ CreateMany(o) \/ Fail(o) \/ Kill(o)
      BY <2>2
    <3>2. status[r] # status'[r]
      OBVIOUS
    <3>3. CreateMany(o) /\ o = r
      BY <1>1, <3>1, <3>2 DEF ResetInv, Start, DeleteMany, CreateMany, Fail, Kill
    <3> QED
      BY <1>1, <3>3, CreateManyKeeps
  <2> QED
    BY <2>1, <2>2 DEF Next
<1> QED
  BY <1>1, AlwaysResetInv, PTL DEF Spec, AloneRestores
=============================================================================
