---------------------------- MODULE MCShopLedger ----------------------------
(***************************************************************************)
(* ShopLedger on the seeded database of prisma/seed-data.js, reduced to    *)
(* the rows that matter: buyer c1 has an active cart with one line and an  *)
(* ordered cart whose order carries a succeeded attempt but no payment row *)
(* (ORDER_SUCCESS); buyer c2 has nothing yet, like the third seeded buyer. *)
(***************************************************************************)
EXTENDS ShopLedger, TLC

CONSTANTS c1, c2, v1, v2, k1, k2, ok, declined, x1, x2, x3

SeedId == {"cart1", "cart2", "line1", "line2", "order1"}
NewId == {x1, x2, x3}
MCId == SeedId \cup NewId

MCSeedCarts ==
  {[id |-> "cart1", customer |-> c1], [id |-> "cart2", customer |-> c1]}

MCSeedLines ==
  {[id |-> "line1", cart |-> "cart1", variant |-> v1, quantity |-> 1],
   [id |-> "line2", cart |-> "cart2", variant |-> v1, quantity |-> 1]}

MCSeedOrders == {[id |-> "order1", customer |-> c1]}

MCSeedItems == {[line |-> "line2", order |-> "order1", volume |-> 1]}

MCSeedAttempts == {[order |-> "order1", key |-> k1, outcome |-> ok]}

\* The names of different tables are never compared, so nothing is lost when
\* three new ones are enough for all the tables: no row takes a seeded name of
\* another table, and a new name is that of one row, or of a cart and its line.
Names(rows) == {x.id : x \in rows}

NamesApart ==
  /\ Names(carts) \subseteq NewId \cup Names(SeedCarts)
  /\ Names(lines) \subseteq NewId \cup Names(SeedLines)
  /\ Names(orders) \subseteq NewId \cup Names(SeedOrders)
  /\ Names(orders) \cap (Names(carts) \cup Names(lines)) = {}
  /\ \A l \in lines : l.id \in Names(carts) => l.cart = l.id

NewIdSymmetry == Permutations(NewId)
=============================================================================
