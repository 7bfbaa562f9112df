------------------------------- MODULE MCShop -------------------------------
(***************************************************************************)
(* Shop on a reduced seed: buyer c1 has an active cart with one line and   *)
(* an ordered cart whose order carries a succeeded attempt but no payment  *)
(* row, as ORDER_SUCCESS of prisma/seed-data.js; c2 has nothing and no     *)
(* address, as the third seeded buyer.                                     *)
(***************************************************************************)
EXTENDS Shop, TLC

CONSTANTS c1, c2, v1, v2, k0, k1, k2, ok, declined, a1, r1, r2, r3

MCSeedId == {"cart1", "line1", "cart2", "line2", "order2"}

MCSeedDb ==
  [cart |-> {[id |-> "cart1", customer |-> c1, created |-> 1],
             [id |-> "cart2", customer |-> c1, created |-> 0]},
   cartItem |-> {[id |-> "line1", cart |-> "cart1", volume |-> 1],
                 [id |-> "line2", cart |-> "cart2", volume |-> 1]},
   itemStock |-> {[item |-> "line1", variant |-> v1, quantity |-> 1],
                  [item |-> "line2", variant |-> v1, quantity |-> 1]},
   order |-> {[id |-> "order2", customer |-> c1, cash |-> 3]},
   orderItem |-> {[line |-> "line2", order |-> "order2", volume |-> 1]},
   attempt |-> {[id |-> "order2", order |-> "order2", key |-> k0, outcome |-> ok]},
   payment |-> {}]

MCPrice == (v1 :> 3) @@ (v2 :> 5)

\* Bodies that name rows of the right table, seeded or made by a request; c2
\* reaches out for the rows of c1.
Names(seeded) == seeded \cup Request
MCBody ==
  {b \in AnyBody :
     \/ b.op \in {"getCart", "addItem"}
     \/ b.op \in {"updateItem", "deleteItem"} /\ b.line \in Names({"line1"})
     \/ b.op = "createOrder" /\ b.cart \in Names({"cart1", "cart2"})
     \/ b.op = "createAttempt" /\ b.order \in Names({"order2"}) /\ b.key # k0}

MCAddressOf == (c1 :> a1) @@ (c2 :> None)

Symmetric == Permutations(Request)
=============================================================================
