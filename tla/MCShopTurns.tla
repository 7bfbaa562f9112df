----------------------------- MODULE MCShopTurns -----------------------------
(***************************************************************************)
(* The seed and the bodies of MCShop, for buyers who send one request at a *)
(* time.                                                                   *)
(***************************************************************************)
EXTENDS ShopTurns, MCShop

\* c1 may send anything, c2 what takes no line or order of its own.
TurnsBody ==
  {b \in MCBody : \/ b.customer = c1
                  \/ b.op = "addItem" /\ b.quantity = 1
                  \/ b.op = "createAttempt" /\ b.key = k1}
=============================================================================
