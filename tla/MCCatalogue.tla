----------------------------- MODULE MCCatalogue -----------------------------
(* Three sales of which the first has an older snapshot and the second two   *)
(* contents and two variants.                                                *)
EXTENDS Catalogue

MCTerm == {"on", "o"}
MCIsLong == [t \in MCTerm |-> t = "on"]
MCStarting == [t \in MCTerm |-> {2}]
MCContaining == [t \in MCTerm |-> {1, 2}]

Stock(id, snapshot, sequence, price) ==
    [id |-> id, snapshot |-> snapshot, unit |-> 1, sequence |-> sequence, price |-> price]

\* Sale s has snapshot s, sale 1 an older one as well; content and variant 9 belong to sale 2.
MCCatalogues ==
    { [status    |-> [s \in 1..3 |-> IF s = 3 THEN status ELSE "open"],
       snapshots |-> { [id |-> s, sale |-> s, at |-> IF s = 1 THEN 1 ELSE at] : s \in 1..3 }
                     \cup { [id |-> 0, sale |-> 1, at |-> old] },
       contents  |-> { [id |-> s, snapshot |-> s, title |-> title[s]] : s \in 1..3 }
                     \cup { [id |-> 9, snapshot |-> 2, title |-> title[2]], [id |-> 0, snapshot |-> 0, title |-> 3] },
       stocks    |-> { Stock(s, s, 1, price[s]) : s \in 1..3 } \cup { Stock(9, 2, 0, 2), Stock(0, 0, 1, 0) }] :
      <<status, at, old, title, price>> \in
         {"open", "paused"} \X {1, 2} \X {0, 1} \X { t \in [1..3 -> 1..3] : t[1] # 3 /\ t[2] # 3 } \X [1..3 -> {0, 1}] }

=============================================================================
