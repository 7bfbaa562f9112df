--------------------------- MODULE CatalogueProofs ---------------------------
(***************************************************************************)
(* What the listings show, for any catalogue, any terms and any paging,    *)
(* although every page is cut out of the answer to a statement of its own  *)
(* that returns its rows in any order.                                     *)
(*                                                                         *)
(* First what holds of orders in general: there is one, there is only one  *)
(* if the comparison decides between any two elements, and two orders by   *)
(* the same number agree in that number place by place.  Then what a       *)
(* statement joins and the mapper makes of it; then pages put together;    *)
(* last the state: the answers so far are the first pages of the listing.  *)
(***************************************************************************)
EXTENDS Catalogue, FoldLemmas, SequenceTheorems

-----------------------------------------------------------------------------
(* Orders of finite sets. *)

\* s has every element of S once.
Lists(s, S) ==
  /\ Cardinality(S) \in Nat
  /\ s \in [1..Cardinality(S) -> S] /\ s \in Seq(S) /\ Len(s) = Cardinality(S)
  /\ \A i, j \in 1..Cardinality(S) : s[i] = s[j] => i = j
  /\ \A x \in S : \E i \in 1..Cardinality(S) : s[i] = x

\* A sequence that orders a finite set has each of its elements, once.
LEMMA OrderParts ==
  ASSUME NEW S, IsFiniteSet(S), NEW s \in SetToSeqs(S)
  PROVE  Lists(s, S)
<1> DEFINE n == Cardinality(S)
<1>1. n \in Nat
  BY FS_CardinalityType
<1>2. s \in [1..n -> S] /\ \A i, j \in 1..n : s[i] = s[j] => i = j
  BY DEF SetToSeqs
<1>3. s \in Seq(S) /\ Len(s) = n
  BY <1>1, <1>2
<1>4. \A x \in S : \E i \in 1..n : s[i] = x
  <2>1. s \in Injection(1..n, S)
    BY <1>2 DEF Injection, IsInjective
  <2>2. IsFiniteSet(1..n) /\ Cardinality(1..n) = n
    BY <1>1, FS_Interval
  <2>3. s \in Surjection(1..n, S)
    BY <2>1, <2>2, FS_Injection
  <2> QED
    BY <2>3 DEF Surjection
<1> QED
  BY <1>1, <1>2, <1>3, <1>4 DEF Lists

\* None of the pairs of R is the wrong way round in s.
Follows(s, R) == \A i, j \in DOMAIN s : i < j => <<s[j], s[i]>> \notin R

\* Where R decides between any two elements, there is only one order.
LEMMA OneOrder ==
  ASSUME NEW S, IsFiniteSet(S), NEW R, \A x, y \in S : x = y \/ <<x, y>> \in R \/ <<y, x>> \in R,
         NEW s \in SetToSeqs(S), NEW t \in SetToSeqs(S), Follows(s, R), Follows(t, R)
  PROVE  s = t
<1> DEFINE n == Cardinality(S)
           D == {i \in 1..n : s[i] # t[i]}
<1>0. Lists(s, S) /\ Lists(t, S)
  BY OrderParts
<1>1. /\ n \in Nat /\ s \in [1..n -> S] /\ t \in [1..n -> S]
      /\ \A i, j \in 1..n : s[i] = s[j] => i = j
      /\ \A i, j \in 1..n : t[i] = t[j] => i = j
      /\ \A x \in S : \E i \in 1..n : s[i] = x
      /\ \A x \in S : \E i \in 1..n : t[i] = x
  BY <1>0 DEF Lists
<1>2. SUFFICES ASSUME D # {} PROVE FALSE
  <2>1. D = {} => \A i \in 1..n : s[i] = t[i]
    OBVIOUS
  <2> QED
    BY <1>1, <2>1
<1>3. PICK i \in D : \A j \in D : i <= j
  <2>1. D \in SUBSET Nat
    BY <1>1
  <2> QED
    BY <1>2, <2>1, LeastNumber
<1>4. PICK j \in 1..n : t[j] = s[i]
  BY <1>1
<1>5. PICK k \in 1..n : s[k] = t[i]
  BY <1>1
<1>6. j > i
  <2>1. CASE j < i
    <3>1. s[j] = t[j]
      BY <1>3, <2>1
    <3> QED
      BY <1>1, <1>4, <2>1, <3>1
  <2>2. j # i
    BY <1>3, <1>4
  <2> QED
    BY <2>1, <2>2
<1>7. k > i
  <2>1. CASE k < i
    <3>1. s[k] = t[k]
      BY <1>3, <2>1
    <3> QED
      BY <1>1, <1>5, <2>1, <3>1
  <2>2. k # i
    BY <1>3, <1>5
  <2> QED
    BY <2>1, <2>2
<1>8. <<t[j], t[i]>> \notin R /\ <<s[k], s[i]>> \notin R
  BY <1>1, <1>6, <1>7 DEF Follows
<1> QED
  BY <1>1, <1>3, <1>4, <1>5, <1>8

\* Two orders by the same weight have the same weights, place by place.
LEMMA SameWeights ==
  ASSUME NEW S, IsFiniteSet(S), NEW w \in [S -> Int], NEW s \in SetToSeqs(S), NEW t \in SetToSeqs(S),
         \A i, j \in DOMAIN s : i < j => w[s[i]] <= w[s[j]],
         \A i, j \in DOMAIN t : i < j => w[t[i]] <= w[t[j]],
         NEW x \in 1..Cardinality(S)
  PROVE  w[t[x]] <= w[s[x]]
<1> DEFINE n == Cardinality(S)
<1>0. Lists(s, S) /\ Lists(t, S)
  BY OrderParts
<1>1. /\ n \in Nat /\ s \in [1..n -> S] /\ t \in [1..n -> S]
      /\ \A i, j \in 1..n : s[i] = s[j] => i = j
      /\ \A y \in S : \E i \in 1..n : t[i] = y
  BY <1>0 DEF Lists
<1>2. SUFFICES ASSUME w[s[x]] < w[t[x]] PROVE FALSE
  <2>1. w[s[x]] \in Int /\ w[t[x]] \in Int
    BY <1>1
  <2> QED
    BY <2>1
<1> DEFINE f == [i \in 1..x |-> CHOOSE y \in 1..n : t[y] = s[i]]
<1>3. ASSUME NEW i \in 1..x PROVE f[i] \in 1..n /\ t[f[i]] = s[i]
  <2>1. s[i] \in S
    BY <1>1
  <2>2. \E y \in 1..n : t[y] = s[i]
    BY <1>1, <2>1
  <2> QED
    BY <2>2
<1>4. ASSUME NEW i \in 1..x PROVE f[i] \in 1..(x - 1)
  <2>1. f[i] \in 1..n /\ t[f[i]] = s[i]
    BY <1>3
  <2> HIDE DEF f
  <2>2. w[s[i]] <= w[s[x]]
    <3>1. i = x \/ i < x
      OBVIOUS
    <3>2. w[s[x]] \in Int
      BY <1>1
    <3> QED
      BY <1>1, <3>1, <3>2
  <2>3. ~(x <= f[i])
    <3> SUFFICES ASSUME x <= f[i] PROVE FALSE
      OBVIOUS
    <3>1. w[t[x]] <= w[t[f[i]]]
      <4>1. x = f[i] \/ x < f[i]
        BY <2>1
      <4>2. w[t[x]] \in Int
        BY <1>1
      <4> QED
        BY <1>1, <2>1, <4>1, <4>2
    <3>2. w[t[x]] \in Int /\ w[s[x]] \in Int /\ w[s[i]] \in Int
      BY <1>1
    <3> QED
      BY <1>2, <2>1, <2>2, <3>1, <3>2
  <2> QED
    BY <1>1, <2>1, <2>3
<1>5. f \in [1..x -> 1..(x - 1)]
  BY <1>4
<1>6. IsFiniteSet(1..x) /\ IsFiniteSet(1..(x - 1)) /\ Cardinality(1..(x - 1)) < Cardinality(1..x)
  <2>1. x \in Int /\ x - 1 \in Int /\ x >= 1
    BY <1>1
  <2>2. IsFiniteSet(1..x) /\ Cardinality(1..x) = x
    BY <2>1, FS_Interval
  <2>3. IsFiniteSet(1..(x - 1)) /\ Cardinality(1..(x - 1)) = x - 1
    BY <2>1, FS_Interval
  <2> QED
    BY <2>1, <2>2, <2>3
<1> HIDE DEF f
<1>7. PICK i, j \in 1..x : i # j /\ f[i] = f[j]
  BY <1>5, <1>6, FS_PigeonHole
<1>8. s[i] = s[j]
  BY <1>3, <1>7
<1> QED
  BY <1>1, <1>7, <1>8

\* Every part of S that is not empty has an element no other must stand before.
HasFirst(S, R) == \A T \in SUBSET S : T # {} => \E x \in T : \A y \in T : <<y, x>> \notin R

\* Then there is an order: take such an element, and order the others after it.
LEMMA OrderExists ==
  ASSUME NEW S, IsFiniteSet(S), NEW R, HasFirst(S, R)
  PROVE  \E s \in SetToSeqs(S) : Follows(s, R)
<1> DEFINE Orderable(T) == \E s \in SetToSeqs(T) : Follows(s, R)
           N == {n \in Nat : \A T \in SUBSET S : Cardinality(T) = n => Orderable(T)}
<1>1. 0 \in N
  <2>1. SUFFICES ASSUME NEW T \in SUBSET S, Cardinality(T) = 0 PROVE Orderable(T)
    OBVIOUS
  <2>2. T = {} /\ 1..Cardinality(T) = {}
    BY <2>1, FS_Subset, FS_EmptySet
  <2> DEFINE s == [i \in {} |-> CHOOSE x \in T : TRUE]
  <2>3. s \in SetToSeqs(T)
    BY <2>2 DEF SetToSeqs
  <2>4. Follows(s, R)
    BY DEF Follows
  <2> QED
    BY <2>3, <2>4
<1>2. ASSUME NEW n \in N PROVE n + 1 \in N
  <2>1. SUFFICES ASSUME NEW T \in SUBSET S, Cardinality(T) = n + 1 PROVE Orderable(T)
    OBVIOUS
  <2>2. IsFiniteSet(T) /\ n \in Nat
    BY FS_Subset
  <2>3. T # {}
    BY <2>1, <2>2, FS_EmptySet
  <2>4. PICK x \in T : \A y \in T : <<y, x>> \notin R
    BY <2>3 DEF HasFirst
  <2>5. IsFiniteSet(T \ {x}) /\ Cardinality(T \ {x}) = n /\ T \ {x} \in SUBSET S
    <3>1. IsFiniteSet(T \ {x}) /\ Cardinality(T \ {x}) = Cardinality(T) - 1
      BY <2>2, FS_RemoveElement
    <3> QED
      BY <2>1, <2>2, <3>1
  <2>6. PICK t \in SetToSeqs(T \ {x}) : Follows(t, R)
    BY <2>5
  <2>7. /\ t \in [1..n -> T \ {x}]
        /\ \A i, j \in 1..n : t[i] = t[j] => i = j
    BY <2>5, <2>6 DEF SetToSeqs
  <2> DEFINE s == [i \in 1..(n + 1) |-> IF i = 1 THEN x ELSE t[i - 1]]
  <2>8. s[1] = x /\ DOMAIN s = 1..(n + 1)
    BY <2>2
  <2>9. ASSUME NEW i \in 1..(n + 1), i # 1 PROVE i - 1 \in 1..n /\ s[i] = t[i - 1] /\ s[i] \in T \ {x}
    <3>1. i - 1 \in 1..n
      BY <2>2, <2>9
    <3>2. s[i] = t[i - 1]
      BY <2>9
    <3> QED
      BY <2>7, <3>1, <3>2
  <2> HIDE DEF s
  <2>10. s \in [1..(n + 1) -> T]
    <3>1. \A i \in 1..(n + 1) : s[i] \in T
      BY <2>8, <2>9
    <3>2. s = [i \in 1..(n + 1) |-> s[i]]
      BY DEF s
    <3> QED
      BY <3>1, <3>2
  <2>11. \A i, j \in 1..(n + 1) : i # j => s[i] # s[j]
    <3> SUFFICES ASSUME NEW i \in 1..(n + 1), NEW j \in 1..(n + 1), i # j, s[i] = s[j] PROVE FALSE
      OBVIOUS
    <3>1. i # 1 /\ j # 1
      BY <2>8, <2>9
    <3>2. t[i - 1] = t[j - 1] /\ i - 1 \in 1..n /\ j - 1 \in 1..n
      BY <2>9, <3>1
    <3>3. i - 1 = j - 1
      BY <2>7, <3>2
    <3> QED
      BY <3>3
  <2>12. s \in SetToSeqs(T)
    BY <2>1, <2>10, <2>11 DEF SetToSeqs
  <2>13. Follows(s, R)
    <3> SUFFICES ASSUME NEW i \in 1..(n + 1), NEW j \in 1..(n + 1), i < j PROVE <<s[j], s[i]>> \notin R
      BY <2>8 DEF Follows
    <3>1. j # 1
      BY <2>2
    <3>2. CASE i = 1
      BY <2>4, <2>8, <2>9, <3>1, <3>2
    <3>3. CASE i # 1
      <4>1. i - 1 \in 1..n /\ j - 1 \in 1..n /\ i - 1 < j - 1 /\ s[i] = t[i - 1] /\ s[j] = t[j - 1]
        BY <2>9, <3>1, <3>3
      <4>2. DOMAIN t = 1..n
        BY <2>7
      <4> QED
        BY <2>6, <4>1, <4>2 DEF Follows
    <3> QED
      BY <3>2, <3>3
  <2> QED
    BY <2>12, <2>13
<1>3. N = Nat
  <2> HIDE DEF N
  <2>1. N \in SUBSET Nat
    BY DEF N
  <2> QED
    BY <1>1, <1>2, <2>1, SetInduction
<1>4. Cardinality(S) \in N
  BY <1>3, FS_CardinalityType
<1> QED
  BY <1>4

-----------------------------------------------------------------------------
(* The rows of a statement. *)

\* The tables are those of a catalogue.
Keyed(T) == \A x, y \in T : x.id \in Nat /\ (x.id = y.id => x = y)
TablesKeyed ==
  /\ IsFiniteSet(db.stocks)
  /\ Keyed(db.snapshots) /\ Keyed(db.contents) /\ Keyed(db.stocks)
  /\ \A p \in db.snapshots : p.sale \in Sale /\ p.at \in Nat
  /\ \A c \in db.contents : c.title \in Title
  /\ \A v \in db.stocks : v.unit \in Nat /\ v.sequence \in Nat /\ v.price \in Nat

\* That is what is assumed of them.
LEMMA CatalogueKeyed == ASSUME db \in Catalogues PROVE TablesKeyed
  BY CataloguesAreKeyed DEF TablesKeyed, Keyed

\* A snapshot, a content and a variant that a statement joins.
Joins(p, c, v) ==
  /\ p \in db.snapshots /\ IsActive(p.sale) /\ IsLatest(p)
  /\ c \in db.contents /\ c.snapshot = p.id /\ IsCanonical(c)
  /\ v \in db.stocks /\ v.snapshot = p.id

\* Every row is of three such rows, and all of those are joined.
LEMMA RowsAre ==
  /\ \A r \in Rows : \E p, c, v : Joins(p, c, v) /\ r = RowOf(p, c, v)
  /\ \A p, c, v : Joins(p, c, v) => RowOf(p, c, v) \in Rows
<1>1. ASSUME NEW r \in Rows PROVE \E p, c, v : Joins(p, c, v) /\ r = RowOf(p, c, v)
  <2>1. PICK p \in db.snapshots : IsActive(p.sale) /\ IsLatest(p) /\ r \in Joined(p)
    BY DEF Rows
  <2>2. PICK c \in ContentsOf(p), v \in StocksOf(p) : r = RowOf(p, c, v)
    BY <2>1 DEF Joined
  <2> QED
    BY <2>1, <2>2 DEF Joins, ContentsOf, StocksOf
<1>2. ASSUME NEW p, NEW c, NEW v, Joins(p, c, v) PROVE RowOf(p, c, v) \in Rows
  <2>1. RowOf(p, c, v) \in Joined(p)
    <3>1. c \in ContentsOf(p) /\ v \in StocksOf(p)
      BY <1>2 DEF Joins, ContentsOf, StocksOf
    <3> QED
      BY <3>1 DEF Joined
  <2> QED
    BY <1>2, <2>1 DEF Rows, Joins
<1> QED
  BY <1>1, <1>2

\* A sale has one latest snapshot, and a snapshot one canonical content.
LEMMA OneLatest ==
  ASSUME TablesKeyed, NEW p \in db.snapshots, NEW q \in db.snapshots, p.sale = q.sale, IsLatest(p), IsLatest(q)
  PROVE  p = q
<1>1. p.id \in Nat /\ q.id \in Nat /\ p.at \in Nat /\ q.at \in Nat
  BY DEF TablesKeyed, Keyed
<1>2. q.at < p.at \/ (q.at = p.at /\ q.id <= p.id)
  BY DEF IsLatest
<1>3. p.at < q.at \/ (p.at = q.at /\ p.id <= q.id)
  BY DEF IsLatest
<1>4. p.id = q.id
  BY <1>1, <1>2, <1>3
<1> QED
  BY <1>4 DEF TablesKeyed, Keyed

\* Of the contents of a snapshot one has the greatest id.
LEMMA OneCanonical ==
  ASSUME TablesKeyed, NEW c \in db.contents, NEW d \in db.contents, c.snapshot = d.snapshot,
         IsCanonical(c), IsCanonical(d)
  PROVE  c = d
<1>1. c.id \in Nat /\ d.id \in Nat
  BY DEF TablesKeyed, Keyed
<1>2. c.id <= d.id /\ d.id <= c.id
  BY DEF IsCanonical
<1>3. c.id = d.id
  BY <1>1, <1>2
<1> QED
  BY <1>3 DEF TablesKeyed, Keyed

\* The rows of a sale are of one snapshot and one content, and a variant has one row.
LEMMA RowsAgree ==
  ASSUME TablesKeyed, NEW p, NEW c, NEW v, NEW q, NEW d, NEW w, Joins(p, c, v), Joins(q, d, w)
  PROVE  /\ p.sale = q.sale => p = q /\ c = d
         /\ v.id = w.id => p = q /\ c = d /\ v = w
<1>1. p = q => c = d
  BY OneCanonical DEF Joins
<1>2. p.sale = q.sale => p = q
  BY OneLatest DEF Joins
<1>3. v.id = w.id => v = w
  BY DEF Joins, TablesKeyed, Keyed
<1>4. v = w => p = q
  BY DEF Joins, TablesKeyed, Keyed
<1> QED
  BY <1>1, <1>2, <1>3, <1>4

\* What the mapper may rely on.
Mine(s) == { r \in Rows : r.sale = s }
RowTyped(r) ==
  /\ r.sale \in Sale /\ r.created \in Nat /\ r.title \in Title /\ r.price \in Nat
  /\ r.place[1] \in Nat /\ r.place[2] \in Nat
  /\ r.variant \in { v.id : v \in db.stocks }
\* There are finitely many rows, one for a variant, and those of a sale agree on title and time.
LEMMA RowFacts ==
  ASSUME TablesKeyed
  PROVE  /\ IsFiniteSet(Rows)
         /\ \A r \in Rows : RowTyped(r)
         /\ \A r, q \in Rows : r.variant = q.variant => r = q
         /\ \A r, q \in Rows : r.sale = q.sale => r.title = q.title /\ r.created = q.created
<1>1. ASSUME NEW r \in Rows PROVE RowTyped(r)
  <2>1. PICK p, c, v : Joins(p, c, v) /\ r = RowOf(p, c, v)
    BY RowsAre
  <2> QED
    BY <2>1 DEF Joins, RowOf, RowTyped, TablesKeyed
<1>2. ASSUME NEW r \in Rows, NEW q \in Rows
      PROVE  /\ r.variant = q.variant => r = q
             /\ r.sale = q.sale => r.title = q.title /\ r.created = q.created
  <2>1. PICK p, c, v : Joins(p, c, v) /\ r = RowOf(p, c, v)
    BY RowsAre
  <2>2. PICK p2, c2, v2 : Joins(p2, c2, v2) /\ q = RowOf(p2, c2, v2)
    BY RowsAre
  <2>3. /\ p.sale = p2.sale => p = p2 /\ c = c2
        /\ v.id = v2.id => p = p2 /\ c = c2 /\ v = v2
    BY <2>1, <2>2, RowsAgree
  <2>4. r.variant = v.id /\ q.variant = v2.id /\ r.sale = p.sale /\ q.sale = p2.sale
    BY <2>1, <2>2 DEF RowOf
  <2>5. r.title = c.title /\ q.title = c2.title /\ r.created = p.at /\ q.created = p2.at
    BY <2>1, <2>2 DEF RowOf
  <2> QED
    BY <2>1, <2>2, <2>3, <2>4, <2>5
<1>3. IsFiniteSet(Rows)
  <2> DEFINE V == { v.id : v \in db.stocks }
             f == [r \in Rows |-> r.variant]
             g == [v \in db.stocks |-> v.id]
  <2>1. g \in Surjection(db.stocks, V)
    BY DEF Surjection
  <2>2. IsFiniteSet(V)
    BY <2>1, FS_Surjection DEF TablesKeyed
  <2>3. f \in [Rows -> V]
    BY <1>1 DEF RowTyped
  <2>4. f \in Injection(Rows, V)
    BY <1>2, <2>3 DEF Injection, IsInjective
  <2> HIDE DEF f, V
  <2> QED
    BY <2>2, <2>4, FS_Injection
<1> QED
  BY <1>1, <1>2, <1>3

-----------------------------------------------------------------------------
(* The products. *)

\* The mapper can sort the rows of a sale: by unit and sequence, one comes first in every part of them.
LEMMA MineOrdered ==
  ASSUME TablesKeyed, NEW s
  PROVE  IsFiniteSet(Mine(s)) /\ \E l \in Ordered(Mine(s), PlaceBefore) : TRUE
<1> DEFINE S == Mine(s)
           R == { x \in S \X S : PlaceBefore(x[1], x[2]) }
<1>1. S \subseteq Rows /\ IsFiniteSet(S)
  BY RowFacts, FS_Subset DEF Mine
<1>2. ASSUME NEW T \in SUBSET S, T # {} PROVE \E x \in T : \A y \in T : <<y, x>> \notin R
  <2>1. \A r \in T : r.place[1] \in Nat /\ r.place[2] \in Nat
    BY <1>1, RowFacts DEF RowTyped
  <2> DEFINE U == { r.place[1] : r \in T }
  <2>2. PICK n \in U : \A m \in U : n <= m
    <3>1. U \in SUBSET Nat /\ U # {}
      BY <1>2, <2>1
    <3> HIDE DEF U
    <3> QED
      BY <3>1, LeastNumber
  <2>3. n \in Nat /\ \A r \in T : n <= r.place[1]
    BY <2>1, <2>2
  <2> DEFINE V == { r.place[2] : r \in { r \in T : r.place[1] = n } }
  <2>4. PICK k \in V : \A m \in V : k <= m
    <3>1. V \in SUBSET Nat /\ V # {}
      BY <2>1, <2>2
    <3> HIDE DEF V
    <3> QED
      BY <3>1, LeastNumber
  <2>5. PICK x \in T : x.place[1] = n /\ x.place[2] = k
    BY <2>4
  <2>6. ASSUME NEW y \in T PROVE ~PlaceBefore(y, x)
    <3>1. y.place[1] = n => k <= y.place[2]
      BY <2>4
    <3>2. y.place[1] \in Nat /\ y.place[2] \in Nat /\ n \in Nat /\ k \in Nat /\ n <= y.place[1]
      BY <2>1, <2>3, <2>5
    <3> HIDE DEF U, V
    <3> QED
      BY <2>5, <3>1, <3>2 DEF PlaceBefore
  <2>7. \A y \in T : <<y, x>> \notin R
    BY <2>6
  <2> QED
    BY <2>5, <2>7
<1>3. HasFirst(S, R)
  <2> HIDE DEF S, R
  <2> QED
    BY <1>2 DEF HasFirst
<1>4. PICK l \in SetToSeqs(S) : Follows(l, R)
  <2> HIDE DEF S, R
  <2> QED
    BY <1>1, <1>3, OrderExists
<1>5. ASSUME NEW i \in DOMAIN l, NEW j \in DOMAIN l, i < j PROVE ~PlaceBefore(l[j], l[i])
  <2>1. l[i] \in S /\ l[j] \in S
    BY <1>4 DEF SetToSeqs
  <2>2. <<l[j], l[i]>> \notin R
    BY <1>4, <1>5 DEF Follows
  <2> QED
    BY <2>1, <2>2
<1>6. l \in Ordered(S, PlaceBefore)
  BY <1>4, <1>5 DEF Ordered
<1> QED
  BY <1>1, <1>6

\* The newest snapshot of the properties is the one with rank 1.
LEMMA NewestIsLatest ==
  ASSUME TablesKeyed, NEW s
  PROVE  NewestOf(s) = { p \in db.snapshots : p.sale = s /\ IsLatest(p) }
<1>1. ASSUME NEW p \in db.snapshots, p.sale = s, IsLatest(p) PROVE p \in NewestOf(s)
  <2>1. ASSUME NEW q \in db.snapshots, q.sale = s, q # p PROVE q.at < p.at \/ (q.at = p.at /\ q.id < p.id)
    <3>1. q.id # p.id /\ q.id \in Nat /\ p.id \in Nat
      BY <2>1 DEF TablesKeyed, Keyed
    <3>2. q.at < p.at \/ (q.at = p.at /\ q.id <= p.id)
      BY <1>1, <2>1 DEF IsLatest
    <3> QED
      BY <3>1, <3>2
  <2> QED
    BY <1>1, <2>1 DEF NewestOf
<1>2. ASSUME NEW p \in NewestOf(s) PROVE p \in db.snapshots /\ p.sale = s /\ IsLatest(p)
  <2>1. ASSUME NEW q \in db.snapshots, q.sale = p.sale PROVE q.at < p.at \/ (q.at = p.at /\ q.id <= p.id)
    <3>1. CASE q = p
      <4>1. p.id \in Nat /\ p.id <= p.id
        BY <2>1, <3>1 DEF TablesKeyed, Keyed
      <4> QED
        BY <3>1, <4>1
    <3>2. CASE q # p
      <4>1. q.at < p.at \/ (q.at = p.at /\ q.id < p.id)
        BY <1>2, <2>1, <3>2 DEF NewestOf
      <4>2. q.id \in Nat /\ p.id \in Nat
        BY <1>2, <2>1 DEF NewestOf, TablesKeyed, Keyed
      <4> QED
        BY <4>1, <4>2
    <3> QED
      BY <3>1, <3>2
  <2> QED
    BY <1>2, <2>1 DEF NewestOf, IsLatest
<1> QED
  BY <1>1, <1>2

\* What the tables say of a sale with a newest snapshot is what is joined with that.
LEMMA ShownOf ==
  ASSUME TablesKeyed, NEW p \in db.snapshots, IsLatest(p)
  PROVE  /\ ShownTitle(p.sale) = { c.title : c \in ContentsOf(p) }
         /\ ShownVariants(p.sale) = { v.id : v \in StocksOf(p) }
<1>1. NewestOf(p.sale) = {p}
  <2>1. \A q \in NewestOf(p.sale) : q = p
    BY NewestIsLatest, OneLatest
  <2>2. p \in NewestOf(p.sale)
    BY NewestIsLatest
  <2> QED
    BY <2>1, <2>2
<1>2. ASSUME NEW c \in db.contents
      PROVE  IsCanonical(c) <=> ~\E d \in db.contents : d.snapshot = c.snapshot /\ d.id > c.id
  <2>1. \A d \in db.contents : d.id <= c.id <=> ~(d.id > c.id)
    BY DEF TablesKeyed, Keyed
  <2> QED
    BY <2>1 DEF IsCanonical
<1>3. { c \in db.contents : \E q \in NewestOf(p.sale) : c.snapshot = q.id /\
          ~\E d \in db.contents : d.snapshot = q.id /\ d.id > c.id } = ContentsOf(p)
  BY <1>1, <1>2 DEF ContentsOf
<1>4. { v \in db.stocks : \E q \in NewestOf(p.sale) : v.snapshot = q.id } = StocksOf(p)
  BY <1>1 DEF StocksOf
<1> QED
  BY <1>3, <1>4 DEF ShownTitle, ShownVariants

\* The rows of a sale are there exactly if it is shown, and have what it is shown with.
LEMMA MineIsShown ==
  ASSUME TablesKeyed, NEW s
  PROVE  /\ Mine(s) # {} <=> IsShown(s)
         /\ \A r \in Mine(s) : ShownTitle(s) = {r.title}
         /\ Mine(s) # {} => ShownVariants(s) = { r.variant : r \in Mine(s) }
<1>1. ASSUME NEW r \in Mine(s)
      PROVE  /\ ShownTitle(s) = {r.title}
             /\ ShownVariants(s) = { q.variant : q \in Mine(s) }
             /\ IsActive(s)
  <2>1. r \in Rows /\ r.sale = s
    BY DEF Mine
  <2>2. PICK p, c, v : Joins(p, c, v) /\ r = RowOf(p, c, v)
    BY <2>1, RowsAre
  <2>3. p.sale = s /\ r.title = c.title
    BY <2>1, <2>2 DEF RowOf
  <2>4. /\ ShownTitle(s) = { x.title : x \in ContentsOf(p) }
        /\ ShownVariants(s) = { x.id : x \in StocksOf(p) }
    BY <2>2, <2>3, ShownOf DEF Joins
  <2>5. ContentsOf(p) = {c}
    <3>1. c \in ContentsOf(p)
      BY <2>2 DEF Joins, ContentsOf
    <3>2. \A d \in ContentsOf(p) : d = c
      BY <2>2, OneCanonical DEF Joins, ContentsOf
    <3> QED
      BY <3>1, <3>2
  <2>6. ASSUME NEW x \in StocksOf(p) PROVE \E q \in Mine(s) : q.variant = x.id
    <3>1. Joins(p, c, x)
      BY <2>2, <2>6 DEF Joins, StocksOf
    <3>2. RowOf(p, c, x) \in Rows /\ RowOf(p, c, x).sale = s /\ RowOf(p, c, x).variant = x.id
      BY <2>3, <3>1, RowsAre DEF RowOf
    <3> QED
      BY <3>2 DEF Mine
  <2>7. ASSUME NEW q \in Mine(s) PROVE \E x \in StocksOf(p) : q.variant = x.id
    <3>1. q \in Rows /\ q.sale = s
      BY DEF Mine
    <3>2. PICK p2, c2, v2 : Joins(p2, c2, v2) /\ q = RowOf(p2, c2, v2)
      BY <3>1, RowsAre
    <3>3. p2.sale = s /\ q.variant = v2.id
      BY <3>1, <3>2 DEF RowOf
    <3>4. p2 = p
      BY <2>2, <2>3, <3>2, <3>3, RowsAgree
    <3>5. v2 \in StocksOf(p)
      BY <3>2, <3>4 DEF Joins, StocksOf
    <3> QED
      BY <3>3, <3>5
  <2>8. ShownVariants(s) = { q.variant : q \in Mine(s) }
    <3> DEFINE A == { x.id : x \in StocksOf(p) }
               B == { q.variant : q \in Mine(s) }
    <3>1. A \subseteq B
      BY <2>6
    <3>2. B \subseteq A
      BY <2>7
    <3> QED
      BY <2>4, <3>1, <3>2
  <2>9. ShownTitle(s) = {r.title}
    BY <2>3, <2>4, <2>5
  <2> QED
    BY <2>2, <2>3, <2>8, <2>9 DEF Joins
<1>2. ASSUME IsShown(s) PROVE Mine(s) # {}
  <2>1. PICK p \in NewestOf(s) : TRUE
    BY <1>2 DEF IsShown, ShownTitle
  <2>2. p \in db.snapshots /\ p.sale = s /\ IsLatest(p)
    BY <2>1, NewestIsLatest
  <2>3. ContentsOf(p) # {} /\ StocksOf(p) # {}
    BY <1>2, <2>2, ShownOf DEF IsShown
  <2>4. PICK c \in ContentsOf(p), v \in StocksOf(p) : TRUE
    BY <2>3
  <2>5. Joins(p, c, v)
    BY <1>2, <2>2, <2>4 DEF Joins, ContentsOf, StocksOf, IsShown
  <2>6. RowOf(p, c, v) \in Rows /\ RowOf(p, c, v).sale = s
    BY <2>2, <2>5, RowsAre DEF RowOf
  <2> QED
    BY <2>6 DEF Mine
<1>3. ASSUME NEW r \in Mine(s) PROVE IsShown(s)
  <2>1. r.variant \in ShownVariants(s) /\ r.title \in ShownTitle(s) /\ IsActive(s)
    BY <1>1, <1>3
  <2> QED
    BY <2>1 DEF IsShown
<1>4. Mine(s) # {} => ShownVariants(s) = { r.variant : r \in Mine(s) }
  BY <1>1
<1>5. \A r \in Mine(s) : ShownTitle(s) = {r.title}
  BY <1>1
<1> QED
  BY <1>2, <1>3, <1>4, <1>5

\* What the answers say of a product.
ProductTyped(p) ==
  /\ p.product_id \in Sale /\ p.created \in Nat /\ p.price \in Nat /\ p.title \in Title
  /\ IsShown(p.product_id) /\ ShownTitle(p.product_id) = {p.title}
  /\ IsInjective(p.variants) /\ Range(p.variants) = ShownVariants(p.product_id)

\* The mapper makes one product of the rows of a sale.
LEMMA ProductOf ==
  ASSUME TablesKeyed, NEW s, Mine(s) # {}
  PROVE  ProductTyped(Product(Mine(s))) /\ Product(Mine(s)).product_id = s
<1> DEFINE M == Mine(s)
           any == CHOOSE r \in M : TRUE
           list == CHOOSE l \in Ordered(M, PlaceBefore) : TRUE
           prices == { r.price : r \in M }
           low == Lowest(prices)
           variants == [i \in DOMAIN list |-> list[i].variant]
<1>1. Product(M) = [product_id |-> any.sale, title |-> any.title, created |-> any.created,
                    price |-> low, variants |-> variants]
  BY DEF Product
<1>2. any \in M
  OBVIOUS
<1>3. list \in Ordered(M, PlaceBefore)
  BY MineOrdered
<1>4. \A r \in M : r \in Rows /\ r.sale = s /\ RowTyped(r)
  BY RowFacts DEF Mine
<1>5. low \in Nat
  <2>1. prices \in SUBSET Nat /\ prices # {}
    BY <1>2, <1>4 DEF RowTyped
  <2> HIDE DEF prices
  <2>2. \E n \in prices : \A m \in prices : n <= m
    BY <2>1, LeastNumber
  <2> QED
    BY <2>1, <2>2 DEF Lowest
<1> HIDE DEF any, list, low, prices
<1>6. any \in Rows /\ any.sale = s /\ RowTyped(any) /\ ShownTitle(s) = {any.title}
  BY <1>2, <1>4, MineIsShown
<1>7. Lists(list, M)
  <2>1. list \in SetToSeqs(M) /\ IsFiniteSet(M)
    BY <1>3, MineOrdered DEF Ordered
  <2> QED
    BY <2>1, OrderParts
<1>8. IsInjective(variants)
  <2>1. ASSUME NEW i \in DOMAIN variants, NEW j \in DOMAIN variants, variants[i] = variants[j] PROVE i = j
    <3>1. i \in 1..Cardinality(M) /\ j \in 1..Cardinality(M)
      BY <1>7 DEF Lists
    <3>2. list[i].variant = list[j].variant
      BY <2>1
    <3>3. list[i] \in M /\ list[j] \in M
      BY <1>7, <3>1 DEF Lists
    <3>4. list[i] = list[j]
      BY <1>4, <3>2, <3>3, RowFacts
    <3> QED
      BY <1>7, <3>1, <3>4 DEF Lists
  <2> QED
    BY <2>1 DEF IsInjective
<1>9. Range(variants) = ShownVariants(s)
  <2>1. ShownVariants(s) = { r.variant : r \in M }
    BY MineIsShown
  <2>2. ASSUME NEW x \in Range(variants) PROVE x \in { r.variant : r \in M }
    <3>1. PICK i \in DOMAIN list : x = list[i].variant
      BY DEF Range
    <3>2. list[i] \in M
      BY <1>7, <3>1 DEF Lists
    <3> QED
      BY <3>1, <3>2
  <2>3. ASSUME NEW r \in M PROVE r.variant \in Range(variants)
    <3>1. PICK i \in 1..Cardinality(M) : list[i] = r
      BY <1>7 DEF Lists
    <3>2. i \in DOMAIN variants /\ variants[i] = r.variant
      BY <1>7, <3>1 DEF Lists
    <3> QED
      BY <3>2 DEF Range
  <2> QED
    BY <2>1, <2>2, <2>3
<1> HIDE DEF variants
<1>10. LET p == Product(M)
       IN  p.product_id = s /\ p.title = any.title /\ p.created = any.created /\ p.price = low /\ p.variants = variants
  BY <1>1, <1>6
<1>11. s \in Sale /\ any.created \in Nat /\ any.title \in Title
  BY <1>6 DEF RowTyped
<1>12. IsShown(s)
  BY MineIsShown
<1> HIDE DEF M
<1> QED
  BY <1>5, <1>6, <1>8, <1>9, <1>10, <1>11, <1>12 DEF ProductTyped, M

\* The products of a request are finitely many, each shown as the tables say, one for each sale that is to be shown.
LEMMA ProductsAre ==
  ASSUME TablesKeyed
  PROVE  /\ IsFiniteSet(Products)
         /\ \A p \in Products : ProductTyped(p)
         /\ \A p, q \in Products : p.product_id = q.product_id => p = q
         /\ \A s : IsShown(s) => \E p \in Products : p.product_id = s
<1> DEFINE sales == { r.sale : r \in Rows }
           f == [r \in Rows |-> Product(Mine(r.sale))]
<1>1. Products = { Product(Mine(s)) : s \in sales }
  BY DEF Products, Mine
<1>2. ASSUME NEW p \in Products PROVE Mine(p.product_id) # {} /\ p = Product(Mine(p.product_id))
  <2>1. PICK s \in sales : p = Product(Mine(s))
    BY <1>1
  <2>2. PICK r \in Rows : r.sale = s
    OBVIOUS
  <2>3. Mine(s) # {}
    BY <2>2 DEF Mine
  <2> QED
    BY <2>1, <2>3, ProductOf
<1>3. ASSUME NEW s, IsShown(s) PROVE \E p \in Products : p.product_id = s
  <2>1. PICK r \in Mine(s) : TRUE
    BY <1>3, MineIsShown
  <2>2. s \in sales
    BY <2>1 DEF Mine
  <2>3. Product(Mine(s)) \in Products
    BY <1>1, <2>2
  <2> QED
    BY <2>1, <2>3, ProductOf
<1>4. IsFiniteSet(Products)
  <2>1. ASSUME NEW p \in Products PROVE \E r \in Rows : f[r] = p
    BY <1>1, <2>1
  <2>2. \A r \in Rows : f[r] \in Products
    BY <1>1
  <2>3. f \in Surjection(Rows, Products)
    <3>1. f \in [Rows -> Products]
      BY <2>2
    <3> QED
      BY <2>1, <3>1 DEF Surjection
  <2> HIDE DEF f
  <2> QED
    BY <2>3, RowFacts, FS_Surjection
<1>5. \A p \in Products : ProductTyped(p)
  BY <1>2, ProductOf
<1>6. \A p, q \in Products : p.product_id = q.product_id => p = q
  BY <1>2
<1> QED
  BY <1>3, <1>4, <1>5, <1>6

-----------------------------------------------------------------------------
(* Pages put together. *)

\* F puts the first n of the sequences together.
Appends(F, seqs, n) == \A i \in 1..n : F[i] = IF i = 1 THEN seqs[i] ELSE F[i - 1] \o seqs[i]

\* The recursive function inside FlattenSeq exists.
LEMMA FlattenExists ==
  ASSUME NEW S, NEW T \in Nat, NEW seqs \in [1..T -> Seq(S)]
  PROVE  \E F \in [1..T -> Seq(S)] : Appends(F, seqs, T)
<1> DEFINE N == {n \in Nat : n <= T => \E F \in [1..T -> Seq(S)] : Appends(F, seqs, n)}
<1>1. 0 \in N
  <2>1. [i \in 1..T |-> <<>>] \in [1..T -> Seq(S)]
    BY EmptySeq
  <2>2. \A F : Appends(F, seqs, 0)
    BY DEF Appends
  <2> QED
    BY <2>1, <2>2
<1>2. ASSUME NEW n \in N PROVE n + 1 \in N
  <2>1. SUFFICES ASSUME n + 1 <= T PROVE \E F \in [1..T -> Seq(S)] : Appends(F, seqs, n + 1)
    OBVIOUS
  <2>2. n \in Nat /\ n <= T /\ n + 1 \in 1..T
    BY <2>1
  <2>3. PICK F \in [1..T -> Seq(S)] : Appends(F, seqs, n)
    BY <2>2
  <2> DEFINE next == IF n + 1 = 1 THEN seqs[n + 1] ELSE F[n + 1 - 1] \o seqs[n + 1]
             G == [F EXCEPT ![n + 1] = next]
  <2>4. next \in Seq(S)
    <3>1. seqs[n + 1] \in Seq(S)
      BY <2>2
    <3>2. CASE n + 1 = 1
      BY <3>1, <3>2
    <3>3. CASE n + 1 # 1
      <4>1. F[n + 1 - 1] \in Seq(S)
        BY <2>2, <3>3
      <4>2. F[n + 1 - 1] \o seqs[n + 1] \in Seq(S)
        BY <3>1, <4>1, ConcatProperties
      <4> QED
        BY <3>3, <4>2
    <3> QED
      BY <3>2, <3>3
  <2>5. G \in [1..T -> Seq(S)] /\ \A i \in 1..T : G[i] = IF i = n + 1 THEN next ELSE F[i]
    <3> HIDE DEF next
    <3> QED
      BY <2>2, <2>4
  <2> HIDE DEF G
  <2>6. ASSUME NEW i \in 1..(n + 1) PROVE G[i] = IF i = 1 THEN seqs[i] ELSE G[i - 1] \o seqs[i]
    <3>1. i \in 1..T /\ (i # 1 => i - 1 \in 1..T /\ i - 1 # n + 1)
      BY <2>2
    <3>2. i # 1 => G[i - 1] = F[i - 1]
      BY <2>5, <3>1
    <3>3. CASE i = n + 1
      <4>1. next = IF i = 1 THEN seqs[i] ELSE F[i - 1] \o seqs[i]
        BY <3>3
      <4> HIDE DEF next
      <4>2. G[i] = next
        BY <2>5, <3>1, <3>3
      <4> QED
        BY <3>2, <4>1, <4>2
    <3>4. CASE i # n + 1
      <4>1. i \in 1..n
        BY <2>2, <3>4
      <4>2. F[i] = IF i = 1 THEN seqs[i] ELSE F[i - 1] \o seqs[i]
        BY <2>3, <4>1 DEF Appends
      <4>3. G[i] = F[i]
        BY <2>5, <3>1, <3>4
      <4> QED
        BY <3>2, <4>2, <4>3
    <3> QED
      BY <3>3, <3>4
  <2>7. Appends(G, seqs, n + 1)
    BY <2>6 DEF Appends
  <2> QED
    BY <2>5, <2>7
<1>3. N = Nat
  <2> HIDE DEF N
  <2>1. N \in SUBSET Nat
    BY DEF N
  <2> QED
    BY <1>1, <1>2, <2>1, SetInduction
<1>4. T \in N /\ T <= T
  <2> HIDE DEF N
  <2> QED
    BY <1>3
<1> QED
  BY <1>4

\* Each of the sequences goes on where the one before it ended, the k-th in the list ls[k].
Continues(seqs, ls, up, T) ==
  /\ up[0] = 0
  /\ \A k \in 1..T : /\ up[k] = up[k - 1] + Len(seqs[k])
                    /\ \A i \in 1..Len(seqs[k]) : seqs[k][i] = ls[k][up[k - 1] + i]

\* all has, at each place, what one of the lists has there.
Collects(all, S, ls, up, T) ==
  all \in Seq(S) /\ Len(all) = up[T] /\ \A x \in 1..up[T] : \E k \in 1..T : all[x] = ls[k][x]

\* If each sequence goes on where the one before it ended, in a list of its own, then together
\* they have the elements of these lists, each at its place.
LEMMA Concatenated ==
  ASSUME NEW S, NEW T \in Nat, T >= 1, NEW seqs \in [1..T -> Seq(S)], NEW ls,
         NEW up \in [0..T -> Nat], Continues(seqs, ls, up, T)
  PROVE  Collects(FlattenSeq(seqs), S, ls, up, T)
<1> DEFINE Is(F) == F = [i \in 1..Len(seqs) |-> IF i = 1 THEN seqs[i] ELSE F[i - 1] \o seqs[i]]
           F == CHOOSE F : Is(F)
           Good(k) == /\ F[k] \in Seq(S) /\ Len(F[k]) = up[k]
                      /\ \A x \in 1..up[k] : \E j \in 1..T : F[k][x] = ls[j][x]
           N == {n \in Nat : n + 1 <= T => Good(n + 1)}
<1>0. /\ up[0] = 0
      /\ \A k \in 1..T : /\ up[k] = up[k - 1] + Len(seqs[k])
                        /\ \A i \in 1..Len(seqs[k]) : seqs[k][i] = ls[k][up[k - 1] + i]
  BY DEF Continues
<1>1. Len(seqs) = T /\ seqs \in Seq(Seq(S))
  OBVIOUS
<1>2. FlattenSeq(seqs) = F[T]
  BY <1>1 DEF FlattenSeq
<1>3. Is(F)
  <2>1. PICK G \in [1..T -> Seq(S)] : Appends(G, seqs, T)
    <3> HIDE DEF Is, F, Good, N
    <3> QED
      BY FlattenExists
  <2>2. G = [i \in 1..T |-> IF i = 1 THEN seqs[i] ELSE G[i - 1] \o seqs[i]]
    BY <2>1 DEF Appends
  <2>3. Is(G)
    BY <1>1, <2>2
  <2> HIDE DEF Is
  <2> QED
    BY <2>3
<1> HIDE DEF F
<1>4. F[1] = seqs[1] /\ \A i \in 1..T : i # 1 => F[i] = F[i - 1] \o seqs[i]
  <2>1. \A i \in 1..T : F[i] = IF i = 1 THEN seqs[i] ELSE F[i - 1] \o seqs[i]
    BY <1>1, <1>3, Zenon
  <2>2. 1 \in 1..T
    OBVIOUS
  <2> QED
    BY <2>1, <2>2, Zenon
<1>5. 0 \in N
  <2>1. Len(seqs[1]) = up[1] /\ up[0] = 0 /\ 1 \in 1..T /\ seqs[1] \in Seq(S)
    <3>1. 1 \in 1..T
      OBVIOUS
    <3>2. up[1] = up[1 - 1] + Len(seqs[1]) /\ 1 - 1 = 0 /\ seqs[1] \in Seq(S)
      BY <1>0, <3>1
    <3>3. Len(seqs[1]) \in Nat
      BY <3>2
    <3> QED
      BY <1>0, <3>1, <3>2, <3>3
  <2>2. ASSUME NEW x \in 1..up[1] PROVE F[1][x] = ls[1][x]
    <3>1. seqs[1][x] = ls[1][up[1 - 1] + x] /\ 1 - 1 = 0
      BY <1>0, <2>1
    <3> QED
      BY <1>4, <2>1, <3>1
  <2>3. Good(1)
    BY <1>4, <2>1, <2>2
  <2> HIDE DEF Good
  <2> QED
    BY <2>3
<1>6. ASSUME NEW n \in N PROVE n + 1 \in N
  <2>1. SUFFICES ASSUME n + 2 <= T PROVE Good(n + 2)
    <3>1. n + 1 + 1 = n + 2 /\ n + 1 \in Nat
      OBVIOUS
    <3> HIDE DEF Good
    <3> QED
      BY <3>1
  <2> DEFINE k == n + 2
  <2>2. k \in 1..T /\ k # 1 /\ k - 1 = n + 1 /\ k - 1 \in 1..T /\ k - 1 \in 0..T
    BY <2>1
  <2>3. Good(k - 1)
    <3>1. Good(n + 1)
      BY <2>1
    <3> HIDE DEF Good
    <3> QED
      BY <2>2, <3>1
  <2> HIDE DEF k
  <2> DEFINE a == F[k - 1]
             b == seqs[k]
  <2>4. F[k] = a \o b /\ a \in Seq(S) /\ b \in Seq(S) /\ Len(a) = up[k - 1]
    BY <1>4, <2>2, <2>3
  <2>5. Len(a) \in Nat /\ Len(b) \in Nat /\ up[k] = Len(a) + Len(b)
    <3>1. up[k] = up[k - 1] + Len(b)
      BY <1>0, <2>2
    <3>2. a \in Seq(S) /\ b \in Seq(S) /\ Len(a) = up[k - 1]
      BY <2>4
    <3> HIDE DEF a, b
    <3>3. Len(a) \in Nat /\ Len(b) \in Nat
      BY <3>2
    <3> QED
      BY <3>1, <3>2, <3>3
  <2>6. \A x \in 1..Len(a) : \E j \in 1..T : a[x] = ls[j][x]
    BY <2>3, <2>4
  <2>7. \A i \in 1..Len(b) : b[i] = ls[k][Len(a) + i]
    BY <1>0, <2>2, <2>4
  <2> HIDE DEF a, b
  <2>8. /\ F[k] \in Seq(S) /\ Len(F[k]) = up[k]
        /\ \A x \in 1..up[k] : F[k][x] = IF x <= Len(a) THEN a[x] ELSE b[x - Len(a)]
    <3>0. a \in Seq(S) /\ b \in Seq(S)
      BY <2>4
    <3>1. /\ a \o b \in Seq(S) /\ Len(a \o b) = Len(a) + Len(b)
          /\ \A x \in 1..(Len(a) + Len(b)) : (a \o b)[x] = IF x <= Len(a) THEN a[x] ELSE b[x - Len(a)]
      BY <3>0, ConcatProperties
    <3> QED
      BY <2>4, <2>5, <3>1, Zenon
  <2>9. ASSUME NEW x \in 1..up[k] PROVE \E j \in 1..T : F[k][x] = ls[j][x]
    <3>1. CASE x <= Len(a)
      BY <2>5, <2>6, <2>8, <3>1
    <3>2. CASE ~(x <= Len(a))
      <4>1. x - Len(a) \in 1..Len(b) /\ Len(a) + (x - Len(a)) = x
        BY <2>5, <3>2
      <4>2. F[k][x] = b[x - Len(a)]
        BY <2>8, <3>2
      <4>3. b[x - Len(a)] = ls[k][x]
        BY <2>7, <4>1
      <4> QED
        BY <2>2, <4>2, <4>3
    <3> QED
      BY <3>1, <3>2
  <2>10. Good(k)
    BY <2>8, <2>9
  <2> HIDE DEF Good
  <2> QED
    BY <2>10 DEF k
<1>7. N = Nat
  <2> HIDE DEF N
  <2>1. N \in SUBSET Nat
    BY DEF N
  <2> QED
    BY <1>5, <1>6, <2>1, SetInduction
<1>8. Good(T)
  <2>1. T - 1 \in N /\ T - 1 + 1 = T /\ T <= T
    <3>1. T - 1 \in Nat /\ T - 1 + 1 = T /\ T <= T
      OBVIOUS
    <3> HIDE DEF N
    <3> QED
      BY <1>7, <3>1
  <2> HIDE DEF Good
  <2>2. Good(T - 1 + 1)
    BY <2>1
  <2> QED
    BY <2>1, <2>2
<1> QED
  BY <1>2, <1>8 DEF Collects

\* How much of a list of length n the pages up to x have.
AtMost(x, n) == IF x < n THEN x ELSE n

\* A page goes on where the one before it ended.
LEMMA PageIs ==
  ASSUME NEW S, NEW list \in Seq(S), NEW a \in Nat, NEW limit \in Nat, limit >= 1
  PROVE  LET page == Slice(list, a + 1, a + limit)
             n == Len(list)
         IN  /\ page \in Seq(S)
             /\ AtMost(a + limit, n) = AtMost(a, n) + Len(page)
             /\ \A i \in 1..Len(page) : page[i] = list[AtMost(a, n) + i]
<1> DEFINE n == Len(list)
           m == AtMost(a + limit, n)
           page == SubSeq(list, a + 1, m)
<1>1. n \in Nat /\ m \in Nat /\ m <= n /\ Slice(list, a + 1, a + limit) = page
  BY DEF Slice, AtMost
<1>2. \A i \in (a + 1)..m : list[i] \in S
  BY <1>1
<1>3. page \in Seq(S) /\ Len(page) = IF a + 1 <= m THEN m - a ELSE 0
  BY <1>1, <1>2, SubSeqProperties
<1>4. \A i \in 1..Len(page) : page[i] = list[a + i]
  BY <1>1, <1>3
<1> HIDE DEF page
<1>5. m = AtMost(a, n) + Len(page) /\ \A i \in 1..Len(page) : AtMost(a, n) + i = a + i
  <2>1. CASE a < n
    BY <1>1, <1>3, <2>1 DEF AtMost
  <2>2. CASE ~(a < n)
    BY <1>1, <1>3, <2>2 DEF AtMost
  <2> QED
    BY <2>1, <2>2
<1>6. \A i \in 1..Len(page) : page[i] = list[AtMost(a, n) + i]
  BY <1>4, <1>5
<1> QED
  BY <1>1, <1>3, <1>5, <1>6

\* There are enough pages for everything, and at least one.
LEMMA PagesSuffice ==
  ASSUME NEW a, Limit(a) \in Nat, Limit(a) >= 1, NEW n \in Nat
  PROVE  TotalPages(n, a) \in Nat /\ TotalPages(n, a) >= 1 /\ n <= TotalPages(n, a) * Limit(a)
<1> DEFINE l == Limit(a)
           q == (n + l - 1) \div l
<1>1. l \in Nat /\ l >= 1
  OBVIOUS
<1> HIDE DEF l
<1>2. q \in Nat
  BY <1>1
<1>3. n <= q * l
  <2>1. n + l - 1 = q * l + ((n + l - 1) % l) /\ (n + l - 1) % l \in 0..(l - 1)
    BY <1>1
  <2>2. q * l \in Nat
    BY <1>1, <1>2
  <2> HIDE DEF q
  <2> QED
    BY <1>1, <2>1, <2>2
<1> HIDE DEF q
<1>4. TotalPages(n, a) = IF q = 0 THEN 1 ELSE q
  BY DEF TotalPages, q, l
<1>5. CASE q = 0
  <2>1. q * l = 0 /\ 1 * l = l
    BY <1>1, <1>5
  <2> QED
    BY <1>1, <1>3, <1>4, <1>5, <2>1 DEF l
<1>6. CASE q # 0
  BY <1>2, <1>3, <1>4, <1>6 DEF l
<1> QED
  BY <1>5, <1>6

-----------------------------------------------------------------------------
(* Requests and their answers. *)

\* A listing that is not refused.
Paged(a) == /\ IsPage(a)
            /\ a.kind = "list" => IsSort(a)
            /\ a.kind = "search" => IsTerm(a)

\* What a listing lists, and the orders its answers may have.
Found(a) == IF a.kind = "list" THEN Products ELSE Matching(a.term[1])
Orders(a) == IF a.kind = "list" THEN CatalogOrders(SortOf(a)) ELSE SearchOrders(a.term[1])

\* The answer to the request for page k of it.
PageOf(list, a, k) ==
  [status |-> 200,
   items |-> Slice(list, (k - 1) * Limit(a) + 1, (k - 1) * Limit(a) + Limit(a)),
   totalPages |-> TotalPages(Len(list), a)]

\* The answers to a request for recommendations.
Recommends(a, answer) ==
  \/ ~IsRecommended(a) /\ answer = Failed(400)
  \/ /\ IsRecommended(a) /\ \A p \in Products : p.product_id # a.product
     /\ answer = Failed(404)
  \/ /\ IsRecommended(a) /\ \E p \in Products : p.product_id = a.product
     /\ \E list \in OtherOrders(a.product) : answer = Ok(Slice(list, 1, Recommended(a)))

Requests ==
  [kind : {"list"}, sort : Raw(Sort), page : Raw(Int), limit : Raw(Number)]
  \cup [kind : {"search"}, term : Raw(Term), page : Raw(Int), limit : Raw(Number)]
  \cup [kind : {"recommend"}, product : Sale, limit : Raw(Number)]
  \cup [kind : {"detail"}, product : Sale]

Answers ==
  [status : {200, 400, 404}, items : Seq(Products)]
  \cup [status : {200}, items : Seq(Products), totalPages : Nat]

PagesFollow ==
  ask.kind \in {"list", "search"} =>
    /\ Paged(ask) =>
         /\ Page(ask) = Len(pages) + (IF busy THEN 1 ELSE 0)
         /\ \A k \in 1..Len(pages) : \E list \in Orders(ask) : pages[k] = PageOf(list, ask, k)
    /\ ~Paged(ask) => \A k \in 1..Len(pages) : pages[k] = Failed(400)

\* The inductive invariant: the pages answered are those from the first to the one before the
\* request or, once it has been answered, to the requested one, each cut out of an order that
\* the comparison of the listing allows.
CatInv ==
  /\ db \in Catalogues
  /\ ask \in {None} \cup Requests
  /\ busy \in BOOLEAN
  /\ pages \in Seq(Answers)
  /\ ask = None => pages = <<>> /\ ~busy
  /\ ask # None /\ ~busy => pages # <<>>
  /\ PagesFollow
  /\ ask.kind = "recommend" => \A k \in 1..Len(pages) : Recommends(ask, pages[k])

\* A request for recommendations or for a product has no page, the others have.
LEMMA RequestIs ==
  ASSUME NEW a \in Requests
  PROVE  /\ a.kind \in {"list", "search", "recommend", "detail"} /\ a # None
         /\ a.kind \in {"list", "search"} => a.page \in Raw(Int) /\ a.limit \in Raw(Number)
         /\ a.kind = "recommend" => a.limit \in Raw(Number) /\ a.product \in Sale
         /\ a.kind = "list" => a \in [kind : {"list"}, sort : Raw(Sort), page : Raw(Int), limit : Raw(Number)]
         /\ a.kind = "search" => a \in [kind : {"search"}, term : Raw(Term), page : Raw(Int), limit : Raw(Number)]
<1>1. None.kind = "none"
  BY DEF None
<1>2. a.kind \in {"list", "search", "recommend", "detail"}
  BY DEF Requests
<1> QED
  BY <1>1, <1>2 DEF Requests

\* The orders of a listing have each of its products once.
LEMMA OrdersList ==
  ASSUME TablesKeyed, NEW a
  PROVE  /\ IsFiniteSet(Found(a)) /\ Found(a) \subseteq Products
         /\ \A list \in Orders(a) : list \in SetToSeqs(Found(a)) /\ Lists(list, Found(a))
<1>1. Found(a) \subseteq Products
  BY DEF Found, Matching
<1>2. IsFiniteSet(Found(a))
  BY <1>1, ProductsAre, FS_Subset
<1>3. \A list \in Orders(a) : list \in SetToSeqs(Found(a))
  BY DEF Orders, Found, CatalogOrders, SearchOrders, Ordered
<1> QED
  BY <1>1, <1>2, <1>3, OrderParts

\* The same for the orders of recommendations, of which there is one.
LEMMA OtherOrdersList ==
  ASSUME TablesKeyed, NEW s
  PROVE  LET S == { p \in Products : p.product_id # s }
         IN  /\ \A list \in OtherOrders(s) : Lists(list, S)
             /\ \A x, y \in OtherOrders(s) : x = y
<1> DEFINE S == { p \in Products : p.product_id # s }
           R == { x \in S \X S : RecommendedBefore(x[1], x[2]) }
<1>1. S \subseteq Products
  OBVIOUS
<1>2. IsFiniteSet(S)
  BY <1>1, ProductsAre, FS_Subset
<1>3. ASSUME NEW x \in S, NEW y \in S PROVE x = y \/ RecommendedBefore(x, y) \/ RecommendedBefore(y, x)
  <2>1. ProductTyped(x) /\ ProductTyped(y) /\ (x.product_id = y.product_id => x = y)
    BY <1>1, ProductsAre
  <2>2. x.product_id \in Nat /\ y.product_id \in Nat /\ x.created \in Nat /\ y.created \in Nat
    BY <2>1, NumbersAssumption DEF ProductTyped
  <2> QED
    BY <2>1, <2>2 DEF RecommendedBefore, ByNewest
<1>4. \A x, y \in S : x = y \/ <<x, y>> \in R \/ <<y, x>> \in R
  BY <1>3
<1>5. ASSUME NEW list \in OtherOrders(s) PROVE list \in SetToSeqs(S) /\ Follows(list, R)
  <2>1. /\ list \in SetToSeqs(S)
        /\ \A i, j \in DOMAIN list : i < j => ~RecommendedBefore(list[j], list[i])
    BY <1>5 DEF OtherOrders, Ordered
  <2> QED
    BY <2>1 DEF Follows
<1> HIDE DEF S, R
<1>6. \A list \in OtherOrders(s) : Lists(list, S)
  BY <1>2, <1>5, OrderParts
<1>7. \A x, y \in OtherOrders(s) : x = y
  BY <1>2, <1>4, <1>5, OneOrder
<1> QED
  BY <1>6, <1>7 DEF S

\* The pages of a listing are answers.
LEMMA PageTyped ==
  ASSUME TablesKeyed, NEW a, Limit(a) \in Nat, Limit(a) >= 1, NEW k \in Nat, k >= 1, NEW list \in Orders(a)
  PROVE  /\ PageOf(list, a, k) \in Answers
         /\ PageOf(list, a, k).items \in Seq(Found(a))
<1> DEFINE at == (k - 1) * Limit(a)
           items == Slice(list, at + 1, at + Limit(a))
           total == TotalPages(Len(list), a)
<1>1. Found(a) \subseteq Products /\ list \in Seq(Found(a)) /\ Len(list) \in Nat
  BY OrdersList DEF Lists
<1>2. at \in Nat
  OBVIOUS
<1> HIDE DEF at
<1>3. items \in Seq(Found(a))
  BY <1>1, <1>2, PageIs
<1>4. total \in Nat
  BY <1>1, PagesSuffice
<1>5. PageOf(list, a, k) = [status |-> 200, items |-> items, totalPages |-> total]
  BY DEF PageOf, at
<1> HIDE DEF items, total
<1>6. items \in Seq(Products)
  BY <1>1, <1>3
<1> QED
  BY <1>3, <1>4, <1>5, <1>6 DEF Answers

\* What goes for recommendations and single products are answers, too.
LEMMA OthersTyped ==
  ASSUME TablesKeyed, NEW a
  PROVE  /\ \A n \in {400, 404} : Failed(n) \in Answers
         /\ \A answer : Recommends(a, answer) =>
              /\ answer \in Answers
              /\ answer.items \in Seq({ p \in Products : p.product_id # a.product })
         /\ LET found == { p \in Products : p.product_id = a.product }
            IN  found # {} => Ok(SetToSeq(found)) \in Answers
<1> DEFINE S == { p \in Products : p.product_id # a.product }
           found == { p \in Products : p.product_id = a.product }
<1>1. \A T, items : T \subseteq Products /\ items \in Seq(T) => items \in Seq(Products) /\ Ok(items) \in Answers
  <2>1. SUFFICES ASSUME NEW T, NEW items, T \subseteq Products, items \in Seq(T)
                 PROVE  items \in Seq(Products) /\ Ok(items) \in Answers
    OBVIOUS
  <2>2. items \in Seq(Products)
    BY <2>1
  <2> QED
    BY <2>2 DEF Ok, Answers
<1>2. <<>> \in Seq(Products) /\ <<>> \in Seq(S)
  BY EmptySeq
<1>3. \A n \in {400, 404} : Failed(n) \in Answers /\ Failed(n).items = <<>>
  BY <1>2 DEF Failed, Answers
<1>4. ASSUME NEW answer, Recommends(a, answer) PROVE answer \in Answers /\ answer.items \in Seq(S)
  <2>1. CASE answer \in {Failed(400), Failed(404)}
    <3>1. answer \in Answers /\ answer.items = <<>>
      BY <1>3, <2>1
    <3> HIDE DEF S
    <3> QED
      BY <1>2, <3>1
  <2>2. ASSUME IsRecommended(a), NEW list \in OtherOrders(a.product), answer = Ok(Slice(list, 1, Recommended(a)))
        PROVE  answer \in Answers /\ answer.items \in Seq(S)
    <3> DEFINE n == Recommended(a)
    <3>1. n \in Nat /\ n >= 1
      BY <2>2 DEF IsRecommended
    <3> HIDE DEF n
    <3>2. list \in Seq(S)
      BY OtherOrdersList DEF Lists
    <3>3. Slice(list, 0 + 1, 0 + n) \in Seq(S)
      BY <3>1, <3>2, PageIs
    <3>4. 0 + 1 = 1 /\ 0 + n = n
      BY <3>1
    <3>5. answer = Ok(Slice(list, 0 + 1, 0 + n))
      BY <2>2, <3>4 DEF n
    <3>6. answer.items = Slice(list, 0 + 1, 0 + n)
      BY <3>5 DEF Ok
    <3>7. S \subseteq Products
      OBVIOUS
    <3> HIDE DEF S
    <3> QED
      BY <1>1, <3>3, <3>5, <3>6, <3>7
  <2> QED
    BY <1>4, <2>1, <2>2 DEF Recommends
<1>5. ASSUME found # {} PROVE Ok(SetToSeq(found)) \in Answers
  <2>1. PICK p \in found : TRUE
    BY <1>5
  <2>2. found = {p}
    BY <2>1, ProductsAre
  <2>3. Cardinality({p}) = 1
    BY FS_Singleton
  <2>4. IsInjective([i \in 1..1 |-> p])
    BY DEF IsInjective
  <2>5. SetToSeq({p}) \in [1..1 -> {p}]
    BY <2>3, <2>4 DEF SetToSeq
  <2>6. SetToSeq({p}) \in Seq({p}) /\ {p} \subseteq Products
    <3> DEFINE q == SetToSeq({p})
    <3>1. q \in [1..1 -> {p}] /\ p \in Products
      BY <2>1, <2>5
    <3> HIDE DEF q, found
    <3>2. q \in Seq({p})
      <4>1. 1 \in Nat /\ q \in [1..1 -> {p}]
        BY <3>1
      <4> QED
        BY <4>1, SeqDef, Zenon
    <3> QED
      BY <3>1, <3>2 DEF q
  <2> HIDE DEF found
  <2> QED
    BY <1>1, <2>2, <2>6
<1> QED
  BY <1>3, <1>4, <1>5

-----------------------------------------------------------------------------
(* The invariant is inductive. *)

\* Before the first request.
LEMMA InitCat == Init => CatInv
<1> SUFFICES ASSUME Init PROVE CatInv
  OBVIOUS
<1>1. ask.kind = "none" /\ pages \in Seq(Answers) /\ Len(pages) = 0
  BY EmptySeq DEF Init, None
<1> QED
  BY <1>1 DEF Init, CatInv, PagesFollow

\* An answer is the next page.
LEMMA AnswerKeeps ==
  ASSUME CatInv, busy, NEW answer \in Answers, Answer(answer),
         ask.kind \in {"list", "search"} =>
           IF Paged(ask) THEN \E list \in Orders(ask) : answer = PageOf(list, ask, Page(ask)) ELSE answer = Failed(400),
         ask.kind = "recommend" => Recommends(ask, answer)
  PROVE  CatInv'
<1>1. pages' = Append(pages, answer) /\ busy' = FALSE /\ db' = db /\ ask' = ask /\ pages \in Seq(Answers)
  BY DEF Answer, CatInv
<1>2. /\ pages' \in Seq(Answers) /\ Len(pages') = Len(pages) + 1 /\ Len(pages) \in Nat
      /\ \A k \in 1..Len(pages) : pages'[k] = pages[k]
      /\ pages'[Len(pages) + 1] = answer
  BY <1>1, AppendProperties
<1>3. pages' # <<>>
  BY <1>2
<1>4. (\A k \in 1..Len(pages') : k \in 1..Len(pages) \/ k = Len(pages) + 1)
  BY <1>2
<1>5. PagesFollow'
  <2>1. SUFFICES ASSUME ask.kind \in {"list", "search"}
        PROVE  /\ Paged(ask) =>
                    /\ Page(ask) = Len(pages')
                    /\ \A k \in 1..Len(pages') : \E list \in Orders(ask) : pages'[k] = PageOf(list, ask, k)
               /\ ~Paged(ask) => \A k \in 1..Len(pages') : pages'[k] = Failed(400)
    <3>1. Orders(ask)' = Orders(ask)
      BY <1>1 DEF Orders, CatalogOrders, SearchOrders, Ordered, Matching, Products, Rows, Joined, ContentsOf,
         StocksOf, IsActive, IsLatest, IsCanonical
    <3>2. Paged(ask)' = Paged(ask) /\ Page(ask)' = Page(ask)
      BY <1>1 DEF Paged, IsPage, IsSort, IsTerm, Page, Limit, SortOf
    <3>3. \A list, k : PageOf(list, ask, k)' = PageOf(list, ask, k)
      BY <1>1 DEF PageOf, Limit, TotalPages
    <3> QED
      BY <1>1, <1>2, <3>1, <3>2, <3>3 DEF PagesFollow
  <2>2. ASSUME Paged(ask), NEW k \in 1..Len(pages')
        PROVE  \E list \in Orders(ask) : pages'[k] = PageOf(list, ask, k)
    <3>1. CASE k \in 1..Len(pages)
      BY <1>2, <2>1, <2>2, <3>1 DEF CatInv, PagesFollow
    <3>2. CASE k = Len(pages) + 1
      <4>1. Page(ask) = k
        BY <2>1, <2>2, <3>2 DEF CatInv, PagesFollow
      <4> QED
        BY <1>2, <2>1, <2>2, <3>2, <4>1
    <3> QED
      BY <1>4, <3>1, <3>2
  <2>3. Paged(ask) => Page(ask) = Len(pages')
    BY <1>2, <2>1 DEF CatInv, PagesFollow
  <2>4. ASSUME ~Paged(ask), NEW k \in 1..Len(pages') PROVE pages'[k] = Failed(400)
    <3>1. CASE k \in 1..Len(pages)
      BY <1>2, <2>1, <2>4, <3>1 DEF CatInv, PagesFollow
    <3>2. CASE k = Len(pages) + 1
      BY <1>2, <2>1, <2>4, <3>2
    <3> QED
      BY <1>4, <3>1, <3>2
  <2> QED
    BY <2>2, <2>3, <2>4
<1>6. ASSUME ask.kind = "recommend", NEW k \in 1..Len(pages') PROVE Recommends(ask, pages'[k])
  <2>1. CASE k \in 1..Len(pages)
    BY <1>2, <1>6, <2>1 DEF CatInv
  <2>2. CASE k = Len(pages) + 1
    BY <1>2, <1>6, <2>2
  <2> QED
    BY <1>4, <2>1, <2>2
<1>7. Answers' = Answers /\ \A answer2 : Recommends(ask, answer2)' = Recommends(ask, answer2)
  BY <1>1 DEF Answers, Recommends, IsRecommended, Recommended, OtherOrders, Ordered, Products, Rows, Joined,
     ContentsOf, StocksOf, IsActive, IsLatest, IsCanonical
<1> QED
  BY <1>1, <1>2, <1>3, <1>5, <1>6, <1>7 DEF CatInv

\* While the catalogue stays, so does what it is answered with.
LEMMA SameAnswers ==
  ASSUME db' = db
  PROVE  Products' = Products /\ Answers' = Answers
<1>1. Products' = Products
  BY DEF Products, Rows, Joined, ContentsOf, StocksOf, IsActive, IsLatest, IsCanonical
<1> QED
  BY <1>1 DEF Answers

\* The first request is for the first page, or refused.
LEMMA OpenKeeps == ASSUME CatInv, Open PROVE CatInv'
<1>1. /\ ask = None /\ pages = <<>> /\ pages' = pages /\ db' = db /\ busy' = TRUE
      /\ ask' \in Listing /\ pages \in Seq(Answers)
  BY DEF CatInv, Open
<1>2. ask' \in Requests /\ ask' # None
  <2>1. Raw({0}) \subseteq Raw(Int)
    BY DEF Raw
  <2>2. ask' \in Requests
    BY <1>1, <2>1 DEF Listing, Requests
  <2> QED
    BY <2>2, RequestIs
<1>3. PagesFollow'
  <2>1. SUFFICES ASSUME ask'.kind \in {"list", "search"}, Paged(ask)' PROVE Page(ask)' = 1
    <3>1. Len(pages') = 0
      BY <1>1
    <3> QED
      BY <1>1, <3>1 DEF PagesFollow
  <2>2. ask'.page \in Raw({0})
    BY <1>1, <2>1 DEF Listing
  <2>3. Page(ask)' >= 1 /\ Page(ask)' = Value(ask'.page, 1)
    BY <2>1 DEF Paged, IsPage, Page
  <2> QED
    BY <2>2, <2>3 DEF Raw, Value, Missing, Given
<1>4. \A k \in 1..Len(pages') : Recommends(ask, pages[k])'
  BY <1>1
<1> QED
  BY <1>1, <1>2, <1>3, <1>4, SameAnswers DEF CatInv

\* The request for another page follows those that were answered.
LEMMA AskNextKeeps == ASSUME CatInv, AskNext PROVE CatInv'
<1>1. /\ pages' = pages /\ db' = db /\ busy = FALSE /\ busy' = TRUE /\ pages # <<>> /\ pages \in Seq(Answers)
      /\ pages[Len(pages)].status = 200 /\ ask \in Requests
  BY DEF CatInv, AskNext, Last
<1>2. Len(pages) \in Nat /\ Len(pages) \in 1..Len(pages)
  BY <1>1
<1>3. ASSUME ask.kind \in {"list", "search"}, ask' = [ask EXCEPT !.page = Given(Page(ask) + 1)]
      PROVE  CatInv'
  <2>1. Paged(ask)
    <3>1. Failed(400).status # 200
      BY DEF Failed
    <3> QED
      BY <1>1, <1>2, <1>3, <3>1 DEF CatInv, PagesFollow
  <2>2. Page(ask) = Len(pages) /\ \A k \in 1..Len(pages) : \E list \in Orders(ask) : pages[k] = PageOf(list, ask, k)
    BY <1>1, <1>2, <1>3, <2>1 DEF CatInv, PagesFollow
  <2> DEFINE n == Page(ask) + 1
  <2>3. n \in Nat /\ n = Len(pages) + 1 /\ Given(n) \in Raw(Int)
    BY <1>2, <2>2 DEF Raw
  <2> HIDE DEF n
  <2>4. ask' = [ask EXCEPT !.page = Given(n)]
    BY <1>3 DEF n
  <2>5. /\ ask' \in Requests /\ ask'.kind = ask.kind
        /\ ask'.page = Given(n) /\ ask'.limit = ask.limit
        /\ ask.kind = "list" => ask'.sort = ask.sort
        /\ ask.kind = "search" => ask'.term = ask.term
    <3>1. CASE ask.kind = "list"
      <4>1. ask \in [kind : {"list"}, sort : Raw(Sort), page : Raw(Int), limit : Raw(Number)]
        BY <1>1, <3>1, RequestIs
      <4> QED
        BY <2>3, <2>4, <3>1, <4>1 DEF Requests
    <3>2. CASE ask.kind = "search"
      <4>1. ask \in [kind : {"search"}, term : Raw(Term), page : Raw(Int), limit : Raw(Number)]
        BY <1>1, <3>2, RequestIs
      <4> QED
        BY <2>3, <2>4, <3>2, <4>1 DEF Requests
    <3> QED
      BY <1>3, <3>1, <3>2
  <2>6. Page(ask)' = n
    BY <2>5 DEF Page, Value, Given, Missing
  <2>7. Limit(ask)' = Limit(ask)
    BY <2>5 DEF Limit, Value
  <2>8. Paged(ask)'
    <3>1. n >= 1
      BY <1>2, <2>3
    <3>2. IsPage(ask)'
      BY <2>1, <2>6, <2>7, <3>1 DEF Paged, IsPage
    <3> QED
      BY <2>1, <2>5, <3>2 DEF Paged, IsSort, SortOf, IsTerm
  <2>9. Orders(ask)' = Orders(ask)
    <3>1. Products' = Products
      BY <1>1, SameAnswers
    <3> QED
      BY <1>3, <2>5, <3>1 DEF Orders, CatalogOrders, SearchOrders, Ordered, Matching, SortOf
  <2>10. \A list, k : PageOf(list, ask, k)' = PageOf(list, ask, k)
    BY <2>7 DEF PageOf, TotalPages
  <2>11. PagesFollow'
    BY <1>1, <2>2, <2>3, <2>6, <2>8, <2>9, <2>10 DEF PagesFollow
  <2> QED
    BY <1>1, <1>3, <2>5, <2>11, RequestIs, SameAnswers DEF CatInv
<1>4. ASSUME ask.kind = "recommend", ask' = ask PROVE CatInv'
  <2>1. \A k \in 1..Len(pages) : Recommends(ask, pages[k])
    BY <1>4 DEF CatInv
  <2>2. \A answer : Recommends(ask, answer)' = Recommends(ask, answer)
    <3>1. Products' = Products
      BY <1>1, SameAnswers
    <3> QED
      BY <1>4, <3>1 DEF Recommends, IsRecommended, Recommended, OtherOrders, Ordered
  <2>3. PagesFollow'
    BY <1>4 DEF PagesFollow
  <2> QED
    BY <1>1, <1>4, <2>1, <2>2, <2>3, RequestIs, SameAnswers DEF CatInv
<1> QED
  BY <1>3, <1>4 DEF AskNext

\* Every request and every answer keeps it.
LEMMA NextCat == CatInv /\ [Next]_vars => CatInv'
<1> SUFFICES ASSUME CatInv, [Next]_vars PROVE CatInv'
  OBVIOUS
<1>0. TablesKeyed /\ (ask # None => ask \in Requests)
  BY CatalogueKeyed DEF CatInv
<1>1. CASE UNCHANGED vars
  <2>1. db' = db /\ ask' = ask /\ busy' = busy /\ pages' = pages
    BY <1>1 DEF vars
  <2>2. Products' = Products /\ Answers' = Answers
    BY <2>1, SameAnswers
  <2>3. \A answer : Recommends(ask, answer)' = Recommends(ask, answer)
    BY <2>1, <2>2 DEF Recommends, IsRecommended, Recommended, OtherOrders, Ordered
  <2>4. Orders(ask)' = Orders(ask)
    BY <2>1, <2>2 DEF Orders, CatalogOrders, SearchOrders, Ordered, Matching, SortOf
  <2>5. Paged(ask)' = Paged(ask) /\ Page(ask)' = Page(ask)
    BY <2>1 DEF Paged, IsPage, IsSort, IsTerm, Page, Limit, SortOf
  <2>6. \A list, k : PageOf(list, ask, k)' = PageOf(list, ask, k)
    BY <2>1 DEF PageOf, Limit, TotalPages
  <2>7. PagesFollow'
    BY <2>1, <2>4, <2>5, <2>6 DEF CatInv, PagesFollow
  <2> QED
    BY <2>1, <2>2, <2>3, <2>7 DEF CatInv
<1>2. CASE Open
  BY <1>2, OpenKeeps
<1>3. CASE AskNext
  BY <1>3, AskNextKeeps
<1>4. ASSUME ask.kind \in {"list", "search"}, busy,
             IF Paged(ask) THEN AnswerPage(Orders(ask)) ELSE Answer(Failed(400))
      PROVE  CatInv'
  <2>1. CASE ~Paged(ask)
    <3>1. Failed(400) \in Answers
      BY <1>0, OthersTyped
    <3> QED
      BY <1>4, <2>1, <3>1, AnswerKeeps
  <2>2. CASE Paged(ask)
    <3>1. PICK list \in Orders(ask) : Answer(Paginate(list, ask))
      BY <1>4, <2>2 DEF AnswerPage
    <3>2. Paginate(list, ask) = PageOf(list, ask, Page(ask))
      BY DEF Paginate, PageOf, Offset
    <3>3. Page(ask) \in Nat /\ Page(ask) >= 1 /\ Limit(ask) \in Nat /\ Limit(ask) >= 1
      <4>1. Page(ask) = Len(pages) + 1 /\ Len(pages) \in Nat
        BY <1>4, <2>2 DEF CatInv, PagesFollow
      <4>2. Limit(ask) \in 1..MaxLimit
        BY <2>2 DEF Paged, IsPage
      <4> QED
        BY <4>1, <4>2
    <3>4. PageOf(list, ask, Page(ask)) \in Answers
      BY <1>0, <3>3, PageTyped
    <3>5. ask.kind # "recommend"
      BY <1>4
    <3> QED
      BY <1>4, <2>2, <3>1, <3>2, <3>4, <3>5, AnswerKeeps
  <2> QED
    BY <2>1, <2>2
<1>5. CASE ListProducts
  <2>1. ask.kind = "list" /\ busy
    BY <1>5 DEF ListProducts
  <2>2. Paged(ask) <=> IsPage(ask) /\ IsSort(ask)
    BY <2>1 DEF Paged
  <2>3. Orders(ask) = CatalogOrders(SortOf(ask))
    BY <2>1 DEF Orders
  <2> QED
    BY <1>4, <1>5, <2>1, <2>2, <2>3 DEF ListProducts
<1>6. CASE SearchProducts
  <2>1. ask.kind = "search" /\ busy
    BY <1>6 DEF SearchProducts
  <2>2. Paged(ask) <=> IsPage(ask) /\ IsTerm(ask)
    BY <2>1 DEF Paged
  <2>3. Orders(ask) = SearchOrders(ask.term[1])
    BY <2>1 DEF Orders
  <2> QED
    BY <1>4, <1>6, <2>1, <2>2, <2>3 DEF SearchProducts
<1>7. CASE GetProduct
  <2> DEFINE found == { p \in Products : p.product_id = ask.product }
             answer == IF found = {} THEN Failed(404) ELSE Ok(SetToSeq(found))
  <2>1. ask.kind = "detail" /\ busy /\ Answer(answer)
    BY <1>7 DEF GetProduct
  <2>2. answer \in Answers
    BY <1>0, OthersTyped
  <2> HIDE DEF answer
  <2> QED
    BY <2>1, <2>2, AnswerKeeps
<1>8. CASE ListRecommendations
  <2>1. ask.kind = "recommend" /\ busy
    BY <1>8 DEF ListRecommendations
  <2>2. PICK answer : Answer(answer) /\ Recommends(ask, answer)
    <3>1. CASE ~IsRecommended(ask)
      <4>1. Answer(Failed(400)) /\ Recommends(ask, Failed(400))
        BY <1>8, <3>1 DEF ListRecommendations, Recommends
      <4> QED
        BY <4>1
    <3>2. CASE IsRecommended(ask) /\ \A p \in Products : p.product_id # ask.product
      <4>1. Answer(Failed(404)) /\ Recommends(ask, Failed(404))
        BY <1>8, <3>2 DEF ListRecommendations, Recommends
      <4> QED
        BY <4>1
    <3>3. CASE IsRecommended(ask) /\ ~(\A p \in Products : p.product_id # ask.product)
      <4>1. PICK list \in OtherOrders(ask.product) : Answer(Ok(Slice(list, 1, Recommended(ask))))
        BY <1>8, <3>3 DEF ListRecommendations
      <4>2. Recommends(ask, Ok(Slice(list, 1, Recommended(ask))))
        BY <3>3 DEF Recommends
      <4> QED
        BY <4>1, <4>2
    <3> QED
      BY <3>1, <3>2, <3>3
  <2>3. answer \in Answers
    BY <1>0, <2>2, OthersTyped
  <2> QED
    BY <2>1, <2>2, <2>3, AnswerKeeps
<1> QED
  BY <1>1, <1>2, <1>3, <1>5, <1>6, <1>7, <1>8 DEF Next

\* CatInv is an invariant: the answers are the pages of the listing, in order and none left out.
THEOREM AlwaysCatInv == Spec => []CatInv
  BY InitCat, NextCat, PTL DEF Spec

-----------------------------------------------------------------------------
(* What follows. *)

\* Everything in an answer is one of the products.
LEMMA ItemsAreProducts ==
  ASSUME CatInv, NEW i \in DOMAIN pages, NEW k \in DOMAIN pages[i].items
  PROVE  pages[i].items[k] \in Products
<1>1. pages[i] \in Answers
  BY DEF CatInv
<1>2. pages[i].items \in Seq(Products)
  BY <1>1 DEF Answers
<1> QED
  BY <1>2

\* No answer shows a variant twice, leaves one out, or mixes the titles of two contents, whatever
\* snapshots and contents the database keeps: PRODUCT_READ_SELECT_SQL and the mapper.
THEOREM VariantsAreOnce == Spec => []VariantsOnce
<1>1. CatInv => VariantsOnce
  <2>1. SUFFICES ASSUME CatInv, NEW i \in DOMAIN pages, NEW k \in DOMAIN pages[i].items
        PROVE  ProductTyped(pages[i].items[k])
    BY DEF VariantsOnce, ProductTyped
  <2>2. TablesKeyed
    BY <2>1, CatalogueKeyed DEF CatInv
  <2> QED
    BY <2>1, <2>2, ItemsAreProducts, ProductsAre
<1> QED
  BY <1>1, AlwaysCatInv, PTL

\* Recommendations are the same each time, because compareRecommendedProducts decides between any
\* two products: listRecommendations.
THEOREM RecommendationsAreStable == Spec => []RecommendationsRepeat
<1>1. CatInv => RecommendationsRepeat
  <2>1. SUFFICES ASSUME CatInv, ask.kind = "recommend"
        PROVE  \A i, j \in DOMAIN pages :
                 /\ pages[i] = pages[j]
                 /\ \A k \in DOMAIN pages[i].items : pages[i].items[k].product_id # ask.product
    BY DEF RecommendationsRepeat
  <2>2. TablesKeyed
    BY <2>1, CatalogueKeyed DEF CatInv
  <2>3. \A i \in DOMAIN pages : Recommends(ask, pages[i])
    BY <2>1 DEF CatInv
  <2>4. ASSUME NEW i \in DOMAIN pages, NEW j \in DOMAIN pages PROVE pages[i] = pages[j]
    <3>1. Recommends(ask, pages[i]) /\ Recommends(ask, pages[j])
      BY <2>3
    <3>2. \A x, y \in OtherOrders(ask.product) : x = y
      BY <2>2, OtherOrdersList
    <3> QED
      BY <3>1, <3>2 DEF Recommends
  <2>5. ASSUME NEW i \in DOMAIN pages, NEW k \in DOMAIN pages[i].items
        PROVE  pages[i].items[k].product_id # ask.product
    <3>1. pages[i].items \in Seq({ p \in Products : p.product_id # ask.product })
      BY <2>2, <2>3, OthersTyped
    <3> QED
      BY <3>1
  <2> QED
    BY <2>4, <2>5
<1> QED
  BY <1>1, AlwaysCatInv, PTL

-----------------------------------------------------------------------------
(* All pages of a listing together. *)

\* Every page is cut out of a list of its own, and together they have the length of one list and
\* at each place what one of the lists has there.
LEMMA PagesTogether ==
  ASSUME CatInv, ask.kind \in {"list", "search"}, ~busy, Last(pages).status = 200,
         Page(ask) = Last(pages).totalPages
  PROVE  /\ AllItems \in Seq(Found(ask)) /\ Len(AllItems) = Cardinality(Found(ask))
         /\ \A x \in DOMAIN AllItems : \E list \in Orders(ask) : AllItems[x] = list[x]
<1> DEFINE n == Cardinality(Found(ask))
           T == Len(pages)
           L == Limit(ask)
           ls == [k \in 1..T |-> CHOOSE list \in Orders(ask) : pages[k] = PageOf(list, ask, k)]
           seqs == [k \in 1..T |-> pages[k].items]
           up == [k \in 0..T |-> AtMost(k * L, n)]
<1>0. TablesKeyed /\ busy = FALSE
  BY CatalogueKeyed DEF CatInv
<1>1. pages \in Seq(Answers) /\ pages # <<>>
  <2>1. ask # None
    BY DEF None
  <2> QED
    BY <2>1 DEF CatInv
<1>2. T \in Nat /\ T >= 1 /\ T \in 1..T
  BY <1>1
<1>3. Paged(ask)
  <2>1. Failed(400).status # 200
    BY DEF Failed
  <2> QED
    BY <1>2, <2>1 DEF CatInv, PagesFollow, Last
<1>4. Page(ask) = T /\ \A k \in 1..T : \E list \in Orders(ask) : pages[k] = PageOf(list, ask, k)
  BY <1>0, <1>2, <1>3 DEF CatInv, PagesFollow
<1>5. L \in Nat /\ L >= 1
  BY <1>3 DEF Paged, IsPage
<1>6. \A k \in 1..T : ls[k] \in Orders(ask) /\ pages[k] = PageOf(ls[k], ask, k)
  BY <1>4
<1> HIDE DEF ls
<1>7. \A k \in 1..T : ls[k] \in Seq(Found(ask)) /\ Len(ls[k]) = n /\ n \in Nat
  BY <1>0, <1>6, OrdersList DEF Lists
<1>8. n \in Nat /\ n <= T * L
  <2>1. n \in Nat /\ pages[T] = PageOf(ls[T], ask, T) /\ Len(ls[T]) = n
    BY <1>2, <1>6, <1>7
  <2>2. Last(pages).totalPages = TotalPages(n, ask)
    BY <2>1 DEF Last, PageOf
  <2>3. T = TotalPages(n, ask)
    BY <1>4, <2>2
  <2>4. n <= TotalPages(n, ask) * Limit(ask)
    BY <1>5, <2>1, PagesSuffice
  <2> QED
    BY <2>1, <2>3, <2>4
<1>9. ASSUME NEW k \in 1..T
      PROVE  /\ seqs[k] \in Seq(Found(ask))
             /\ up[k] = up[k - 1] + Len(seqs[k])
             /\ \A i \in 1..Len(seqs[k]) : seqs[k][i] = ls[k][up[k - 1] + i]
  <2> DEFINE a == (k - 1) * L
  <2>1. a \in Nat /\ a + L = k * L
    BY <1>5
  <2>2. up[k] = AtMost(a + L, n) /\ up[k - 1] = AtMost(a, n)
    <3>1. k \in 0..T /\ k - 1 \in 0..T
      BY <1>2
    <3> QED
      BY <2>1, <3>1
  <2>3. seqs[k] = Slice(ls[k], a + 1, a + L)
    <3>1. pages[k] = PageOf(ls[k], ask, k)
      BY <1>6
    <3>2. seqs[k] = pages[k].items
      OBVIOUS
    <3> QED
      BY <3>1, <3>2 DEF PageOf
  <2>4. ls[k] \in Seq(Found(ask)) /\ Len(ls[k]) = n
    BY <1>7
  <2> HIDE DEF a, up, seqs, L, n
  <2>5. /\ Slice(ls[k], a + 1, a + L) \in Seq(Found(ask))
        /\ AtMost(a + L, n) = AtMost(a, n) + Len(Slice(ls[k], a + 1, a + L))
        /\ \A i \in 1..Len(Slice(ls[k], a + 1, a + L)) : Slice(ls[k], a + 1, a + L)[i] = ls[k][AtMost(a, n) + i]
    <3>1. ls[k] \in Seq(Found(ask)) /\ a \in Nat /\ L \in Nat /\ L >= 1
      BY <1>5, <2>1, <2>4
    <3>2. LET page == Slice(ls[k], a + 1, a + L)
              m == Len(ls[k])
          IN  /\ page \in Seq(Found(ask))
              /\ AtMost(a + L, m) = AtMost(a, m) + Len(page)
              /\ \A i \in 1..Len(page) : page[i] = ls[k][AtMost(a, m) + i]
      BY ONLY <3>1, PageIs
    <3> QED
      BY <2>4, <3>2
  <2> QED
    BY <2>2, <2>3, <2>5
<1>10. up \in [0..T -> Nat] /\ up[0] = 0 /\ up[T] = n
  <2>1. ASSUME NEW k \in 0..T PROVE AtMost(k * L, n) \in Nat
    <3>1. k * L \in Nat
      BY <1>5
    <3> QED
      BY <1>8, <3>1 DEF AtMost
  <2>2. up \in [0..T -> Nat]
    BY <2>1
  <2>3. up[0] = AtMost(0 * L, n) /\ up[T] = AtMost(T * L, n)
    BY <1>2
  <2>4. 0 * L = 0 /\ T * L \in Nat
    BY <1>2, <1>5
  <2> HIDE DEF up, T, L, n
  <2> QED
    BY <1>8, <2>2, <2>3, <2>4 DEF AtMost
<1>11. seqs \in [1..T -> Seq(Found(ask))] /\ AllItems = FlattenSeq(seqs)
  <2>1. seqs \in [1..T -> Seq(Found(ask))]
    BY <1>9
  <2>2. DOMAIN pages = 1..T
    BY <1>1
  <2> QED
    BY <2>1, <2>2 DEF AllItems
<1> HIDE DEF n, T, L, seqs, up
<1>12. /\ AllItems \in Seq(Found(ask)) /\ Len(AllItems) = up[T]
       /\ \A x \in 1..up[T] : \E k \in 1..T : AllItems[x] = ls[k][x]
  <2>1. Continues(seqs, ls, up, T)
    BY <1>9, <1>10 DEF Continues
  <2>2. T \in Nat /\ T >= 1 /\ seqs \in [1..T -> Seq(Found(ask))] /\ up \in [0..T -> Nat]
    BY <1>2, <1>10, <1>11
  <2>3. Collects(FlattenSeq(seqs), Found(ask), ls, up, T)
    BY <2>1, <2>2, Concatenated
  <2> QED
    BY <1>11, <2>3 DEF Collects
<1>13. ASSUME NEW x \in DOMAIN AllItems PROVE \E list \in Orders(ask) : AllItems[x] = list[x]
  <2>1. x \in 1..up[T]
    BY <1>12
  <2>2. PICK k \in 1..T : AllItems[x] = ls[k][x]
    BY <1>12, <2>1
  <2> QED
    BY <1>6, <2>2
<1> QED
  BY <1>10, <1>12, <1>13 DEF n

\* If all orders of a listing go by w, so do its pages put together.
LEMMA TogetherGoesBy ==
  ASSUME CatInv, ask.kind \in {"list", "search"}, ~busy, Last(pages).status = 200,
         Page(ask) = Last(pages).totalPages,
         NEW w \in [Found(ask) -> Int],
         \A list \in Orders(ask) : \A i, j \in DOMAIN list : i < j => w[list[i]] <= w[list[j]],
         NEW x \in DOMAIN AllItems, NEW y \in DOMAIN AllItems, x < y
  PROVE  AllItems[x] \in Found(ask) /\ AllItems[y] \in Found(ask) /\ w[AllItems[x]] <= w[AllItems[y]]
<1>0. TablesKeyed
  BY CatalogueKeyed DEF CatInv
<1>1. /\ AllItems \in Seq(Found(ask)) /\ Len(AllItems) = Cardinality(Found(ask))
      /\ \A i \in DOMAIN AllItems : \E list \in Orders(ask) : AllItems[i] = list[i]
  BY PagesTogether
<1>2. PICK s \in Orders(ask) : AllItems[x] = s[x]
  BY <1>1
<1>3. PICK t \in Orders(ask) : AllItems[y] = t[y]
  BY <1>1
<1>4. /\ IsFiniteSet(Found(ask))
      /\ s \in SetToSeqs(Found(ask)) /\ Lists(s, Found(ask))
      /\ t \in SetToSeqs(Found(ask)) /\ Lists(t, Found(ask))
  BY <1>0, OrdersList
<1>5. x \in 1..Cardinality(Found(ask)) /\ y \in 1..Cardinality(Found(ask))
  BY <1>1
<1>6. w[s[x]] <= w[t[x]]
  <2>1. \A i, j \in DOMAIN s : i < j => w[s[i]] <= w[s[j]]
    OBVIOUS
  <2>2. \A i, j \in DOMAIN t : i < j => w[t[i]] <= w[t[j]]
    OBVIOUS
  <2> QED
    BY <1>4, <1>5, <2>1, <2>2, SameWeights
<1>7. x \in DOMAIN t /\ y \in DOMAIN t /\ t[x] \in Found(ask) /\ t[y] \in Found(ask) /\ s[x] \in Found(ask)
  BY <1>4, <1>5 DEF Lists
<1>8. w[t[x]] <= w[t[y]]
  BY <1>7
<1>9. w[s[x]] \in Int /\ w[t[x]] \in Int /\ w[t[y]] \in Int
  BY <1>7
<1> QED
  BY <1>2, <1>3, <1>6, <1>7, <1>8, <1>9

\* The comparison of the search: prefixes first, and it decides between any two products.
LEMMA SearchFacts ==
  ASSUME TablesKeyed, NEW term \in Term
  PROVE  /\ \A p, q \in Matching(term) : p = q \/ SearchBefore(p, q, term) \/ SearchBefore(q, p, term)
         /\ \A p, q \in Matching(term) : PrefixRank(q, term) < PrefixRank(p, term) => SearchBefore(q, p, term)
<1>1. ASSUME NEW p \in Matching(term), NEW q \in Matching(term)
      PROVE  /\ p = q \/ SearchBefore(p, q, term) \/ SearchBefore(q, p, term)
             /\ PrefixRank(q, term) < PrefixRank(p, term) => SearchBefore(q, p, term)
  <2>1. ProductTyped(p) /\ ProductTyped(q) /\ (p.product_id = q.product_id => p = q)
    BY ProductsAre DEF Matching
  <2>2. p.product_id \in Nat /\ q.product_id \in Nat /\ p.title \in Nat /\ q.title \in Nat
    BY <2>1, NumbersAssumption DEF ProductTyped
  <2>3. PrefixRank(p, term) \in {0, 1} /\ PrefixRank(q, term) \in {0, 1}
    BY DEF PrefixRank
  <2> QED
    BY <2>1, <2>2, <2>3 DEF SearchBefore
<1> QED
  BY <1>1

\* The hypotheses of the listings.
LEMMA ListedIs ==
  ASSUME CatInv, NEW kind \in {"list", "search"}, Listed(kind)
  PROVE  /\ TablesKeyed /\ ask.kind = kind /\ ~busy /\ Last(pages).status = 200 /\ Page(ask) = Last(pages).totalPages
         /\ Paged(ask)
         /\ kind = "search" => ask.term[1] \in Term
<1>1. TablesKeyed /\ ask.kind = kind /\ ~busy /\ Last(pages).status = 200 /\ Page(ask) = Last(pages).totalPages
  BY CatalogueKeyed DEF CatInv, Listed
<1>2. ask # None /\ ask \in Requests
  <2>1. ask # None
    BY <1>1 DEF None
  <2> QED
    BY <2>1 DEF CatInv
<1>3. Paged(ask)
  <2>1. pages \in Seq(Answers) /\ pages # <<>>
    BY <1>1, <1>2 DEF CatInv
  <2>2. Len(pages) \in 1..Len(pages)
    BY <2>1
  <2>3. Failed(400).status # 200
    BY DEF Failed
  <2> QED
    BY <1>1, <2>2, <2>3 DEF CatInv, PagesFollow, Last
<1>4. ASSUME kind = "search" PROVE ask.term[1] \in Term
  <2>1. ask \in [kind : {"search"}, term : Raw(Term), page : Raw(Int), limit : Raw(Number)]
    BY <1>1, <1>2, <1>4, RequestIs
  <2>2. ask.term \in Raw(Term) /\ ask.term # Missing
    BY <1>1, <1>3, <1>4, <2>1 DEF Paged, IsTerm
  <2> QED
    BY <2>2 DEF Raw, Given
<1> QED
  BY <1>1, <1>3, <1>4

\* The pages of a search show every product to be found once, although each page is cut out of the answer to
\* a statement of its own: compareSearchProducts leaves no two products undecided.
THEOREM SearchIsPartitioned == Spec => []SearchPagesPartition
<1>1. ASSUME CatInv, Listed("search")
      PROVE  /\ IsInjective(Ids(AllItems))
             /\ Range(Ids(AllItems)) = { s \in Sale : IsShown(s) /\ ShownTitle(s) \subseteq Containing[ask.term[1]] }
  <2> DEFINE term == ask.term[1]
             S == Matching(term)
             R == { x \in S \X S : SearchBefore(x[1], x[2], term) }
             all == AllItems
             shown == { s \in Sale : IsShown(s) /\ ShownTitle(s) \subseteq Containing[term] }
  <2>1. /\ TablesKeyed /\ ask.kind = "search" /\ ~busy /\ Last(pages).status = 200
        /\ Page(ask) = Last(pages).totalPages /\ Paged(ask) /\ term \in Term
    BY <1>1, ListedIs
  <2>2. Found(ask) = S /\ Orders(ask) = SearchOrders(term)
    BY <2>1 DEF Found, Orders
  <2>3. IsFiniteSet(S) /\ S \subseteq Products /\ \A list \in Orders(ask) : list \in SetToSeqs(S) /\ Lists(list, S)
    BY <2>1, <2>2, OrdersList
  <2>4. \A x, y \in S : x = y \/ <<x, y>> \in R \/ <<y, x>> \in R
    BY <2>1, SearchFacts
  <2>5. ASSUME NEW list \in Orders(ask) PROVE Follows(list, R)
    <3>1. \A i, j \in DOMAIN list : i < j => ~SearchBefore(list[j], list[i], term)
      BY <2>2 DEF SearchOrders, Ordered
    <3> QED
      BY <3>1 DEF Follows
  <2> HIDE DEF R, S, term, all
  <2>6. \A x, y \in Orders(ask) : x = y
    BY <2>3, <2>4, <2>5, OneOrder
  <2>7. /\ all \in Seq(S) /\ Len(all) = Cardinality(S)
        /\ \A x \in DOMAIN all : \E list \in Orders(ask) : all[x] = list[x]
    BY <1>1, <2>1, <2>2, PagesTogether DEF all
  <2>8. ASSUME NEW list \in Orders(ask), NEW x \in DOMAIN all PROVE all[x] = list[x]
    BY <2>6, <2>7
  <2>9. Cardinality(S) \in Nat /\ DOMAIN all = 1..Cardinality(S)
    BY <2>3, <2>7, FS_CardinalityType
  <2>10. ASSUME NEW x \in DOMAIN all, NEW y \in DOMAIN all, all[x].product_id = all[y].product_id PROVE x = y
    <3>1. PICK list \in Orders(ask) : all[x] = list[x]
      BY <2>7
    <3>2. all[y] = list[y]
      BY <2>8
    <3>3. all[x] \in Products /\ all[y] \in Products
      BY <2>3, <2>7
    <3>4. list[x] = list[y]
      BY <2>1, <2>10, <3>1, <3>2, <3>3, ProductsAre
    <3> QED
      BY <2>3, <2>9, <3>4 DEF Lists
  <2>11. IsInjective(Ids(all))
    BY <2>10 DEF IsInjective, Ids
  <2>12. ASSUME NEW s \in shown PROVE s \in Range(Ids(all))
    <3>1. PICK p \in Products : p.product_id = s
      BY <2>1, <2>12, ProductsAre
    <3>2. p.title \in Containing[term]
      <4>1. ShownTitle(s) = {p.title}
        BY <2>1, <3>1, ProductsAre DEF ProductTyped
      <4> QED
        BY <2>12, <4>1
    <3>3. p \in S
      BY <3>2 DEF Matching, S
    <3>4. Cardinality(S) # 0
      BY <2>3, <3>3, FS_EmptySet
    <3>5. PICK list \in Orders(ask) : all[1] = list[1]
      <4>1. 1 \in DOMAIN all
        BY <2>9, <3>4
      <4> QED
        BY <2>7, <4>1
    <3>6. PICK x \in 1..Cardinality(S) : list[x] = p
      BY <2>3, <3>3 DEF Lists
    <3>7. all[x] = p /\ x \in DOMAIN all
      BY <2>8, <2>9, <3>6
    <3>8. x \in DOMAIN Ids(all) /\ Ids(all)[x] = s
      BY <3>1, <3>7 DEF Ids
    <3> QED
      BY <3>8 DEF Range
  <2>13. ASSUME NEW s \in Range(Ids(all)) PROVE s \in shown
    <3>1. PICK x \in DOMAIN all : s = all[x].product_id
      BY DEF Range, Ids
    <3>2. all[x] \in S
      BY <2>7
    <3>3. all[x].title \in Containing[term] /\ all[x] \in Products
      BY <3>2 DEF Matching, S
    <3>4. ProductTyped(all[x])
      BY <2>1, <3>3, ProductsAre
    <3> QED
      BY <3>1, <3>3, <3>4 DEF ProductTyped
  <2>14. Range(Ids(all)) = shown
    BY <2>12, <2>13
  <2> QED
    BY <2>11, <2>14 DEF all, term
<1>2. CatInv => SearchPagesPartition
  BY <1>1 DEF SearchPagesPartition
<1> QED
  BY <1>2, AlwaysCatInv, PTL

\* Prefixes come before other matches, and prices in their order, across all pages of a listing, although two pages
\* may disagree on products of one price: compareCatalogProducts and compareSearchProducts.
THEOREM ListingsAreInOrder == Spec => []ListingsInOrder
<1>1. ASSUME CatInv, NEW i \in DOMAIN AllItems, NEW j \in DOMAIN AllItems, i < j, Listed("search"),
             AllItems[j].title \in Starting[ask.term[1]]
      PROVE  AllItems[i].title \in Starting[ask.term[1]]
  <2> DEFINE term == ask.term[1]
             w == [p \in Matching(term) |-> PrefixRank(p, term)]
  <2>1. /\ TablesKeyed /\ ask.kind = "search" /\ ~busy /\ Last(pages).status = 200
        /\ Page(ask) = Last(pages).totalPages /\ Paged(ask) /\ term \in Term
    BY <1>1, ListedIs
  <2>2. Found(ask) = Matching(term) /\ Orders(ask) = SearchOrders(term)
    BY <2>1 DEF Found, Orders
  <2> HIDE DEF term
  <2>3. \A p \in Matching(term) : w[p] = PrefixRank(p, term) /\ w[p] \in {0, 1}
    BY DEF PrefixRank
  <2>4. w \in [Found(ask) -> Int]
    BY <2>2, <2>3
  <2> HIDE DEF w
  <2>5. ASSUME NEW list \in Orders(ask), NEW x \in DOMAIN list, NEW y \in DOMAIN list, x < y
        PROVE  w[list[x]] <= w[list[y]]
    <3>1. list[x] \in Matching(term) /\ list[y] \in Matching(term)
      BY <2>1, <2>2, OrdersList DEF Lists
    <3>2. ~SearchBefore(list[y], list[x], term)
      BY <2>2, <2>5 DEF SearchOrders, Ordered
    <3>3. ~(PrefixRank(list[y], term) < PrefixRank(list[x], term))
      BY <2>1, <3>1, <3>2, SearchFacts
    <3> QED
      BY <2>3, <3>1, <3>3
  <2>6. AllItems[i] \in Matching(term) /\ AllItems[j] \in Matching(term) /\ w[AllItems[i]] <= w[AllItems[j]]
    BY <1>1, <2>1, <2>2, <2>4, <2>5, TogetherGoesBy
  <2>7. PrefixRank(AllItems[j], term) = 0
    BY <1>1 DEF PrefixRank, term
  <2>8. PrefixRank(AllItems[i], term) = 0
    BY <2>3, <2>6, <2>7
  <2> QED
    BY <2>8 DEF PrefixRank, term
<1>2. ASSUME CatInv, NEW i \in DOMAIN AllItems, NEW j \in DOMAIN AllItems, i < j, Listed("list"),
             SortOf(ask) \in {"price_asc", "price_desc"}
      PROVE  /\ SortOf(ask) = "price_asc" => AllItems[i].price <= AllItems[j].price
             /\ SortOf(ask) = "price_desc" => AllItems[i].price >= AllItems[j].price
  <2> DEFINE sign == IF SortOf(ask) = "price_asc" THEN 1 ELSE -1
             w == [p \in Products |-> sign * p.price]
  <2>1. /\ TablesKeyed /\ ask.kind = "list" /\ ~busy /\ Last(pages).status = 200
        /\ Page(ask) = Last(pages).totalPages /\ Paged(ask)
    BY <1>2, ListedIs
  <2>2. Found(ask) = Products /\ Orders(ask) = CatalogOrders(SortOf(ask))
    BY <2>1 DEF Found, Orders
  <2>3. \A p \in Products : p.price \in Nat
    BY <2>1, ProductsAre DEF ProductTyped
  <2>4. /\ w \in [Found(ask) -> Int]
        /\ \A p \in Products : w[p] = IF SortOf(ask) = "price_asc" THEN p.price ELSE -p.price
    BY <2>2, <2>3
  <2> HIDE DEF w
  <2>5. ASSUME NEW list \in Orders(ask), NEW x \in DOMAIN list, NEW y \in DOMAIN list, x < y
        PROVE  w[list[x]] <= w[list[y]]
    <3>1. list[x] \in Products /\ list[y] \in Products
      BY <2>1, <2>2, OrdersList DEF Lists
    <3>2. ~CatalogBefore(list[y], list[x], SortOf(ask))
      BY <2>2, <2>5 DEF CatalogOrders, Ordered
    <3>3. list[x].price \in Nat /\ list[y].price \in Nat
      BY <2>3, <3>1
    <3>4. /\ SortOf(ask) = "price_asc" => list[x].price <= list[y].price
          /\ SortOf(ask) = "price_desc" => list[x].price >= list[y].price
      BY <3>2, <3>3 DEF CatalogBefore
    <3> QED
      BY <1>2, <2>4, <3>1, <3>3, <3>4
  <2>6. AllItems[i] \in Products /\ AllItems[j] \in Products /\ w[AllItems[i]] <= w[AllItems[j]]
    BY <1>2, <2>1, <2>2, <2>4, <2>5, TogetherGoesBy
  <2>7. AllItems[i].price \in Nat /\ AllItems[j].price \in Nat
    BY <2>3, <2>6
  <2> QED
    BY <2>4, <2>6, <2>7
<1>3. CatInv => ListingsInOrder
  BY <1>1, <1>2 DEF ListingsInOrder
<1> QED
  BY <1>3, AlwaysCatInv, PTL
=============================================================================
