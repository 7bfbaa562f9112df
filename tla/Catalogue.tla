------------------------------ MODULE Catalogue ------------------------------
(***************************************************************************)
(* The read side of the shop: the product list, the product page, the      *)
(* search and the recommendations (product-read-model, catalog, search and *)
(* recommendation under src/apps/backend/src).  Nothing here writes.       *)
(*                                                                         *)
(* Every request runs one SQL statement WITHOUT an ORDER BY, groups its    *)
(* rows into products, sorts the products and cuts a page out of them.     *)
(* PostgreSQL may return the rows of each statement in another order and   *)
(* JavaScript's sort is stable, so a request sees the products in any      *)
(* order its comparison allows, and the next request may see another one.  *)
(* The client fetches the pages of a listing one after another, each with  *)
(* a statement of its own.                                                 *)
(***************************************************************************)
EXTENDS Integers, Sequences, FiniteSets, SequencesExt

CONSTANTS Sale,       \* sales.id, the product_id of an answer; UUIDs are compared as strings, here as numbers
          Title,      \* titles of contents, numbered in the order of localeCompare
          Term,       \* search terms, trimmed
          IsLong,     \* Term -> BOOLEAN: the trimmed term has at least 2 characters
          Starting,   \* Term -> SUBSET Title: LOWER(title) LIKE LOWER('term%')
          Containing,   \* Term -> SUBSET Title: LOWER(title) LIKE LOWER('%term%')
          Catalogues, \* the contents the database may have
          Sort,       \* values of ?sort=
          Number,     \* integers clients send as page and limit
          DefaultLimit, MaxLimit, DefaultRecommended, MaxRecommended

ASSUME NumbersAssumption == /\ Sale \subseteq Nat /\ Title \subseteq Nat /\ Number \subseteq Int
                            /\ DefaultLimit \in 1..MaxLimit
                            /\ DefaultRecommended \in 1..MaxRecommended

\* Primary keys, and numbers for what is compared.
ASSUME CataloguesAreKeyed ==
    \A d \in Catalogues :
        /\ \A T \in {d.snapshots, d.contents, d.stocks} :
              IsFiniteSet(T) /\ \A x, y \in T : x.id \in Nat /\ (x.id = y.id => x = y)
        /\ \A p \in d.snapshots : p.sale \in Sale /\ p.at \in Nat
        /\ \A c \in d.contents : c.title \in Title
        /\ \A v \in d.stocks : v.unit \in Nat /\ v.sequence \in Nat /\ v.price \in Nat

ASSUME MatchAssumption == \A t \in Term : Starting[t] \subseteq Containing[t] /\ Containing[t] \subseteq Title

VARIABLES db,     \* the tables, the same for ever
          ask,    \* the client's latest request, or None before its first one
          busy,   \* it has not been answered
          pages   \* the answers to this request and to those for the pages before it

vars == <<db, ask, busy, pages>>

None == [kind |-> "none"]
Missing == <<>>      \* a query parameter that is not there
Given(n) == <<n>>    \* one that is; what is no integer fails as 0 does, and is sent as 0

-----------------------------------------------------------------------------
(* The SQL statements. *)

IsActive(s) == db.status[s] = "open"

\* snapshot_rank = 1: the newest snapshot of the sale, by created_at and then by id.
IsLatest(p) == \A q \in db.snapshots :
                   q.sale = p.sale => q.at < p.at \/ (q.at = p.at /\ q.id <= p.id)

\* A fault: the contents of a snapshot are not ranked.
IsAnyContent(c) == TRUE

\* content_rank = 1: the content with the greatest id of its snapshot.
IsCanonical(c) == \A d \in db.contents : d.snapshot = c.snapshot => d.id <= c.id

\* One column of the SELECT for each field.
RowOf(p, c, v) ==
    [sale |-> p.sale, created |-> p.at, content |-> c.id, title |-> c.title, variant |-> v.id,
     place |-> <<v.unit, v.sequence>>, price |-> v.price]

\* The rows of a statement: one for each variant of the latest snapshot of an active sale.
ContentsOf(p) == { c \in db.contents : c.snapshot = p.id /\ IsCanonical(c) }
StocksOf(p) == { v \in db.stocks : v.snapshot = p.id }
Joined(p) == { RowOf(p, c, v) : c \in ContentsOf(p), v \in StocksOf(p) }

Rows == UNION { Joined(p) : p \in { p \in db.snapshots : IsActive(p.sale) /\ IsLatest(p) } }

-----------------------------------------------------------------------------
(* The mapper: rows to products, and the comparisons. *)

Lowest(S) == CHOOSE x \in S : \A y \in S : x <= y

\* Every order of the elements of S in which none stands before one that comes before it.
Ordered(S, Before(_, _)) ==
    { s \in SetToSeqs(S) : \A i, j \in DOMAIN s : i < j => ~Before(s[j], s[i]) }

PlaceBefore(r, q) == r.place[1] < q.place[1] \/ (r.place[1] = q.place[1] /\ r.place[2] < q.place[2])

\* A product: the rows of one sale, by the sequence of the unit and of the stock.
Product(mine) ==
    LET any  == CHOOSE r \in mine : TRUE
        list == CHOOSE l \in Ordered(mine, PlaceBefore) : TRUE
    IN  [product_id |-> any.sale, title |-> any.title, created |-> any.created,
         price |-> Lowest({ r.price : r \in mine }),
         variants |-> [i \in DOMAIN list |-> list[i].variant]]

Products == LET rows == Rows
            IN  { Product({ r \in rows : r.sale = s }) : s \in { r.sale : r \in rows } }

ByNewest(p, q) == p.created > q.created

CatalogBefore(p, q, sort) ==
    CASE sort = "price_asc" /\ p.price # q.price -> p.price < q.price
      [] sort = "price_desc" /\ p.price # q.price -> p.price > q.price
      [] OTHER -> ByNewest(p, q)

Matching(term) == { p \in Products : p.title \in Containing[term] }
PrefixRank(p, term) == IF p.title \in Starting[term] THEN 0 ELSE 1

\* A fault: the search has no last word when two titles are equal.
SearchBeforeByTitle(p, q, term) ==
    \/ PrefixRank(p, term) < PrefixRank(q, term)
    \/ PrefixRank(p, term) = PrefixRank(q, term) /\ p.title < q.title

\* A fault: a match inside the title ranks with one at its start.
SearchBeforeUnranked(p, q, term) ==
    p.title < q.title \/ (p.title = q.title /\ p.product_id < q.product_id)

SearchBefore(p, q, term) ==
    IF PrefixRank(p, term) # PrefixRank(q, term) THEN PrefixRank(p, term) < PrefixRank(q, term)
    ELSE p.title < q.title \/ (p.title = q.title /\ p.product_id < q.product_id)

\* A fault: recommendations are sorted as the list is.
RecommendedByNewest(p, q) == ByNewest(p, q)

RecommendedBefore(p, q) == ByNewest(p, q) \/ (p.created = q.created /\ p.product_id < q.product_id)

-----------------------------------------------------------------------------
(* Query parameters. *)

Value(raw, default) == IF raw = Missing THEN default ELSE raw[1]
Page(a) == Value(a.page, 1)
Limit(a) == Value(a.limit, DefaultLimit)
IsPage(a) == Page(a) >= 1 /\ Limit(a) \in 1..MaxLimit

SortOf(a) == Value(a.sort, "newest")
IsSort(a) == SortOf(a) \in {"newest", "price_asc", "price_desc"}

IsTerm(a) == a.term # Missing /\ IsLong[a.term[1]]

Recommended(a) == Value(a.limit, DefaultRecommended)
IsRecommended(a) == Recommended(a) \in 1..MaxRecommended

\* What a client can ask for first; it goes on through the pages of a listing in order.
Raw(S) == { Missing } \cup { Given(n) : n \in S }
Listing == [kind : {"list"}, sort : Raw(Sort), page : Raw({0}), limit : Raw(Number)]
    \cup [kind : {"search"}, term : Raw(Term), page : Raw({0}), limit : Raw(Number)]
    \cup [kind : {"recommend"}, product : Sale, limit : Raw(Number)]
    \cup [kind : {"detail"}, product : Sale]

-----------------------------------------------------------------------------
(* Answers. *)

Failed(status) == [status |-> status, items |-> <<>>]
Ok(items) == [status |-> 200, items |-> items]

Slice(list, first, last) == SubSeq(list, first, IF last < Len(list) THEN last ELSE Len(list))
Offset(a) == (Page(a) - 1) * Limit(a)

TotalPages(total, a) ==
    LET n == (total + Limit(a) - 1) \div Limit(a) IN IF n = 0 THEN 1 ELSE n

Paginate(list, a) ==
    [status |-> 200, items |-> Slice(list, Offset(a) + 1, Offset(a) + Limit(a)), totalPages |-> TotalPages(Len(list), a)]

\* The orders an answer may have its products in.
CatalogOrders(sort) == Ordered(Products, LAMBDA p, q : CatalogBefore(p, q, sort))
SearchOrders(term) == Ordered(Matching(term), LAMBDA p, q : SearchBefore(p, q, term))
OtherOrders(product) == Ordered({ p \in Products : p.product_id # product }, RecommendedBefore)

Answer(answer) == pages' = Append(pages, answer) /\ busy' = FALSE /\ UNCHANGED <<db, ask>>
AnswerPage(orders) == \E list \in orders : Answer(Paginate(list, ask))

ListProducts ==
    /\ busy /\ ask.kind = "list"
    /\ IF IsPage(ask) /\ IsSort(ask)
       THEN AnswerPage(CatalogOrders(SortOf(ask)))
       ELSE Answer(Failed(400))

SearchProducts ==
    /\ busy /\ ask.kind = "search"
    /\ IF IsPage(ask) /\ IsTerm(ask)
       THEN AnswerPage(SearchOrders(ask.term[1]))
       ELSE Answer(Failed(400))

GetProduct ==
    /\ busy /\ ask.kind = "detail"
    /\ LET found == { p \in Products : p.product_id = ask.product }
       IN  Answer(IF found = {} THEN Failed(404) ELSE Ok(SetToSeq(found)))

ListRecommendations ==
    /\ busy /\ ask.kind = "recommend"
    /\ IF ~IsRecommended(ask) THEN Answer(Failed(400))
       ELSE IF \A p \in Products : p.product_id # ask.product THEN Answer(Failed(404))
       ELSE \E list \in OtherOrders(ask.product) : Answer(Ok(Slice(list, 1, Recommended(ask))))

-----------------------------------------------------------------------------
(* The client. *)

Init == db \in Catalogues /\ ask = None /\ busy = FALSE /\ pages = <<>>

\* It starts a listing.
Open == /\ ask = None
        /\ ask' \in Listing
        /\ busy' = TRUE
        /\ UNCHANGED <<db, pages>>

\* It asks for the next page, or for the recommendations once more.
AskNext ==
    /\ pages # <<>> /\ ~busy /\ Last(pages).status = 200
    /\ \/ /\ ask.kind \in {"list", "search"}
          /\ Page(ask) < Last(pages).totalPages
          /\ ask' = [ask EXCEPT !.page = Given(Page(ask) + 1)]
       \/ /\ ask.kind = "recommend"
          /\ Len(pages) = 1
          /\ UNCHANGED ask
    /\ busy' = TRUE
    /\ UNCHANGED <<db, pages>>

Next == Open \/ AskNext \/ ListProducts \/ SearchProducts \/ GetProduct \/ ListRecommendations
Spec == Init /\ [][Next]_vars

-----------------------------------------------------------------------------
(* Properties. *)

\* All pages of a listing have been answered.
Listed(kind) == /\ ask.kind = kind /\ ~busy /\ Last(pages).status = 200
                /\ Page(ask) = Last(pages).totalPages
AllItems == FlattenSeq([i \in DOMAIN pages |-> pages[i].items])
Ids(list) == [i \in DOMAIN list |-> list[i].product_id]

\* A product a buyer may see, told from the tables: an active sale whose newest snapshot has a content and a variant.
NewestOf(s) == { p \in db.snapshots : p.sale = s /\ \A q \in db.snapshots :
                    q.sale = s /\ q # p => q.at < p.at \/ (q.at = p.at /\ q.id < p.id) }
ShownTitle(s) ==
    { c.title : c \in { c \in db.contents : \E p \in NewestOf(s) : c.snapshot = p.id /\
                          ~\E d \in db.contents : d.snapshot = p.id /\ d.id > c.id } }
ShownVariants(s) == { v.id : v \in { v \in db.stocks : \E p \in NewestOf(s) : v.snapshot = p.id } }
IsShown(s) == IsActive(s) /\ ShownTitle(s) # {} /\ ShownVariants(s) # {}

\* Going through the pages of a search, whatever order PostgreSQL returns each page's rows in, shows every
\* matching product exactly once (searchProducts and paginate, product-read-model.repository.ts).
SearchPagesPartition ==
    Listed("search") =>
        /\ IsInjective(Ids(AllItems))
        /\ Range(Ids(AllItems)) =
              { s \in Sale : IsShown(s) /\ ShownTitle(s) \subseteq Containing[ask.term[1]] }

\* Across the pages of a search no title that starts with the term comes after one that only contains it
\* (search.it.spec.ts: 'returns prefix matches before contains matches'), and across those of the list by price the
\* prices never go the wrong way, although products of one price may change places between the statements of two
\* pages (compareSearchProducts, compareCatalogProducts).
ListingsInOrder ==
    \A i, j \in DOMAIN AllItems : i < j =>
        /\ Listed("search") =>
              (AllItems[j].title \in Starting[ask.term[1]] => AllItems[i].title \in Starting[ask.term[1]])
        /\ Listed("list") /\ SortOf(ask) = "price_asc"  => AllItems[i].price <= AllItems[j].price
        /\ Listed("list") /\ SortOf(ask) = "price_desc" => AllItems[i].price >= AllItems[j].price

\* Every answer shows a product with each variant of its newest snapshot once, with one title, however many
\* snapshots and contents it has (catalog.it.spec.ts: 'does not duplicate variants when multiple snapshot contents exist').
VariantsOnce ==
    \A i \in DOMAIN pages : \A k \in DOMAIN pages[i].items :
        LET p == pages[i].items[k]
        IN  /\ IsInjective(p.variants) /\ Range(p.variants) = ShownVariants(p.product_id)
            /\ ShownTitle(p.product_id) = { p.title }

\* The recommendations for a product are the same each time they are asked for, and never the product itself
\* (RecommendationService.listRecommendations).
RecommendationsRepeat ==
    ask.kind = "recommend" =>
        \A i, j \in DOMAIN pages :
            /\ pages[i] = pages[j]
            /\ \A k \in DOMAIN pages[i].items : pages[i].items[k].product_id # ask.product

=============================================================================
