------------------------------- MODULE Listing -------------------------------
(***************************************************************************)
(* Reading the catalog: GET /products, page after page, and                *)
(* GET /products/{id} (services/catalog.py, repositories/product.py),      *)
(* while the catalog changes as the module Catalog allows.                 *)
(*                                                                         *)
(* An answer is read by two or three statements: the products, their       *)
(* images (selectinload), the total.  At READ COMMITTED each of them sees  *)
(* what was committed when it began.  ORDER BY names one column, and the   *)
(* database orders products that tie in it as it likes, anew each time.    *)
(* Reading changes nothing, so one client, which asks for one page after   *)
(* the other up to the total it was last told, stands for all of them.     *)
(*                                                                         *)
(* Slug and SKU are never read here; every product keeps its own.  Writers  *)
(* take turns: what overlapping ones leave behind is in Products, and to a *)
(* reader it is one more write.                                            *)
(***************************************************************************)
EXTENDS Integers, Sequences, FiniteSets

CONSTANTS
  ProductIds, Sellers, Categories,
  None,       \* no row, no filter
  Bodies,     \* what is read of the other columns: name, price, is_active
  Times,      \* what created_at may be: the start of a transaction
  Queries,    \* the queries the client may make
  Limit,      \* the limit of its pages
  MaxWrites   \* bound: how many writes are explored

Sorts == {"newest", "price_asc", "price_desc", "name"}

\* A search is the set of bodies whose name or description it matches.
Query == [search : SUBSET Bodies \cup {None}, category : Categories \cup {None},
          seller : Sellers \cup {None}, active_only : BOOLEAN, sort : Sorts]

ASSUME BodiesAssumption == Bodies \subseteq [name : Int, price : Int, is_active : BOOLEAN]
ASSUME ReadAssumption == Times \subseteq Int /\ Queries \subseteq Query
ASSUME PageAssumption == Limit \in Nat \ {0} /\ MaxWrites \in Nat
ASSUME FiniteAssumption == IsFiniteSet(ProductIds)  \* UUIDs, of 128 bits

VARIABLES
  products, images, active, exclusive,  \* as in Catalog
  created,    \* created[p]: created_at of product p
  writes,     \* history: how often a product has been written
  stage,      \* what the client's request waits for, or how it ended
  query, offset,
  items,      \* the products of the page, in order
  pictures,   \* pictures[p]: the images of p as the session has loaded them
  total,
  asOf,       \* history: the writes and the images the page has seen
  begun,      \* history: what the query selected when the walk began
  seen,       \* history: the products on the pages of the walk so far
  changes     \* history: how products were written during the walk

Row(p, c, b) == [category |-> c, slug |-> p, sku |-> p, body |-> b]
Values == {Row(p, c, b) : p \in ProductIds, c \in Categories, b \in Bodies}
Images == 1..MaxWrites  \* an image is named by the write that stored it
Shop == INSTANCE Catalog
Stored == Shop!Stored

catalog == <<products, images, active, exclusive, created, writes>>
answer == <<items, pictures, total, asOf>>
walk == <<begun, seen, changes>>
vars == <<catalog, stage, query, offset, answer, walk>>

Reading == {"page", "images", "count"}

Nothing == [writes |-> 0, images |-> {}]
Earliest == CHOOSE t \in Times : \A u \in Times : t <= u

Init ==
  /\ Shop!Init
  /\ Shop!AllImages = {}
  /\ \A p \in Stored : products[p].values.slug = p /\ products[p].values.sku = p
  /\ created \in [ProductIds -> Times]
  /\ \A p, r \in Stored : created[p] = created[r] => p = r
  /\ \A p \in ProductIds \ Stored : created[p] = Earliest
  /\ writes = 0
  /\ stage = "idle" /\ query = None /\ offset = 0
  /\ items = <<>> /\ pictures = [p \in ProductIds |-> {}] /\ total = 0
  /\ asOf = Nothing
  /\ begun = {} /\ seen = <<>> /\ changes = "none"

-----------------------------------------------------------------------------
(* The catalog changes.                                                    *)

\* One write by a request of Products, and its created_at, which the default
\* now() sets to the start of the transaction: older ones may commit later, and
\* no two start in the same microsecond.
WriteProduct(p) ==
  /\ writes < MaxWrites
  /\ \E c \in Categories, b \in Bodies :
       Shop!Write(p, Row(p, c, b), {writes + 1})
  /\ writes' = writes + 1
  /\ IF products[p] = None
       THEN \E t \in Times \ {created[r] : r \in Stored} :
              created' = [created EXCEPT ![p] = t]
       ELSE UNCHANGED created
  /\ changes' = IF products[p] = None /\ changes # "changed" THEN "grown" ELSE "changed"
  /\ UNCHANGED <<stage, query, offset, answer, begun, seen>>

-----------------------------------------------------------------------------
(* What a statement may return.                                            *)

\* _apply_filters.
Matches(q, p) ==
  /\ q.search # None => products[p].values.body \in q.search
  /\ q.category # None => products[p].values.category = q.category
  /\ q.seller # None => products[p].seller = q.seller
  /\ q.active_only => products[p].values.body.is_active

Selected(q) == {p \in Stored : Matches(q, p)}

\* Mutant: the count statement forgets a filter.
CountedIfActive(q) == {p \in Stored : q.active_only => products[p].values.body.is_active}

\* The rows the count statement counts.
Counted(q) == Selected(q)

\* sort_map.
SortKey(q, p) ==
  [newest |-> -created[p], name |-> products[p].values.body.name,
   price_asc |-> products[p].values.body.price,
   price_desc |-> -products[p].values.body.price][q.sort]

\* Mutant: _apply_sort is not called.
OrdersUnsorted(q) ==
  {s \in [1..Cardinality(Selected(q)) -> Selected(q)] :
     \A i, j \in DOMAIN s : i < j => s[i] # s[j]}

\* Every order of the selected products that ORDER BY allows.
Orders(q) ==
  {s \in [1..Cardinality(Selected(q)) -> Selected(q)] :
     \A i, j \in DOMAIN s : i < j => /\ s[i] # s[j]
                                     /\ SortKey(q, s[i]) <= SortKey(q, s[j])}

Smaller(m, n) == IF m < n THEN m ELSE n
Larger(m, n) == IF m < n THEN n ELSE m

\* Mutant: OFFSET without LIMIT.
PagesWithoutLimit(q, from) == {SubSeq(s, from + 1, Len(s)) : s \in Orders(q)}

\* LIMIT and OFFSET.
Pages(q, from) ==
  {SubSeq(s, from + 1, Smaller(from + Limit, Len(s))) : s \in Orders(q)}

-----------------------------------------------------------------------------
(* The client asks, and the request reads.                                 *)

\* Mutant: one session serves all requests, and keeps what it has loaded.
OldSession == pictures

\* get_db_session: every request begins with nothing loaded.
NewSession == [p \in ProductIds |-> {}]

Ask(from) ==
  /\ stage' = "page"
  /\ offset' = from
  /\ items' = <<>> /\ pictures' = NewSession /\ total' = 0
  /\ asOf' = Nothing
  /\ UNCHANGED catalog

\* GET /products with a new query.
Browse(q) ==
  /\ stage \notin Reading \cup {"answered"}
  /\ Ask(0)
  /\ query' = q /\ begun' = Selected(q) /\ seen' = <<>> /\ changes' = "none"

\* The next page, until the total is reached.
Turn ==
  /\ stage = "answered"
  /\ IF offset + Limit < total
       THEN Ask(offset + Limit) /\ UNCHANGED <<query, walk>>
       ELSE stage' = "end" /\ UNCHANGED <<catalog, answer, query, offset, walk>>

NoWalk == query' = None /\ begun' = {} /\ seen' = <<>> /\ changes' = "none"

Read(page, next) ==
  /\ items' = page
  /\ asOf' = [writes |-> writes, images |-> Shop!AllImages]
  /\ stage' = IF page = <<>> THEN next ELSE "images"
  /\ UNCHANGED catalog

\* The page, in some order among products that tie.
SelectPage ==
  /\ stage = "page"
  /\ \E page \in Pages(query, offset) : Read(page, "count")
  /\ UNCHANGED <<query, walk, offset, pictures, total>>

\* GET /products/{id} selects by the id alone, and has no offset.
Get(p) ==
  /\ stage \notin Reading \cup {"answered"}
  /\ Read(IF p \in Stored THEN <<p>> ELSE <<>>, "not_found")
  /\ offset' = None /\ pictures' = NewSession /\ total' = 0
  /\ NoWalk

\* selectinload: one more SELECT, for the images of the products on the page
\* whose images the session has not loaded yet.
SelectImages ==
  /\ stage = "images"
  /\ pictures' = [p \in ProductIds |->
       IF pictures[p] = {} /\ \E i \in DOMAIN items : items[i] = p
         THEN images[p] ELSE pictures[p]]
  /\ stage' = IF offset = None THEN "got" ELSE "count"
  /\ UNCHANGED <<catalog, query, offset, items, total, asOf, walk>>

\* The count statement, and the answer.
SelectCount ==
  /\ stage = "count"
  /\ total' = Cardinality(Counted(query))
  /\ seen' = seen \o items
  /\ stage' = "answered"
  /\ UNCHANGED <<catalog, query, offset, items, pictures, asOf, begun, changes>>

\* A lost connection, or a client that gives up.
GiveUp ==
  /\ stage \in Reading \cup {"answered"}
  /\ stage' = "idle"
  /\ offset' = 0 /\ items' = <<>> /\ total' = 0 /\ asOf' = Nothing
  /\ pictures' = NewSession
  /\ NoWalk
  /\ UNCHANGED catalog

Next ==
  \/ \E p \in ProductIds : WriteProduct(p) \/ Get(p)
  \/ \E q \in Queries : Browse(q)
  \/ Turn \/ SelectPage \/ SelectImages \/ SelectCount \/ GiveUp

Spec == Init /\ [][Next]_vars
-----------------------------------------------------------------------------
(* Properties.                                                             *)

\* Every column and every local of a request keeps its type.
TypeOK ==
  /\ products \in [ProductIds -> Shop!Product \cup {None}]
  /\ images \in [ProductIds -> SUBSET Images]
  /\ created \in [ProductIds -> Times]
  /\ writes \in 0..MaxWrites
  /\ stage \in Reading \cup {"idle", "answered", "end", "got", "not_found"}
  /\ query \in Queries \cup {None}
  /\ offset \in Nat \cup {None}
  /\ items \in Seq(ProductIds) /\ Len(items) <= Larger(Limit, 1)
  /\ pictures \in [ProductIds -> SUBSET Images]
  /\ total \in 0..Cardinality(ProductIds)

\* The statement and its count are two: if nothing is written between them,
\* the page is as long as limit, offset and total together say.
PageFitsTotal ==
  stage = "answered" /\ asOf.writes = writes =>
    Len(items) = Larger(0, Smaller(Limit, total - offset))

\* No two products the query selects are equal in the column it sorts by.
NoTies ==
  \A p, r \in Selected(query) : SortKey(query, p) = SortKey(query, r) => p = r

\* Pages are found by counting rows anew.  Even so, if no products tie, a walk
\* to the end shows all that it began with as long as products are only added,
\* and shows each exactly once as long as nothing is written.
WalkIsComplete ==
  stage = "end" /\ NoTies =>
    /\ changes \in {"none", "grown"} => begun \subseteq {seen[i] : i \in DOMAIN seen}
    /\ changes = "none" => Len(seen) = Cardinality(begun)

\* The images are read after the rows they belong to: an answer shows no image
\* that had been deleted when its products were read.
NoDeletedImages ==
  stage \in {"count", "answered", "got"} =>
    \A i \in DOMAIN items : \A picture \in pictures[items[i]] :
      picture <= asOf.writes => picture \in asOf.images
=============================================================================
