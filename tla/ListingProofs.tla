---------------------------- MODULE ListingProofs ----------------------------
(***************************************************************************)
(* Proofs about Listing, for any catalog of finitely many products, any    *)
(* queries and any limit.  The rank of a product is the number of selected *)
(* products that ORDER BY puts before it; where nothing ties, a page at    *)
(* offset o of length l shows exactly the ranks from o up to o + l.  LInv  *)
(* says how far the ranks of a walk have been shown, how long its pages    *)
(* are, and how old the images on them may be.                             *)
(***************************************************************************)
EXTENDS Listing, FiniteSetTheorems, SequenceTheorems, FunctionTheorems, TLAPS

\* The request, if any, turns pages (it is not a Get).
Walking == stage \in {"page", "count", "answered", "end"}
             \/ (stage = "images" /\ offset # None)

\* What the locals and the histories are made of.
Local ==
  /\ Walking => query \in Queries /\ offset \in Nat
  /\ stage \in {"page", "images"} => pictures = NewSession
  /\ begun \subseteq ProductIds
  /\ seen \in Seq(ProductIds)
  /\ changes \in {"none", "grown", "changed"}
  /\ asOf \in [writes : Nat, images : SUBSET Images] /\ asOf.writes <= writes

PageLength(n) == Larger(0, Smaller(Limit, n - offset))

\* As long as nothing is written, the page fits what the query selects.
Fits ==
  Walking /\ stage \in {"images", "count"} /\ asOf.writes = writes =>
    Len(items) = PageLength(Cardinality(Selected(query)))

\* Images that were there when the page was read are the only old ones.
Younger ==
  stage = "images" =>
    \A p \in ProductIds : \A picture \in images[p] :
      picture <= asOf.writes => picture \in asOf.images

Ahead(q, r) == {p \in Selected(q) : SortKey(q, p) < SortKey(q, r)}
Rank(q, r) == Cardinality(Ahead(q, r))

\* The ranks below Reached have been on a page.
Reached == IF stage = "page" THEN offset ELSE offset + Limit

Among(s) == {s[i] : i \in DOMAIN s}
Shown == Among(seen) \cup IF stage \in {"images", "count"} THEN Among(items) ELSE {}

\* While products are only added, ranks only grow: none slips below Reached.
Covers ==
  Walking /\ changes \in {"none", "grown"} =>
    /\ begun \subseteq Selected(query)
    /\ NoTies =>
         /\ stage # "end" => \A r \in begun : Rank(query, r) < Reached => r \in Shown
         /\ stage = "answered" /\ offset + Limit >= total => begun \subseteq Among(seen)
         /\ stage = "end" => begun \subseteq Among(seen)

\* While nothing is written at all, the pages are slices of one whole.
Counts ==
  Walking /\ changes = "none" =>
    /\ begun = Selected(query)
    /\ stage \in {"images", "count"} => asOf.writes = writes
    /\ stage \in {"page", "images", "count"} => Len(seen) = Smaller(offset, Cardinality(begun))
    /\ stage = "answered" => /\ Len(seen) = Smaller(offset + Limit, Cardinality(begun))
                             /\ total = Cardinality(begun)
    /\ stage = "end" => Len(seen) = Cardinality(begun)

LInv ==
  TypeOK /\ Local /\ Fits /\ Younger /\ Covers /\ Counts /\ PageFitsTotal /\ NoDeletedImages
-----------------------------------------------------------------------------
(* What the statements return.                                             *)

\* A product is stored with the columns a query looks at.
LEMMA Columns ==
  ASSUME TypeOK, NEW p \in Stored
  PROVE  /\ p \in ProductIds
         /\ products[p].values.body \in [name : Int, price : Int, is_active : BOOLEAN]
         /\ products[p].values.category \in Categories
         /\ created[p] \in Int
<1>1. p \in ProductIds /\ products[p] \in Shop!Product
  BY DEF TypeOK, Stored, Shop!Stored
<1>2. PICK c \in Categories, b \in Bodies, k \in ProductIds : products[p].values = Row(k, c, b)
  BY <1>1 DEF Shop!Product, Values
<1>3. /\ products[p].values.body = b /\ products[p].values.category = c
  BY <1>2 DEF Row
<1>4. created[p] \in Times
  BY <1>1 DEF TypeOK
<1> QED
  BY <1>1, <1>3, <1>4, BodiesAssumption, ReadAssumption

LEMMA KeyType ==
  ASSUME TypeOK, NEW q \in Queries, NEW p \in Stored
  PROVE  SortKey(q, p) \in Int
BY Columns, ReadAssumption DEF SortKey, Query, Sorts

LEMMA SelectedFinite ==
  ASSUME NEW q
  PROVE  /\ Selected(q) \subseteq ProductIds
         /\ IsFiniteSet(Selected(q))
         /\ Cardinality(Selected(q)) \in 0..Cardinality(ProductIds)
<1>1. Selected(q) \subseteq ProductIds
  BY DEF Selected, Stored, Shop!Stored
<1> QED
  BY <1>1, FiniteAssumption, FS_Subset, FS_CardinalityType

LEMMA RankType ==
  ASSUME NEW q, NEW r
  PROVE  IsFiniteSet(Ahead(q, r)) /\ Rank(q, r) \in Nat
<1>1. Ahead(q, r) \in SUBSET Selected(q)
  BY DEF Ahead
<1> QED
  BY <1>1, SelectedFinite, FS_Subset, FS_CardinalityType DEF Rank

\* No selected product has as many ahead of it as there are.
LEMMA RankBelow ==
  ASSUME TypeOK, NEW q \in Queries, NEW r \in Selected(q)
  PROVE  Rank(q, r) < Cardinality(Selected(q))
<1>1. Ahead(q, r) \in SUBSET Selected(q)
  BY DEF Ahead
<1>2. r \in Stored
  BY DEF Selected
<1>3. r \notin Ahead(q, r)
  BY <1>2, KeyType DEF Ahead
<1>4. /\ Cardinality(Ahead(q, r)) <= Cardinality(Selected(q))
      /\ Cardinality(Ahead(q, r)) = Cardinality(Selected(q)) => Ahead(q, r) = Selected(q)
  BY <1>1, SelectedFinite, FS_Subset
<1> QED
  BY <1>1, <1>3, <1>4, SelectedFinite, RankType DEF Rank

\* An order lists each selected product once.
LEMMA OrderLists ==
  ASSUME NEW q, NEW s \in Orders(q)
  PROVE  /\ s \in Seq(Selected(q))
         /\ Len(s) = Cardinality(Selected(q))
         /\ \A i, j \in 1..Len(s) : s[i] = s[j] => i = j
         /\ \A r \in Selected(q) : \E i \in 1..Len(s) : s[i] = r
<1> DEFINE n == Cardinality(Selected(q))
<1>1. n \in Nat
  BY SelectedFinite
<1>2. s \in [1..n -> Selected(q)] /\ DOMAIN s = 1..n
  BY DEF Orders
<1>3. s \in Seq(Selected(q)) /\ Len(s) = n
  BY <1>1, <1>2
<1>4. \A i, j \in 1..n : s[i] = s[j] => i = j
  BY <1>1, <1>2 DEF Orders
<1>5. s \in Injection(1..n, Selected(q))
  BY <1>2, <1>4, Fun_IsInj
<1>6. Cardinality(1..n) = n
  BY <1>1, FS_Interval
<1>7. s \in Surjection(1..n, Selected(q))
  BY <1>5, <1>6, SelectedFinite, FS_Injection
<1>8. \A r \in Selected(q) : \E i \in 1..n : s[i] = r
  BY <1>7 DEF Surjection
<1> QED
  BY <1>3, <1>4, <1>8

\* Where nothing ties, the place of a product in an order is its rank.
LEMMA OrderRanks ==
  ASSUME TypeOK, query \in Queries, NoTies,
         NEW s \in Orders(query), NEW i \in 1..Len(s)
  PROVE  Rank(query, s[i]) = i - 1
<1> DEFINE front == [j \in 1..(i - 1) |-> s[j]]
<1>1. /\ s \in Seq(Selected(query)) /\ Len(s) \in Nat /\ DOMAIN s = 1..Len(s)
      /\ \A j, k \in 1..Len(s) : s[j] = s[k] => j = k
      /\ \A r \in Selected(query) : \E j \in 1..Len(s) : s[j] = r
  BY OrderLists, LenProperties
<1>2. \A j \in 1..Len(s) : s[j] \in Selected(query) /\ SortKey(query, s[j]) \in Int
  <2> TAKE j \in 1..Len(s)
  <2>1. s[j] \in Selected(query)
    BY <1>1, ElementOfSeq
  <2> QED
    BY <2>1, KeyType DEF Selected
<1>3. \A j, k \in 1..Len(s) : j < k => SortKey(query, s[j]) < SortKey(query, s[k])
  <2> TAKE j, k \in 1..Len(s)
  <2> HAVE j < k
  <2>1. s[j] # s[k] /\ SortKey(query, s[j]) <= SortKey(query, s[k])
    BY <1>1 DEF Orders
  <2> QED
    BY <2>1, <1>2 DEF NoTies
<1>4. \A j \in 1..(i - 1) : j \in 1..Len(s) /\ j < i /\ front[j] = s[j]
  BY <1>1
<1>5. front \in [1..(i - 1) -> Ahead(query, s[i])]
  BY <1>2, <1>3, <1>4 DEF Ahead
<1>6. \A j, k \in 1..(i - 1) : front[j] = front[k] => j = k
  BY <1>1, <1>4
<1>7. \A r \in Ahead(query, s[i]) : \E j \in 1..(i - 1) : front[j] = r
  <2> TAKE r \in Ahead(query, s[i])
  <2>1. r \in Selected(query) /\ SortKey(query, r) < SortKey(query, s[i])
    BY DEF Ahead
  <2>2. PICK j \in 1..Len(s) : s[j] = r
    BY <2>1, <1>1
  <2>3. ~(i <= j)
    BY <2>1, <2>2, <1>2, <1>3
  <2>4. j \in 1..(i - 1)
    BY <2>3, <1>1
  <2> QED
    BY <2>2, <2>4, <1>4
<1>8. front \in Bijection(1..(i - 1), Ahead(query, s[i]))
  BY <1>5, <1>6, <1>7, Fun_IsBij
<1>9. IsFiniteSet(1..(i - 1)) /\ Cardinality(1..(i - 1)) = i - 1
  <2> DEFINE m == i - 1
  <2>1. 1 \in Int /\ m \in Nat
    BY <1>1
  <2> HIDE DEF m
  <2>2. IsFiniteSet(1..m) /\ Cardinality(1..m) = IF 1 > m THEN 0 ELSE m - 1 + 1
    BY <2>1, FS_Interval
  <2>3. Cardinality(1..m) = m
    BY <2>1, <2>2
  <2> QED
    BY <2>2, <2>3 DEF m
<1> QED
  BY <1>8, <1>9, FS_Bijection DEF ExistsBijection, Rank

\* A page is a slice of an order.
LEMMA PageSlices ==
  ASSUME NEW q, NEW from \in Nat, NEW page \in Pages(q, from)
  PROVE  /\ page \in Seq(Selected(q)) /\ page \in Seq(ProductIds)
         /\ Len(page) = Larger(0, Smaller(Limit, Cardinality(Selected(q)) - from))
         /\ \E s \in Orders(q) : \A i \in 1..Len(s) :
              from < i /\ i <= from + Limit => s[i] \in Among(page)
<1>1. PICK s \in Orders(q) : page = SubSeq(s, from + 1, Smaller(from + Limit, Len(s)))
  BY DEF Pages
<1> DEFINE n == Len(s)
           last == Smaller(from + Limit, n)
<1>2. s \in Seq(Selected(q)) /\ n \in Nat /\ n = Cardinality(Selected(q))
  BY OrderLists, LenProperties
<1>3. last \in Int /\ last <= n /\ last <= from + Limit /\ (last = n \/ last = from + Limit)
  BY <1>2, PageAssumption DEF Smaller
<1>4. \A i \in (from + 1)..last : s[i] \in Selected(q)
  BY <1>2, <1>3, ElementOfSeq
<1>5. /\ page \in Seq(Selected(q))
      /\ Len(page) = IF from + 1 <= last THEN last - (from + 1) + 1 ELSE 0
      /\ \A i \in 1..(last - (from + 1) + 1) : page[i] = s[from + 1 + i - 1]
  BY <1>1, <1>3, <1>4, SubSeqProperties
<1>6. page \in Seq(ProductIds)
  BY <1>5, SelectedFinite, SeqMonotonic
<1>7. Len(page) = Larger(0, Smaller(Limit, Cardinality(Selected(q)) - from))
  BY <1>2, <1>5, PageAssumption DEF Larger, Smaller
<1>8. ASSUME NEW i \in 1..n, from < i, i <= from + Limit
      PROVE  s[i] \in Among(page)
  <2>1. i - from \in 1..Len(page) /\ from + 1 + (i - from) - 1 = i
    BY <1>2, <1>3, <1>5, <1>8, PageAssumption
  <2>2. page[i - from] = s[i]
    BY <2>1, <1>2, <1>3, <1>5, <1>8
  <2>3. DOMAIN page = 1..Len(page)
    BY <1>5, LenProperties
  <2> QED
    BY <2>1, <2>2, <2>3 DEF Among
<1> QED
  BY <1>5, <1>6, <1>7, <1>8
-----------------------------------------------------------------------------
(* The catalog changes.                                                    *)

LEMMA WriteTypes ==
  ASSUME LInv, NEW p \in ProductIds, WriteProduct(p)
  PROVE  /\ TypeOK'
         /\ \A r \in ProductIds : \A picture \in images'[r] :
              picture \in images[r] \/ picture = writes + 1
<1>1. PICK c \in Categories, b \in Bodies : Shop!Write(p, Row(p, c, b), {writes + 1})
  BY DEF WriteProduct
<1> DEFINE v == Row(p, c, b)
<1>2. v \in Values
  BY DEF Values
<1>3. writes \in Nat /\ writes + 1 \in Images /\ writes' = writes + 1 /\ writes' \in 0..MaxWrites
  BY PageAssumption DEF LInv, TypeOK, WriteProduct, Images
<1>4. /\ products \in [ProductIds -> Shop!Product \cup {None}]
      /\ images \in [ProductIds -> SUBSET Images]
      /\ created \in [ProductIds -> Times]
  BY DEF LInv, TypeOK
<1> HIDE DEF v
<1>5. CASE \E s \in Sellers : Shop!Create(p, s, v, {writes + 1})
  <2>1. PICK s \in Sellers : Shop!Create(p, s, v, {writes + 1})
    BY <1>5
  <2>2. [seller |-> s, values |-> v] \in Shop!Product
    BY <1>2 DEF Shop!Product
  <2>3. /\ products' = [products EXCEPT ![p] = [seller |-> s, values |-> v]]
        /\ images' = [images EXCEPT ![p] = {writes + 1}]
    BY <2>1 DEF Shop!Create
  <2> QED
    BY <2>2, <2>3, <1>3, <1>4
    DEF LInv, TypeOK, WriteProduct, answer
<1>6. CASE \E kept \in SUBSET images[p] : Shop!Update(p, v, kept, {writes + 1})
  <2>1. PICK kept \in SUBSET images[p] : Shop!Update(p, v, kept, {writes + 1})
    BY <1>6
  <2>2. /\ products[p] # None
        /\ products' = [products EXCEPT ![p].values = v]
        /\ images' = [images EXCEPT ![p] = kept \cup {writes + 1}]
    BY <2>1 DEF Shop!Update
  <2>3. products[p] \in Shop!Product
    BY <2>2, <1>4
  <2>4. [products[p] EXCEPT !.values = v] \in Shop!Product
    BY <2>3, <1>2 DEF Shop!Product
  <2>5. products' \in [ProductIds -> Shop!Product \cup {None}]
    BY <2>2, <2>4, <1>4
  <2>6. created' = created
    BY <2>2 DEF WriteProduct
  <2> QED
    BY <2>2, <2>5, <2>6, <1>3, <1>4 DEF LInv, TypeOK, WriteProduct, answer
<1> QED
  BY <1>1, <1>5, <1>6 DEF Shop!Write, v

\* A new product takes no other one off a list, and no rank falls.
LEMMA AddedOne ==
  ASSUME LInv, NEW p \in ProductIds, WriteProduct(p), products[p] = None, query \in Queries
  PROVE  /\ Selected(query) \subseteq Selected(query)'
         /\ NoTies' => NoTies
         /\ \A r \in Selected(query) :
              Rank(query, r)' \in Nat /\ Rank(query, r) <= Rank(query, r)'
<1>1. \A r \in Stored : r \in ProductIds /\ r # p
  BY DEF Stored, Shop!Stored
<1>2. PICK s \in Sellers, v \in Values :
        products' = [products EXCEPT ![p] = [seller |-> s, values |-> v]]
  BY DEF WriteProduct, Shop!Write, Shop!Create, Shop!Update, Values
<1>3. PICK t : created' = [created EXCEPT ![p] = t]
  BY DEF WriteProduct
<1>4. \A r \in Stored : /\ products'[r] = products[r] /\ created'[r] = created[r]
  BY <1>1, <1>2, <1>3 DEF LInv, TypeOK
<1>5. Stored \subseteq Stored' /\ query' = query
  BY <1>4 DEF Stored, Shop!Stored, WriteProduct
<1>6. \A r \in Stored : Matches(query, r)' = Matches(query, r)
                          /\ SortKey(query, r)' = SortKey(query, r)
  BY <1>4, <1>5 DEF Matches, SortKey
<1>7. Selected(query) \subseteq Selected(query)'
  BY <1>5, <1>6 DEF Selected
<1>8. \A r \in Selected(query) : SortKey(query, r)' = SortKey(query, r)
  BY <1>6 DEF Selected
<1>9. NoTies' => NoTies
  BY <1>7, <1>8 DEF NoTies
<1>10. ASSUME NEW r \in Selected(query)
       PROVE  Rank(query, r)' \in Nat /\ Rank(query, r) <= Rank(query, r)'
  <2>1. Ahead(query, r) \subseteq Ahead(query, r)'
    BY <1>7, <1>8 DEF Ahead
  <2>2. Ahead(query, r)' \in SUBSET ProductIds
    BY DEF Ahead, Selected, Stored, Shop!Stored
  <2>3. IsFiniteSet(Ahead(query, r)')
    BY <2>2, FiniteAssumption, FS_Subset
  <2>4. Cardinality(Ahead(query, r)) <= Cardinality(Ahead(query, r)')
    BY <2>1, <2>3, FS_Subset
  <2> QED
    BY <2>3, <2>4, FS_CardinalityType DEF Rank
<1> QED
  BY <1>7, <1>9, <1>10

LEMMA WriteStep ==
  ASSUME LInv, NEW p \in ProductIds, WriteProduct(p)
  PROVE  LInv'
<1>1. TypeOK' /\ TypeOK
  BY WriteTypes DEF LInv
<1>2. /\ writes' = writes + 1 /\ writes \in Nat /\ asOf' = asOf
      /\ asOf.writes \in Nat /\ asOf.writes <= writes
      /\ stage' = stage /\ query' = query /\ offset' = offset /\ items' = items
      /\ pictures' = pictures /\ total' = total /\ begun' = begun /\ seen' = seen
  BY DEF LInv, TypeOK, Local, WriteProduct, answer
<1>3. asOf'.writes # writes'
  BY <1>2
<1>4. Local'
  BY <1>2 DEF LInv, Local, Walking, NewSession, WriteProduct
<1>5. Fits' /\ PageFitsTotal'
  BY <1>3 DEF Fits, PageFitsTotal
<1>6. Younger'
  BY <1>2, WriteTypes DEF LInv, Younger
<1>7. NoDeletedImages'
  BY <1>2 DEF LInv, NoDeletedImages
<1>8. Counts'
  BY DEF Counts, WriteProduct
<1>9. ASSUME Walking', changes' \in {"none", "grown"}
      PROVE  /\ begun' \subseteq Selected(query)'
             /\ NoTies' =>
                 /\ stage' # "end" => \A r \in begun' : Rank(query, r)' < Reached' => r \in Shown'
                 /\ stage' = "answered" /\ offset' + Limit >= total' => begun' \subseteq Among(seen)'
                 /\ stage' = "end" => begun' \subseteq Among(seen)'
  <2>1. Walking /\ products[p] = None /\ changes \in {"none", "grown"}
    BY <1>2, <1>9 DEF Walking, WriteProduct, LInv, Local
  <2>2. query \in Queries
    BY <2>1 DEF LInv, Local
  <2>3. /\ Selected(query) \subseteq Selected(query)' /\ (NoTies' => NoTies)
        /\ \A r \in Selected(query) :
             Rank(query, r)' \in Nat /\ Rank(query, r) <= Rank(query, r)'
    BY <2>2, <2>1, AddedOne
  <2>4. /\ Reached' = Reached /\ Reached \in Nat
        /\ Shown' = Shown /\ Among(seen)' = Among(seen)
    BY <1>2, <2>1, PageAssumption DEF Reached, Shown, Among, LInv, Local
  <2>5. \A r : Rank(query, r) \in Nat
    BY RankType
  <2> QED
    BY <1>2, <2>1, <2>3, <2>4, <2>5 DEF LInv, Covers
<1>10. Covers'
  BY <1>9 DEF Covers
<1> QED
  BY <1>1, <1>4, <1>5, <1>6, <1>7, <1>8, <1>10 DEF LInv
-----------------------------------------------------------------------------
(* The client asks, and the request reads.                                 *)

\* While the catalog stands still, so does what a query selects, and its order.
LEMMA Standing ==
  ASSUME UNCHANGED catalog, NEW q, query' = q
  PROVE  /\ Selected(query)' = Selected(q)
         /\ \A r : Rank(query, r)' = Rank(q, r)
<1>1. Stored' = Stored
  BY DEF catalog, Stored, Shop!Stored
<1>2. \A r : /\ Matches(query, r)' = Matches(q, r)
             /\ SortKey(query, r)' = SortKey(q, r)
  BY DEF catalog, Matches, SortKey
<1>3. Selected(query)' = Selected(q)
  BY <1>1, <1>2 DEF Selected
<1>4. \A r : Ahead(query, r)' = Ahead(q, r)
  BY <1>2, <1>3 DEF Ahead
<1> QED
  BY <1>3, <1>4 DEF Rank

LEMMA StandingQuery ==
  ASSUME UNCHANGED <<catalog, query>>
  PROVE  /\ Selected(query)' = Selected(query)
         /\ \A r : Rank(query, r)' = Rank(query, r)
         /\ NoTies' = NoTies
<1>1. Stored' = Stored
  BY DEF catalog, Stored, Shop!Stored
<1>2. \A r : /\ Matches(query, r)' = Matches(query, r)
             /\ SortKey(query, r)' = SortKey(query, r)
  BY DEF catalog, Matches, SortKey
<1>3. Selected(query)' = Selected(query)
  BY <1>1, <1>2 DEF Selected
<1>4. \A r : Ahead(query, r)' = Ahead(query, r)
  BY <1>2, <1>3 DEF Ahead
<1> QED
  BY <1>2, <1>3, <1>4 DEF Rank, NoTies

\* What a reader leaves alone of the type invariant.
LEMMA CatalogTypes ==
  ASSUME LInv, UNCHANGED catalog
  PROVE  /\ products' \in [ProductIds -> Shop!Product \cup {None}]
         /\ images' \in [ProductIds -> SUBSET Images]
         /\ created' \in [ProductIds -> Times]
         /\ writes' = writes /\ writes \in 0..MaxWrites /\ writes \in Nat
BY DEF LInv, TypeOK, catalog

\* A request begins with nothing loaded.
LEMMA AskStep ==
  ASSUME LInv, NEW from \in Nat, Ask(from)
  PROVE  /\ query' \in Queries => TypeOK'
         /\ stage' = "page" /\ offset' = from /\ items' = <<>>
         /\ Walking' /\ UNCHANGED catalog
         /\ pictures' = NewSession'
         /\ asOf' \in [writes : Nat, images : SUBSET Images] /\ asOf'.writes <= writes'
         /\ Fits' /\ Younger' /\ PageFitsTotal' /\ NoDeletedImages'
<1>1. /\ stage' = "page" /\ offset' = from /\ items' = <<>> /\ total' = 0
      /\ pictures' = [p \in ProductIds |-> {}] /\ asOf' = Nothing
      /\ UNCHANGED catalog
  BY DEF Ask, NewSession
<1>2. asOf' \in [writes : Nat, images : SUBSET Images] /\ asOf'.writes <= writes'
  BY <1>1, CatalogTypes DEF Nothing
<1>3. <<>> \in Seq(ProductIds) /\ Len(<<>>) = 0
  BY EmptySeq
<1>4. Len(<<>>) <= Larger(Limit, 1) /\ 0 \in 0..Cardinality(ProductIds)
  BY <1>3, PageAssumption, FiniteAssumption, FS_CardinalityType DEF Larger
<1>5. query' \in Queries => TypeOK'
  BY <1>1, <1>3, <1>4, CatalogTypes DEF TypeOK, Reading
<1>6. Fits' /\ Younger' /\ PageFitsTotal' /\ NoDeletedImages'
  BY <1>1 DEF Fits, Younger, PageFitsTotal, NoDeletedImages
<1> QED
  BY <1>1, <1>2, <1>5, <1>6 DEF Walking, NewSession

LEMMA BrowseStep ==
  ASSUME LInv, NEW q \in Queries, Browse(q)
  PROVE  LInv'
<1>1. /\ Ask(0) /\ query' = q /\ begun' = Selected(q) /\ seen' = <<>> /\ changes' = "none"
  BY DEF Browse
<1>2. /\ TypeOK' /\ Fits' /\ Younger' /\ PageFitsTotal' /\ NoDeletedImages'
      /\ stage' = "page" /\ offset' = 0 /\ UNCHANGED catalog
      /\ pictures' = NewSession'
      /\ asOf' \in [writes : Nat, images : SUBSET Images] /\ asOf'.writes <= writes'
  BY <1>1, AskStep
<1>3. /\ Selected(query)' = Selected(q)
      /\ \A r : Rank(query, r)' \in Nat
  BY <1>1, <1>2, Standing, RankType
<1>4. Local'
  BY <1>1, <1>2, SelectedFinite DEF Local, Walking
<1>5. Covers'
  BY <1>1, <1>2, <1>3 DEF Covers, Reached
<1>6. Len(<<>>) = Smaller(0, Cardinality(Selected(q)))
  BY SelectedFinite DEF Smaller
<1>7. Counts'
  BY <1>1, <1>2, <1>3, <1>6 DEF Counts
<1> QED
  BY <1>2, <1>4, <1>5, <1>7 DEF LInv

LEMMA TurnStep ==
  ASSUME LInv, Turn
  PROVE  LInv'
<1>1. /\ stage = "answered" /\ Walking /\ query \in Queries /\ offset \in Nat
      /\ total \in Nat
  BY FiniteAssumption, FS_CardinalityType DEF Turn, Walking, LInv, Local, TypeOK
<1>2. UNCHANGED <<catalog, query, begun, seen, changes>>
  BY DEF Turn, Ask, walk
<1>3. /\ Selected(query)' = Selected(query) /\ NoTies' = NoTies
      /\ \A r : Rank(query, r)' = Rank(query, r) /\ Rank(query, r) \in Nat
  BY <1>2, StandingQuery, RankType
<1>4. begun \subseteq ProductIds
  BY DEF LInv, Local
<1>5. Cardinality(Selected(query)) \in Nat
  BY SelectedFinite, FiniteAssumption, FS_CardinalityType
<1>6. CASE offset + Limit < total
  <2>1. /\ offset + Limit \in Nat /\ Ask(offset + Limit)
    BY <1>1, <1>6, PageAssumption DEF Turn
  <2>2. /\ TypeOK' /\ Fits' /\ Younger' /\ PageFitsTotal' /\ NoDeletedImages'
        /\ stage' = "page" /\ offset' = offset + Limit
        /\ pictures' = NewSession'
        /\ asOf' \in [writes : Nat, images : SUBSET Images] /\ asOf'.writes <= writes'
    BY <1>1, <1>2, <2>1, AskStep
  <2>3. Local'
    BY <1>1, <1>2, <2>1, <2>2 DEF LInv, Local
  <2>4. Reached' = Reached /\ Shown' = Shown
    BY <1>1, <1>2, <2>2 DEF Reached, Shown, Among
  <2>5. Covers'
    BY <1>1, <1>2, <1>3, <2>2, <2>4 DEF LInv, Covers
  <2>6. Counts'
    BY <1>1, <1>2, <1>3, <2>2 DEF LInv, Counts
  <2> QED
    BY <2>2, <2>3, <2>5, <2>6 DEF LInv
<1>7. CASE ~(offset + Limit < total)
  <2>1. /\ stage' = "end" /\ UNCHANGED <<catalog, answer, query, offset, walk>>
    BY <1>7 DEF Turn
  <2>2. TypeOK'
    BY <2>1, CatalogTypes DEF LInv, TypeOK, answer
  <2>3. Local'
    BY <1>1, <1>2, <2>1, CatalogTypes DEF LInv, Local, answer
  <2>4. Fits' /\ Younger' /\ PageFitsTotal' /\ NoDeletedImages'
    BY <2>1 DEF Fits, Younger, PageFitsTotal, NoDeletedImages
  <2>5. Covers'
    BY <1>1, <1>2, <1>3, <1>7, <2>1, PageAssumption DEF LInv, Covers, Among
  <2>6. Counts'
    BY <1>1, <1>2, <1>3, <1>5, <1>7, <2>1, PageAssumption DEF LInv, Counts, Smaller
  <2> QED
    BY <2>2, <2>3, <2>4, <2>5, <2>6 DEF LInv
<1> QED
  BY <1>6, <1>7

\* What was shown before a page and what is on it covers its ranks.
LEMMA PageCovers ==
  ASSUME LInv, query \in Queries, offset \in Nat, NoTies,
         NEW page \in Pages(query, offset),
         NEW r \in Selected(query), Rank(query, r) < offset + Limit
  PROVE  Rank(query, r) < offset \/ r \in Among(page)
<1>1. TypeOK
  BY DEF LInv
<1>2. PICK s \in Orders(query) : \A i \in 1..Len(s) :
        offset < i /\ i <= offset + Limit => s[i] \in Among(page)
  BY PageSlices
<1>3. PICK i \in 1..Len(s) : s[i] = r
  BY OrderLists
<1>4. Rank(query, r) = i - 1
  BY <1>1, <1>3, OrderRanks
<1>5. i \in Int /\ Limit \in Int
  BY OrderLists, LenProperties, PageAssumption
<1> QED
  BY <1>2, <1>3, <1>4, <1>5

LEMMA PageStep ==
  ASSUME LInv, SelectPage
  PROVE  LInv'
<1>1. PICK page \in Pages(query, offset) : Read(page, "count")
  BY DEF SelectPage
<1>2. /\ stage = "page" /\ Walking /\ query \in Queries /\ offset \in Nat
      /\ pictures = NewSession
  BY DEF SelectPage, LInv, Local, Walking
<1>3. /\ items' = page /\ asOf' = [writes |-> writes, images |-> Shop!AllImages]
      /\ stage' = IF page = <<>> THEN "count" ELSE "images"
      /\ UNCHANGED <<catalog, query, begun, seen, changes, offset, pictures, total>>
  BY <1>1 DEF Read, SelectPage, walk
<1>4. /\ page \in Seq(ProductIds)
      /\ Len(page) = PageLength(Cardinality(Selected(query)))
  BY <1>2, PageSlices DEF PageLength
<1>5. /\ Selected(query)' = Selected(query) /\ NoTies' = NoTies
      /\ \A r : Rank(query, r)' = Rank(query, r) /\ Rank(query, r) \in Nat
  BY <1>3, StandingQuery, RankType
<1>6. Cardinality(Selected(query)) \in Nat
  BY SelectedFinite, FiniteAssumption, FS_CardinalityType
<1>7. Shop!AllImages \in SUBSET Images
  BY DEF Shop!AllImages, LInv, TypeOK
<1>8. TypeOK'
  <2>1. Len(page) <= Larger(Limit, 1)
    BY <1>2, <1>4, <1>6, PageAssumption DEF PageLength, Larger, Smaller
  <2> QED
    BY <1>3, <1>4, <2>1, CatalogTypes DEF LInv, TypeOK, Reading
<1>9. Local'
  BY <1>2, <1>3, <1>7, CatalogTypes DEF LInv, Local, NewSession
<1>10. Fits' /\ PageFitsTotal'
  BY <1>3, <1>4, <1>5 DEF Fits, PageFitsTotal, PageLength
<1>11. Younger'
  BY <1>3 DEF Younger, Shop!AllImages, catalog
<1>12. NoDeletedImages'
  BY <1>3 DEF NoDeletedImages
<1>13. Covers'
  <2>1. /\ Reached = offset /\ Reached' = offset + Limit
        /\ Shown = Among(seen) /\ Shown' = Among(seen) \cup Among(page)
    BY <1>2, <1>3 DEF Reached, Shown, Among
  <2>2. ASSUME changes \in {"none", "grown"}
        PROVE  begun \subseteq Selected(query)
    BY <1>2, <2>2 DEF LInv, Covers
  <2>3. ASSUME changes \in {"none", "grown"}, NoTies, NEW r \in begun,
               Rank(query, r) < offset + Limit
        PROVE  r \in Shown'
    <3>1. r \in Selected(query)
      BY <2>2, <2>3
    <3>2. Rank(query, r) < offset => r \in Among(seen)
      BY <1>2, <2>1, <2>3 DEF LInv, Covers
    <3> QED
      BY <1>2, <2>1, <2>3, <3>1, <3>2, PageCovers
  <2> QED
    BY <1>3, <1>5, <2>1, <2>2, <2>3 DEF Covers
<1>14. Counts'
  BY <1>2, <1>3, <1>5, CatalogTypes DEF LInv, Counts
<1> QED
  BY <1>8, <1>9, <1>10, <1>11, <1>12, <1>13, <1>14 DEF LInv

LEMMA GetStep ==
  ASSUME LInv, NEW p \in ProductIds, Get(p)
  PROVE  LInv'
<1> DEFINE page == IF p \in Stored THEN <<p>> ELSE <<>>
<1>1. /\ items' = page /\ asOf' = [writes |-> writes, images |-> Shop!AllImages]
      /\ stage' = IF page = <<>> THEN "not_found" ELSE "images"
      /\ offset' = None /\ pictures' = NewSession /\ total' = 0
      /\ query' = None /\ begun' = {} /\ seen' = <<>> /\ changes' = "none"
      /\ UNCHANGED catalog
  BY DEF Get, Read, NoWalk
<1>2. page \in Seq(ProductIds) /\ Len(page) <= 1
  OBVIOUS
<1> HIDE DEF page
<1>3. ~Walking'
  BY <1>1 DEF Walking
<1>4. Len(page) <= Larger(Limit, 1) /\ 0 \in 0..Cardinality(ProductIds)
  <2>1. Len(page) \in Nat
    BY <1>2, LenProperties
  <2> QED
    BY <1>2, <2>1, PageAssumption, FiniteAssumption, FS_CardinalityType DEF Larger
<1>5. TypeOK'
  BY <1>1, <1>2, <1>4, CatalogTypes DEF TypeOK, Reading, NewSession
<1>6. Shop!AllImages \in SUBSET Images
  BY DEF Shop!AllImages, LInv, TypeOK
<1>7. Local'
  <2>1. <<>> \in Seq(ProductIds)
    BY EmptySeq
  <2> QED
    BY <1>1, <1>3, <1>6, <2>1, CatalogTypes DEF Local, NewSession
<1>8. Younger'
  BY <1>1 DEF Younger, Shop!AllImages, catalog
<1>9. Fits' /\ Covers' /\ Counts'
  BY <1>3 DEF Fits, Covers, Counts
<1>10. PageFitsTotal' /\ NoDeletedImages'
  BY <1>1 DEF PageFitsTotal, NoDeletedImages
<1> QED
  BY <1>5, <1>7, <1>8, <1>9, <1>10 DEF LInv

\* The images are those stored now, hence none that was deleted before the page.
LEMMA ImagesStep ==
  ASSUME LInv, SelectImages
  PROVE  LInv'
<1>1. /\ stage = "images" /\ pictures = NewSession
      /\ stage' = IF offset = None THEN "got" ELSE "count"
      /\ pictures' = [p \in ProductIds |->
           IF \E i \in DOMAIN items : items[i] = p THEN images[p] ELSE {}]
      /\ UNCHANGED <<catalog, query, offset, items, total, asOf, begun, seen, changes>>
  BY DEF SelectImages, LInv, Local, NewSession, walk
<1>2. Walking' = Walking
  BY <1>1 DEF Walking
<1>3. /\ Selected(query)' = Selected(query) /\ NoTies' = NoTies
      /\ \A r : Rank(query, r)' = Rank(query, r)
  BY <1>1, StandingQuery
<1>4. TypeOK'
  BY <1>1, CatalogTypes DEF LInv, TypeOK, Reading
<1>5. Local'
  BY <1>1, <1>2, CatalogTypes DEF LInv, Local
<1>6. Fits' /\ Younger' /\ PageFitsTotal'
  BY <1>1, <1>2, <1>3, CatalogTypes DEF LInv, Fits, Younger, PageFitsTotal, PageLength
<1>7. NoDeletedImages'
  <2>1. \A i \in DOMAIN items : items[i] \in ProductIds
    BY DEF LInv, TypeOK
  <2> QED
    BY <1>1, <2>1 DEF NoDeletedImages, LInv, Younger
<1>8. Covers'
  <2>1. Reached' = Reached /\ Among(seen)' = Among(seen)
    BY <1>1 DEF Reached, Among
  <2>2. Walking => Shown' = Shown /\ stage' = "count"
    BY <1>1 DEF Shown, Among, Walking
  <2> QED
    BY <1>1, <1>2, <1>3, <2>1, <2>2 DEF LInv, Covers
<1>9. Counts'
  BY <1>1, <1>2, <1>3, CatalogTypes DEF LInv, Counts, Walking
<1> QED
  BY <1>4, <1>5, <1>6, <1>7, <1>8, <1>9 DEF LInv

LEMMA CountStep ==
  ASSUME LInv, SelectCount
  PROVE  LInv'
<1> DEFINE n == Cardinality(Selected(query))
<1>1. /\ stage = "count" /\ Walking /\ query \in Queries /\ offset \in Nat
      /\ total' = n /\ seen' = seen \o items /\ stage' = "answered"
      /\ UNCHANGED <<catalog, query, offset, items, pictures, asOf, begun, changes>>
  BY DEF SelectCount, Counted, LInv, Local, Walking
<1>2. /\ Selected(query)' = Selected(query) /\ NoTies' = NoTies
      /\ \A r : Rank(query, r)' = Rank(query, r) /\ Rank(query, r) \in Nat
  BY <1>1, StandingQuery, RankType
<1>3. n \in Nat /\ n \in 0..Cardinality(ProductIds)
  BY SelectedFinite, FiniteAssumption, FS_CardinalityType
<1>4. /\ seen \in Seq(ProductIds) /\ items \in Seq(ProductIds)
      /\ seen' \in Seq(ProductIds) /\ Len(seen') = Len(seen) + Len(items)
      /\ Len(seen) \in Nat /\ Len(items) \in Nat
  BY <1>1, ConcatProperties, LenProperties DEF LInv, TypeOK, Local
<1>5. Among(seen)' = Among(seen) \cup Among(items)
  <2>1. /\ DOMAIN seen = 1..Len(seen) /\ DOMAIN items = 1..Len(items)
        /\ DOMAIN seen' = 1..(Len(seen) + Len(items))
    BY <1>4, LenProperties
  <2>2. \A i \in 1..(Len(seen) + Len(items)) :
          seen'[i] = IF i <= Len(seen) THEN seen[i] ELSE items[i - Len(seen)]
    BY <1>1, <1>4, ConcatProperties
  <2>3. ASSUME NEW i \in DOMAIN seen
        PROVE  seen[i] \in Among(seen)'
    BY <1>4, <2>1, <2>2 DEF Among
  <2>4. ASSUME NEW i \in DOMAIN items
        PROVE  items[i] \in Among(seen)'
    <3>1. Len(seen) + i \in DOMAIN seen' /\ seen'[Len(seen) + i] = items[i]
      BY <1>4, <2>1, <2>2
    <3> QED
      BY <3>1 DEF Among
  <2>5. ASSUME NEW i \in DOMAIN seen'
        PROVE  seen'[i] \in Among(seen) \cup Among(items)
    <3>1. CASE i <= Len(seen)
      BY <1>4, <2>1, <2>2, <3>1 DEF Among
    <3>2. CASE ~(i <= Len(seen))
      <4>1. i - Len(seen) \in DOMAIN items /\ seen'[i] = items[i - Len(seen)]
        BY <1>4, <2>1, <2>2, <3>2
      <4> QED
        BY <4>1 DEF Among
    <3> QED
      BY <3>1, <3>2
  <2> QED
    BY <2>3, <2>4, <2>5 DEF Among
<1>6. TypeOK'
  BY <1>1, <1>3, CatalogTypes DEF LInv, TypeOK
<1>7. Local'
  BY <1>1, <1>4, CatalogTypes DEF LInv, Local
<1>8. Fits' /\ Younger'
  BY <1>1 DEF Fits, Younger
<1>9. PageFitsTotal'
  BY <1>1, CatalogTypes DEF LInv, Fits, PageFitsTotal, PageLength
<1>10. NoDeletedImages'
  BY <1>1 DEF LInv, NoDeletedImages
<1>11. Covers'
  <2>1. /\ Reached' = Reached /\ Reached = offset + Limit
        /\ Shown' = Shown /\ Shown = Among(seen)'
    BY <1>1, <1>5 DEF Reached, Shown
  <2>2. ASSUME changes \in {"none", "grown"}
        PROVE  /\ begun \subseteq Selected(query)
               /\ NoTies => \A r \in begun : Rank(query, r) < Reached => r \in Shown
    BY <1>1, <2>2 DEF LInv, Covers
  <2>3. \A r \in Selected(query) : Rank(query, r) < n
    BY <1>1, RankBelow DEF LInv
  <2>4. ASSUME changes \in {"none", "grown"}, NoTies, offset + Limit >= n
        PROVE  begun \subseteq Among(seen)'
    BY <1>1, <1>2, <1>3, <2>1, <2>2, <2>3, <2>4, PageAssumption
  <2> QED
    BY <1>1, <1>2, <2>1, <2>2, <2>4 DEF Covers
<1>12. Counts'
  <2>1. ASSUME changes = "none"
        PROVE  /\ begun = Selected(query) /\ asOf.writes = writes
               /\ Len(seen) = Smaller(offset, n) /\ Len(items) = PageLength(n)
    BY <1>1, <2>1 DEF LInv, Counts, Fits
  <2>2. Smaller(offset, n) + PageLength(n) = Smaller(offset + Limit, n)
    BY <1>1, <1>3, PageAssumption DEF PageLength, Smaller, Larger
  <2> QED
    BY <1>1, <1>2, <1>4, <2>1, <2>2 DEF Counts
<1> QED
  BY <1>6, <1>7, <1>8, <1>9, <1>10, <1>11, <1>12 DEF LInv

LEMMA GiveUpStep ==
  ASSUME LInv, GiveUp
  PROVE  LInv'
<1>1. /\ stage' = "idle" /\ offset' = 0 /\ items' = <<>> /\ total' = 0 /\ asOf' = Nothing
      /\ pictures' = [p \in ProductIds |-> {}]
      /\ query' = None /\ begun' = {} /\ seen' = <<>> /\ changes' = "none"
      /\ UNCHANGED catalog
  BY DEF GiveUp, NewSession, NoWalk
<1>2. <<>> \in Seq(ProductIds) /\ Len(<<>>) = 0
  BY EmptySeq
<1>3. Len(<<>>) <= Larger(Limit, 1) /\ 0 \in 0..Cardinality(ProductIds)
  BY <1>2, PageAssumption, FiniteAssumption, FS_CardinalityType DEF Larger
<1>4. TypeOK'
  BY <1>1, <1>2, <1>3, CatalogTypes DEF TypeOK
<1>5. Local'
  BY <1>1, <1>2, CatalogTypes DEF Local, Walking, Nothing
<1>6. Fits' /\ Younger' /\ Covers' /\ Counts' /\ PageFitsTotal' /\ NoDeletedImages'
  BY <1>1 DEF Fits, Younger, Covers, Counts, PageFitsTotal, NoDeletedImages, Walking
<1> QED
  BY <1>4, <1>5, <1>6 DEF LInv

LEMMA StutterStep ==
  ASSUME LInv, UNCHANGED vars
  PROVE  LInv'
<1>1. /\ UNCHANGED <<catalog, stage, query, offset, items, pictures, total, asOf>>
      /\ UNCHANGED <<begun, seen, changes>>
  BY DEF vars, answer, walk
<1>2. /\ Selected(query)' = Selected(query) /\ NoTies' = NoTies
      /\ \A r : Rank(query, r)' = Rank(query, r)
  BY <1>1, StandingQuery
<1>3. TypeOK' /\ Local'
  BY <1>1, CatalogTypes DEF LInv, TypeOK, Local, Walking, NewSession
<1>4. Fits' /\ PageFitsTotal' /\ Counts'
  BY <1>1, <1>2, CatalogTypes DEF LInv, Fits, PageFitsTotal, Counts, Walking, PageLength
<1>5. Younger' /\ NoDeletedImages'
  BY <1>1 DEF LInv, Younger, NoDeletedImages, catalog
<1>6. Covers'
  BY <1>1, <1>2 DEF LInv, Covers, Walking, Reached, Shown, Among
<1> QED
  BY <1>3, <1>4, <1>5, <1>6 DEF LInv
-----------------------------------------------------------------------------
(* Theorems.                                                               *)

LEMMA InitStep == Init => LInv
<1> SUFFICES ASSUME Init PROVE LInv
  OBVIOUS
<1>1. /\ stage = "idle" /\ query = None /\ offset = 0 /\ items = <<>> /\ total = 0
      /\ pictures = [p \in ProductIds |-> {}] /\ asOf = Nothing
      /\ begun = {} /\ seen = <<>> /\ changes = "none" /\ writes = 0
  BY DEF Init
<1>2. <<>> \in Seq(ProductIds) /\ Len(<<>>) = 0
  BY EmptySeq
<1>3. Len(<<>>) <= Larger(Limit, 1) /\ 0 \in 0..Cardinality(ProductIds) /\ 0 \in 0..MaxWrites
  BY <1>2, PageAssumption, FiniteAssumption, FS_CardinalityType DEF Larger
<1>4. TypeOK
  BY <1>1, <1>2, <1>3 DEF Init, Shop!Init, TypeOK
<1>5. Local
  BY <1>1, <1>2 DEF Local, Walking, Nothing
<1>6. Fits /\ Younger /\ Covers /\ Counts /\ PageFitsTotal /\ NoDeletedImages
  BY <1>1 DEF Fits, Younger, Covers, Counts, PageFitsTotal, NoDeletedImages, Walking
<1> QED
  BY <1>4, <1>5, <1>6 DEF LInv

\* The inductive invariant.
THEOREM Invariance == Spec => []LInv
<1>1. LInv /\ [Next]_vars => LInv'
  BY WriteStep, GetStep, BrowseStep, TurnStep, PageStep, ImagesStep, CountStep,
     GiveUpStep, StutterStep DEF Next
<1> QED
  BY <1>1, InitStep, PTL DEF Spec

\* Columns and locals keep their types; a page has at most limit products.
THEOREM TypeCorrectness == Spec => []TypeOK
<1>1. LInv => TypeOK
  BY DEF LInv
<1> QED
  BY <1>1, Invariance, PTL

\* If nothing is written between the page and its count, the page is as long as
\* limit, offset and total together say (list_products and count_products).
THEOREM FittingPages == Spec => []PageFitsTotal
<1>1. LInv => PageFitsTotal
  BY DEF LInv
<1> QED
  BY <1>1, Invariance, PTL

\* Where no products tie, turning the pages to the total shows all that was there
\* at the beginning as long as products are only added, and exactly that as long
\* as nothing is written (LIMIT and OFFSET of list_products).
THEOREM CompleteWalks == Spec => []WalkIsComplete
<1>1. LInv => WalkIsComplete
  BY DEF LInv, WalkIsComplete, Covers, Counts, Walking, Among
<1> QED
  BY <1>1, Invariance, PTL

\* No answer shows an image that had been deleted when its products were read:
\* selectinload reads after the rows, into a session that has loaded nothing.
THEOREM CurrentImages == Spec => []NoDeletedImages
<1>1. LInv => NoDeletedImages
  BY DEF LInv
<1> QED
  BY <1>1, Invariance, PTL

\* The catalog that is read here is one that Catalog allows: what Products is
\* proved to implement is what Listing relies on.
THEOREM ReadsCatalog == Spec => Shop!Spec
<1>1. Init => Shop!Init
  BY DEF Init
<1>2. LInv /\ [Next]_vars => [Shop!Next]_(Shop!vars)
  <2> SUFFICES ASSUME LInv, [Next]_vars PROVE [Shop!Next]_(Shop!vars)
    OBVIOUS
  <2>1. ASSUME NEW p \in ProductIds, WriteProduct(p)
        PROVE  Shop!Next
    <3>1. PICK c \in Categories, b \in Bodies : Shop!Write(p, Row(p, c, b), {writes + 1})
      BY <2>1 DEF WriteProduct
    <3>2. Row(p, c, b) \in Values
      BY DEF Values
    <3>3. {writes + 1} \in SUBSET Images
      BY <2>1, PageAssumption DEF LInv, TypeOK, WriteProduct, Images
    <3> QED
      BY <3>1, <3>2, <3>3 DEF Shop!Next
  <2>2. ASSUME UNCHANGED catalog
        PROVE  UNCHANGED Shop!vars
    BY <2>2 DEF catalog, Shop!vars
  <2>3. CASE \E p \in ProductIds : Get(p)
    BY <2>2, <2>3 DEF Get, Read
  <2>4. CASE \E q \in Queries : Browse(q)
    BY <2>2, <2>4 DEF Browse, Ask
  <2>5. CASE Turn \/ SelectPage \/ SelectImages \/ SelectCount \/ GiveUp
    BY <2>2, <2>5 DEF Turn, Ask, SelectPage, Read, SelectImages, SelectCount, GiveUp
  <2>6. CASE UNCHANGED vars
    BY <2>2, <2>6 DEF vars
  <2> QED
    BY <2>1, <2>3, <2>4, <2>5, <2>6 DEF Next
<1> QED
  BY <1>1, <1>2, Invariance, PTL DEF Spec, Shop!Spec
=============================================================================
