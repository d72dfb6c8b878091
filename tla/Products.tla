------------------------------ MODULE Products ------------------------------
(***************************************************************************)
(* Creating and updating products with their images (services/catalog.py   *)
(* and repositories/product.py) over the tables products, product_images   *)
(* and the column is_active of categories.                                 *)
(*                                                                         *)
(* A request is one transaction at READ COMMITTED and a step is what it    *)
(* does between two awaits, or up to the next lock, on the database: reads *)
(* come first (the product and its images, the category, the slug, the     *)
(* SKU), then one flush writes the product row, its two index entries and  *)
(* the images.  Updates of one product take turns from the first write to  *)
(* the commit, unless they change images only; the reads they rely on are  *)
(* older than that.                                                        *)
(*                                                                         *)
(* An image is named by the request that stored it and the picture it      *)
(* shows: every request stores rows of its own.  The columns that decide   *)
(* nothing (name, description, prices, currency, is_active) are body.      *)
(* Categories change in transactions of update_category, of which only the *)
(* commit is seen here.  Requests that list or get products change nothing *)
(* and are left out.                                                       *)
(***************************************************************************)
EXTENDS FiniteSets, Naturals

CONSTANTS
  Requests,    \* the requests that may arrive, each at most once
  Existing,    \* products stored before the first of them
  Sellers,     \* the authenticated users
  Categories,
  Slugs, Skus, Bodies,
  Pictures,    \* image URLs
  MaxImages,   \* how many images a payload may have, 10 in the schema
  None         \* no row, no image, nothing written

ProductIds == Requests \cup Existing  \* a create's uuid4 is named by its request

\* How a request ends: 2xx, 4xx, an error of the database before the commit
\* (a 500), a crash or disconnect before it, an answer lost after it, or a
\* 500 after it.
Settled == {"ok", "rejected", "error", "failed", "lost", "unanswered"}
Underway == {"load", "load_images", "check_category", "check_slug", "check_sku",
             "lock_row", "enter_slug", "enter_sku", "images", "commit", "answer"}
Stages == {"idle"} \cup Underway \cup Settled

Values == [category : Categories, slug : Slugs, sku : Skus, body : Bodies]
Product == [seller : Sellers, values : Values]
Image == [by : ProductIds, picture : Pictures]
Payload == [values : Values,
            pictures : {p \in SUBSET Pictures : Cardinality(p) <= MaxImages}]

ASSUME DistinctAssumption == Requests \cap Existing = {}
ASSUME BoundAssumption == MaxImages \in Nat
ASSUME NoneAssumption ==
  None \notin ProductIds \cup Product \cup Values \cup Payload

VARIABLES
  products,  \* products[p]: the committed product p, or None
  images,    \* images[p]: its committed images
  active,    \* the categories that are active
  pc,        \* pc[r]: the stage request r has reached
  op,        \* op[r]: create or update
  seller,    \* seller[r]: the authenticated user
  target,    \* target[r]: the product in the path, for a create its own
  want,      \* want[r]: the validated payload
  alone,     \* history: nothing arrived or changed while a request was under way
  loaded,    \* loaded[r]: the values of the target as the session loaded them
  shown,     \* shown[r]: its images as the session loaded them
  draft,     \* draft[r]: the product as r has written it, not committed
  dropped    \* dropped[r]: the images r has deleted, not committed

database == <<products, images, active>>
request == <<op, seller, target, want, alone>>
transaction == <<loaded, shown, draft, dropped>>
vars == <<database, pc, request, transaction>>

Each(x) == [r \in Requests |-> x]

\* Products with different keys and a picture each, as creates make them.
Init ==
  /\ products \in [ProductIds -> Product \cup {None}]
  /\ \A p \in ProductIds : products[p] # None <=> p \in Existing
  /\ \A p, q \in Existing :
       p # q => /\ products[p].values.slug # products[q].values.slug
                /\ products[p].values.sku # products[q].values.sku
  /\ \E picture \in Pictures :
       images = [p \in ProductIds |->
                   IF p \in Existing THEN {[by |-> p, picture |-> picture]} ELSE {}]
  /\ active = Categories
  /\ pc = Each("idle") /\ op = Each("none") /\ seller = Each(None)
  /\ target = Each(None) /\ want = Each(None) /\ alone = TRUE
  /\ loaded = Each(None) /\ shown = Each({})
  /\ draft = Each(None) /\ dropped = Each({})

-----------------------------------------------------------------------------
(* What a statement sees, writes and waits for.                            *)

Stored == {p \in ProductIds : products[p] # None}

\* Mutant: the product is looked up by its id alone.
VisibleToAnyone(r, p) == p # None /\ products[p] # None

\* The WHERE clause of get_for_seller.
Visible(r, p) == p # None /\ products[p] # None /\ products[p].seller = seller[r]

\* Mutant: only the slug is looked up, the unique index is to catch the SKU.
SlugExistsOnly(r, column) ==
  /\ column = "slug"
  /\ \E p \in ProductIds \ (IF op[r] = "update" THEN {target[r]} ELSE {}) :
       products[p] # None /\ products[p].values[column] = want[r].values[column]

\* slug_exists and sku_exists: column is "slug" or "sku".
Exists(r, column) ==
  \E p \in ProductIds \ (IF op[r] = "update" THEN {target[r]} ELSE {}) :
    products[p] # None /\ products[p].values[column] = want[r].values[column]

\* setattr marks the columns that differ from the image, and no other.
Flushed(r, row) ==
  [row EXCEPT !.values =
    [column \in DOMAIN @ |-> IF want[r].values[column] # loaded[r][column]
                               THEN want[r].values[column] ELSE @[column]]]

Dirty(r) == want[r].values # loaded[r]

\* Mutant: create_product does not set seller_id.
WrittenWithoutSeller(r) == IF op[r] = "create"
                             THEN [seller |-> None, values |-> want[r].values]
                             ELSE draft[r]

\* The row r is about to store.
Written(r) == IF op[r] = "create"
                THEN [seller |-> seller[r], values |-> want[r].values]
                ELSE draft[r]

\* A row that is being updated does not change in the table before the end.
Updating(r) == op[r] = "update" /\ draft[r] # None
Before(r) == products[target[r]]
NewKey(r, column) ==
  \/ op[r] = "create"
  \/ Updating(r) /\ draft[r].values[column] # Before(r).values[column]

\* The column whose index entry is made at a stage, and the stages after it.
Column == [enter_slug |-> "slug", enter_sku |-> "sku"]
Entered(column) == {"images", "commit"} \cup IF column = "slug" THEN {"enter_sku"} ELSE {}

\* q has stored the key v in the index, or has yet to give it up, uncommitted.
Contests(q, column, v) ==
  \/ /\ pc[q] \in Entered(column) /\ NewKey(q, column)
     /\ Written(q).values[column] = v
  \/ Updating(q) /\ NewKey(q, column) /\ Before(q).values[column] = v

\* Mutant: only the index on slug is unique.
TakenSlug(r, column) ==
  /\ column = "slug"
  /\ \E p \in ProductIds \ {target[r]} :
       products[p] # None /\ products[p].values[column] = Written(r).values[column]

Taken(r, column) ==
  \E p \in ProductIds \ {target[r]} :
    products[p] # None /\ products[p].values[column] = Written(r).values[column]

NewImages(r) == {[by |-> r, picture |-> p] : p \in want[r].pictures}

\* An UPDATE locks its row, more strongly if it changes a key; the INSERT of
\* an image shares the lock of its product, by the foreign key check.
Locks(q, p) == Updating(q) /\ target[q] = p
LocksKey(q, p) == Locks(q, p) /\ (NewKey(q, "slug") \/ NewKey(q, "sku"))
Shares(q, p) == pc[q] = "commit" /\ target[q] = p /\ want[q].pictures # {}

ChangesKey(r) ==
  \E column \in {"slug", "sku"} :
    Flushed(r, Before(r)).values[column] # Before(r).values[column]

\* r waits for the end of q.
Blocks(q, r) ==
  /\ q # r
  /\ \/ /\ pc[r] = "lock_row"
        /\ Locks(q, target[r]) \/ (Shares(q, target[r]) /\ ChangesKey(r))
     \/ /\ pc[r] \in DOMAIN Column
        /\ NewKey(r, Column[pc[r]])
        /\ Contests(q, Column[pc[r]], Written(r).values[Column[pc[r]]])
     \/ /\ pc[r] = "images"
        /\ \/ LocksKey(q, target[r]) /\ want[r].pictures # {}
           \/ dropped[q] \cap shown[r] # {}

Free(r) == \A q \in Requests : ~Blocks(q, r)

-----------------------------------------------------------------------------
(* A request arrives, moves on, or loses its transaction.                  *)

GoTo(r, stage) == pc' = [pc EXCEPT ![r] = stage]

Arrive(r, o, s, p, w, stage) ==
  /\ pc[r] = "idle"
  /\ alone' = (alone /\ \A q \in Requests : pc[q] \notin Underway)
  /\ op' = [op EXCEPT ![r] = o]
  /\ seller' = [seller EXCEPT ![r] = s]
  /\ target' = [target EXCEPT ![r] = p]
  /\ want' = [want EXCEPT ![r] = w]
  /\ GoTo(r, stage)
  /\ UNCHANGED <<database, transaction>>

StartCreate(r, s, w) == Arrive(r, "create", s, r, w, "check_category")
StartUpdate(r, s, p, w) == Arrive(r, "update", s, p, w, "load")

Proceed(r, stage) ==
  /\ GoTo(r, stage)
  /\ UNCHANGED <<database, request, transaction>>

\* The session is closed and its transaction rolls back.
RollBack(r, end) ==
  /\ GoTo(r, end)
  /\ draft' = [draft EXCEPT ![r] = None]
  /\ dropped' = [dropped EXCEPT ![r] = {}]
  /\ UNCHANGED <<database, request, loaded, shown>>

-----------------------------------------------------------------------------
(* The statements of a request.                                            *)

Load(r) ==
  /\ pc[r] = "load"
  /\ IF Visible(r, target[r])
       THEN /\ loaded' = [loaded EXCEPT ![r] = products[target[r]].values]
            /\ GoTo(r, "load_images")
            /\ UNCHANGED <<database, request, shown, draft, dropped>>
       ELSE Proceed(r, "rejected")

\* selectinload is a SELECT of its own.
LoadImages(r) ==
  /\ pc[r] = "load_images"
  /\ shown' = [shown EXCEPT ![r] = images[target[r]]]
  /\ GoTo(r, "check_category")
  /\ UNCHANGED <<database, request, loaded, draft, dropped>>

\* Mutant: the category is looked up, but not whether it is active.
CheckCategoryStored(r) ==
  /\ pc[r] = "check_category"
  /\ Proceed(r, "check_slug")

CheckCategory(r) ==
  /\ pc[r] = "check_category"
  /\ Proceed(r, IF want[r].values.category \in active
                  THEN "check_slug" ELSE "rejected")

CheckSlug(r) ==
  /\ pc[r] = "check_slug"
  /\ Proceed(r, IF Exists(r, "slug") THEN "rejected" ELSE "check_sku")

\* The flush of an update writes the product row only if a column differs.
CheckSku(r) ==
  /\ pc[r] = "check_sku"
  /\ Proceed(r, IF Exists(r, "sku") THEN "rejected"
                ELSE IF op[r] = "create" THEN "enter_slug"
                ELSE IF Dirty(r) THEN "lock_row"
                ELSE "images")

\* The UPDATE locks the row and applies to the version committed last.
LockRow(r) ==
  /\ pc[r] = "lock_row"
  /\ Free(r)
  /\ draft' = [draft EXCEPT ![r] = Flushed(r, Before(r))]
  /\ GoTo(r, "enter_slug")
  /\ UNCHANGED <<database, request, loaded, shown, dropped>>

\* The INSERT or UPDATE makes its entries in the two unique indexes.
EnterKey(r) ==
  /\ pc[r] \in DOMAIN Column
  /\ Free(r)
  /\ IF NewKey(r, Column[pc[r]]) /\ Taken(r, Column[pc[r]])
       THEN RollBack(r, "error")
       ELSE /\ draft' = [draft EXCEPT ![r] = Written(r)]
            /\ GoTo(r, IF pc[r] = "enter_slug" THEN "enter_sku" ELSE "images")
            /\ UNCHANGED <<database, request, loaded, shown, dropped>>

\* Mutant: the images of the payload are added to those there are.
AddImages(r) ==
  /\ pc[r] = "images"
  /\ Free(r)
  /\ Proceed(r, "commit")

\* The flush inserts the images of the payload and deletes those the session
\* has loaded; a DELETE that finds no row is a warning, and goes on.
ReplaceImages(r) ==
  /\ pc[r] = "images"
  /\ Free(r)
  /\ dropped' = [dropped EXCEPT ![r] = shown[r] \cap images[target[r]]]
  /\ GoTo(r, "commit")
  /\ UNCHANGED <<database, request, loaded, shown, draft>>

Commit(r) ==
  /\ pc[r] = "commit"
  /\ products' = IF draft[r] = None THEN products
                 ELSE [products EXCEPT ![target[r]] = draft[r]]
  /\ images' = [images EXCEPT ![target[r]] = (@ \ dropped[r]) \cup NewImages(r)]
  /\ draft' = [draft EXCEPT ![r] = None]
  /\ dropped' = [dropped EXCEPT ![r] = {}]
  /\ GoTo(r, "answer")
  /\ UNCHANGED <<active, request, loaded, shown>>

\* The database computes updated_at: it expires in the session when the flush
\* emits an UPDATE of the row, and update refreshes the images only.
UpdatedAtExpired(r) == op[r] = "update" /\ Dirty(r)

\* Reading an expired column takes a query, which an access without an await
\* cannot make.
Answer(r) ==
  /\ pc[r] = "answer"
  /\ \/ Proceed(r, IF UpdatedAtExpired(r) THEN "unanswered" ELSE "ok")
     \/ Proceed(r, "lost")

\* A crash, a disconnect or a lost database connection before the commit, or
\* a circle of waits that the database breaks by failing r.
Abort(r) ==
  /\ pc[r] \in Underway \ {"answer"}
  /\ RollBack(r, "failed")

-----------------------------------------------------------------------------
(* The rest of the catalog.                                                *)

\* update_category commits another is_active.
SetActive(c) ==
  /\ alone' = (alone /\ \A q \in Requests : pc[q] \notin Underway)
  /\ active' = IF c \in active THEN active \ {c} ELSE active \cup {c}
  /\ UNCHANGED <<products, images, pc, op, seller, target, want, transaction>>

AllSettled ==
  /\ \A r \in Requests : pc[r] \in Settled
  /\ UNCHANGED vars

\* The server generates the ids: a client knows those of stored products, or
\* names one that is no product's.
Starts(r) ==
  \E s \in Sellers, w \in Payload :
    \/ StartCreate(r, s, w)
    \/ \E p \in Stored \cup {None} : StartUpdate(r, s, p, w)

Advance(r) ==
  \/ Load(r) \/ LoadImages(r) \/ CheckCategory(r) \/ CheckSlug(r) \/ CheckSku(r)
  \/ LockRow(r) \/ EnterKey(r) \/ ReplaceImages(r) \/ Commit(r) \/ Answer(r)

Next ==
  \/ \E r \in Requests : Starts(r) \/ Advance(r) \/ Abort(r)
  \/ \E c \in Categories : SetActive(c)
  \/ AllSettled

Spec == Init /\ [][Next]_vars
-----------------------------------------------------------------------------
(* Properties.                                                             *)

\* Every column and every local of a request keeps its type.
TypeOK ==
  /\ products \in [ProductIds -> Product \cup {None}]
  /\ images \in [ProductIds -> SUBSET Image]
  /\ active \subseteq Categories
  /\ pc \in [Requests -> Stages]
  /\ op \in [Requests -> {"none", "create", "update"}]
  /\ seller \in [Requests -> Sellers \cup {None}]
  /\ target \in [Requests -> ProductIds \cup {None}]
  /\ want \in [Requests -> Payload \cup {None}]
  /\ alone \in BOOLEAN
  /\ loaded \in [Requests -> Values \cup {None}]
  /\ shown \in [Requests -> SUBSET Image]
  /\ draft \in [Requests -> Product \cup {None}]
  /\ dropped \in [Requests -> SUBSET Image]

Commits(r) == pc[r] = "commit" /\ pc'[r] = "answer"

\* No two products share a slug or a SKU, also when creates and updates pass
\* slug_exists and sku_exists together.
UniqueKeys ==
  \A p, q \in Stored, column \in {"slug", "sku"} :
    products[p].values[column] = products[q].values[column] => p = q

\* "A seller should not be able to update another seller's product": only a
\* commit of its seller changes a product or its images, and a product never
\* changes hands.
OnlySellerWrites ==
  [][\A p \in Stored :
       products'[p] # products[p] \/ images'[p] # images[p] =>
         /\ \E r \in Requests : /\ Commits(r)
                                /\ seller[r] = products[p].seller
         /\ products'[p].seller = products[p].seller]_vars

\* As long as requests take turns, the checks of _validate_product foresee
\* every constraint of the table: a conflict is answered 404 or 409, never 500.
ConflictsAreRefused == alone => \A r \in Requests : pc[r] # "error"

\* As long as requests take turns, what a commit stores is the payload, and
\* of the images the product had before none is left.
StoresPayload ==
  [][\A r \in Requests :
       alone /\ Commits(r) =>
         /\ products'[target[r]].values = want[r].values
         /\ images'[target[r]] = NewImages(r)]_vars

\* However requests overlap, a reader of the tables sees whole products come
\* and change one at a time, under keys of their own and with their seller;
\* as long as requests take turns, created under active categories and with
\* none of their older images left.
PublicCatalog ==
  INSTANCE Catalog WITH exclusive <- alone, Images <- Image
RefinesCatalog == PublicCatalog!Spec

\* An update that has committed is answered with the product: it does not
\* end in a 500 that tells the seller it has failed.
UpdatesAreAnswered == \A r \in Requests : pc[r] # "unanswered"
=============================================================================
