--------------------------- MODULE ProductsProofs ---------------------------
(***************************************************************************)
(* Proofs about Products.  PInv says what a request knows of the product   *)
(* it has loaded, checked and written, that a row has one writer, and that *)
(* keys which are in an index but not committed differ from each other and *)
(* from every other product's; it is inductive.  InTurn adds what is true  *)
(* as long as requests take turns: then the checks of _validate_product    *)
(* are enough, and the images a session has loaded are those there are.    *)
(***************************************************************************)
EXTENDS Products, TLAPS

Keys == {"slug", "sku"}
Over == {"answer", "ok", "lost", "unanswered"}   \* the stages after the commit
Checked == {"lock_row", "enter_slug", "enter_sku", "images", "commit"}

\* What a request was asked, and where that has led it.
Asked(r) ==
  /\ pc[r] # "idle" =>
       op[r] # "none" /\ want[r] \in Payload /\ seller[r] \in Sellers
  /\ op[r] = "create" =>
       target[r] = r /\ pc[r] \notin {"load", "load_images", "lock_row"}
  /\ op[r] = "create" /\ products[r] # None => pc[r] \in Over
  /\ products[r] # None => op[r] = "create"

\* An update has found its product, of its own seller.
Found(r) ==
  /\ op[r] = "update" /\ pc[r] \in Checked \cup {"load_images", "check_category",
                                                 "check_slug", "check_sku"} =>
       /\ target[r] \in Stored
       /\ products[target[r]].seller = seller[r]
       /\ loaded[r] # None
  /\ op[r] # "update" \/ pc[r] = "idle" => shown[r] = {}

\* What r is about to store, made from the row as it still is.
Drafted(r) ==
  /\ draft[r] # None => pc[r] \in {"enter_slug", "enter_sku", "images", "commit"}
  /\ dropped[r] # {} => pc[r] = "commit"
  /\ op[r] = "create" /\ draft[r] # None =>
       pc[r] # "enter_slug" /\ draft[r] = Written(r)
  /\ pc[r] = "enter_sku" => draft[r] # None
  /\ pc[r] \in {"images", "commit"} /\ op[r] = "create" => draft[r] # None
  /\ pc[r] = "enter_slug" /\ op[r] = "update" => draft[r] # None
  /\ Updating(r) => draft[r] = Flushed(r, Before(r))

\* r has entered a new key in the index of a column.
Claims(r, column) == pc[r] \in Entered(column) /\ NewKey(r, column)

PerRequest(r) ==
  /\ Asked(r) /\ Found(r) /\ Drafted(r)
  /\ \A column \in Keys : Claims(r, column) => ~Taken(r, column)

\* A row has one writer, and no key is claimed twice.
Apart(r, q) ==
  /\ Updating(r) /\ Updating(q) => target[r] # target[q]
  /\ \A column \in Keys :
       Claims(r, column) /\ Claims(q, column) =>
         Written(r).values[column] # Written(q).values[column]

\* Images belong to stored products.
ImagesOfProducts == \A p \in ProductIds \ Stored : images[p] = {}

\* Images of a request come with its commit.
Provenance ==
  \A p \in ProductIds : \A i \in images[p] : i.by \in Requests => pc[i.by] \in Over

PInv ==
  /\ TypeOK
  /\ UniqueKeys
  /\ ImagesOfProducts
  /\ Provenance
  /\ \A r \in Requests : PerRequest(r)
  /\ \A r, q \in Requests : r # q => Apart(r, q)

\* As long as requests take turns, the image of r is the row, the keys it was
\* granted are still free, what it writes is the payload, and the images it
\* has loaded are all there are.
UpToDate(r) ==
  /\ pc[r] # "error"
  /\ op[r] = "update" /\ pc[r] \in {"load_images", "check_category", "check_slug",
                                    "check_sku", "lock_row"} =>
       loaded[r] = Before(r).values
  /\ pc[r] \in {"check_sku", "lock_row", "enter_slug"} => ~Exists(r, "slug")
  /\ pc[r] \in {"lock_row", "enter_slug", "enter_sku"} => ~Exists(r, "sku")
  /\ draft[r] # None => draft[r].values = want[r].values
  /\ pc[r] \in {"images", "commit"} /\ draft[r] = None =>
       Before(r).values = want[r].values
  /\ pc[r] \in Checked \cup {"check_slug", "check_sku"} =>
       want[r].values.category \in active
  /\ pc[r] \in Checked \cup {"check_category", "check_slug", "check_sku"} =>
       shown[r] = images[target[r]]
  /\ pc[r] = "commit" => dropped[r] = images[target[r]]

OneAtATime == \A r, q \in Requests : pc[r] \in Underway /\ pc[q] \in Underway => r = q

InTurn == alone => OneAtATime /\ \A r \in Requests : UpToDate(r)
-----------------------------------------------------------------------------
LEMMA Sentinels ==
  /\ None \notin ProductIds /\ None \notin Product /\ None \notin Values
  /\ None \notin Payload /\ Requests \subseteq ProductIds
BY NoneAssumption DEF ProductIds

LEMMA Columns ==
  ASSUME NEW v \in Values
  PROVE  /\ DOMAIN v = {"category", "slug", "sku", "body"}
         /\ v["category"] = v.category /\ v["slug"] = v.slug /\ v["sku"] = v.sku
         /\ v["body"] = v.body
         /\ v.category \in Categories /\ v.slug \in Slugs /\ v.sku \in Skus /\ v.body \in Bodies
BY DEF Values

LEMMA FromColumns ==
  ASSUME NEW f, f = [column \in {"category", "slug", "sku", "body"} |-> f[column]],
         f["category"] \in Categories, f["slug"] \in Slugs, f["sku"] \in Skus,
         f["body"] \in Bodies
  PROVE  f \in Values
BY DEF Values

LEMMA FlushedIsProduct ==
  ASSUME NEW r \in Requests, NEW row \in Product, want[r] \in Payload, loaded[r] \in Values
  PROVE  /\ Flushed(r, row) \in Product
         /\ Flushed(r, row).seller = row.seller
         /\ \A column \in {"category", "slug", "sku", "body"} :
              Flushed(r, row).values[column] =
                IF want[r].values[column] # loaded[r][column]
                  THEN want[r].values[column] ELSE row.values[column]
<1> DEFINE v == [column \in {"category", "slug", "sku", "body"} |->
                   IF want[r].values[column] # loaded[r][column]
                     THEN want[r].values[column] ELSE row.values[column]]
<1>1. /\ row.values \in Values /\ row.seller \in Sellers /\ want[r].values \in Values
      /\ row = [seller |-> row.seller, values |-> row.values]
  BY DEF Product, Payload
<1>2. v \in Values
  <2>1. /\ row.values["category"] \in Categories /\ want[r].values["category"] \in Categories
        /\ row.values["slug"] \in Slugs /\ want[r].values["slug"] \in Slugs
        /\ row.values["sku"] \in Skus /\ want[r].values["sku"] \in Skus
        /\ row.values["body"] \in Bodies /\ want[r].values["body"] \in Bodies
    BY <1>1, Columns
  <2> QED
    BY <2>1, FromColumns
<1>3. DOMAIN row.values = {"category", "slug", "sku", "body"}
  BY <1>1, Columns
<1>4. Flushed(r, row) = [seller |-> row.seller, values |-> v]
  BY <1>1, <1>3 DEF Flushed, Product
<1>5. Flushed(r, row).values = v /\ Flushed(r, row).seller = row.seller
  BY <1>4
<1>6. Flushed(r, row) \in Product
  BY <1>1, <1>2, <1>4 DEF Product
<1> QED
  BY <1>5, <1>6
-----------------------------------------------------------------------------
(* A step of r leaves what concerns the others alone.                      *)

Same(q) ==
  /\ pc'[q] = pc[q] /\ op'[q] = op[q] /\ seller'[q] = seller[q]
  /\ target'[q] = target[q] /\ want'[q] = want[q] /\ loaded'[q] = loaded[q]
  /\ shown'[q] = shown[q] /\ draft'[q] = draft[q] /\ dropped'[q] = dropped[q]

\* While the table stands still, what r knows depends on r alone.
LEMMA Congruence ==
  ASSUME products' = products, NEW q \in Requests, Same(q)
  PROVE  /\ PerRequest(q) => PerRequest(q)'
         /\ Updating(q)' = Updating(q) /\ Written(q)' = Written(q)
         /\ \A column \in Keys : Claims(q, column)' = Claims(q, column)
<1> USE DEF Same
<1>1. /\ Updating(q)' = Updating(q) /\ Written(q)' = Written(q) /\ Before(q)' = Before(q)
      /\ Stored' = Stored
  BY DEF Updating, Written, Before, Stored
<1>2. ASSUME NEW column \in Keys
      PROVE  Claims(q, column)' = Claims(q, column) /\ Taken(q, column)' = Taken(q, column)
  <2>1. NewKey(q, column)' = NewKey(q, column)
    BY <1>1 DEF NewKey
  <2> QED
    BY <1>1, <2>1 DEF Claims, Taken
<1>3. Asked(q) => Asked(q)'
  BY DEF Asked
<1>4. Found(q) => Found(q)'
  BY <1>1 DEF Found
<1>5. Drafted(q) => Drafted(q)'
  <2>1. Flushed(q, Before(q))' = Flushed(q, Before(q))
    BY <1>1 DEF Flushed
  <2> QED
    BY <1>1, <2>1 DEF Drafted
<1> QED
  BY <1>1, <1>2, <1>3, <1>4, <1>5 DEF PerRequest

\* Steps that write no committed row: it is enough to look at r.
LEMMA Quiet ==
  ASSUME PInv, TypeOK', NEW r \in Requests, products' = products, images' = images,
         \A q \in Requests \ {r} : Same(q),
         pc[r] \in Over => pc'[r] \in Over,
         PerRequest(r)',
         \A q \in Requests \ {r} : Apart(r, q)' /\ Apart(q, r)'
  PROVE  PInv'
<1>1. UniqueKeys' /\ ImagesOfProducts'
  BY DEF PInv, UniqueKeys, ImagesOfProducts, Stored
<1>2. Provenance'
  BY DEF PInv, Provenance, Same
<1>3. \A q \in Requests : PerRequest(q)'
  BY Congruence DEF PInv
<1>4. ASSUME NEW p \in Requests \ {r}, NEW q \in Requests \ {r}, p # q
      PROVE  Apart(p, q)'
  <2>1. Apart(p, q) /\ Same(p) /\ Same(q)
    BY <1>4 DEF PInv
  <2>2. /\ Updating(p)' = Updating(p) /\ Written(p)' = Written(p)
        /\ \A column \in Keys : Claims(p, column)' = Claims(p, column)
        /\ Updating(q)' = Updating(q) /\ Written(q)' = Written(q)
        /\ \A column \in Keys : Claims(q, column)' = Claims(q, column)
    BY <2>1, Congruence
  <2> QED
    BY <2>1, <2>2 DEF Apart, Same
<1> QED
  BY <1>1, <1>2, <1>3, <1>4 DEF PInv

\* Steps that leave r no draft.
LEMMA Undrafted ==
  ASSUME PInv, TypeOK', NEW r \in Requests, products' = products, images' = images,
         \A q \in Requests \ {r} : Same(q),
         pc[r] \in Over => pc'[r] \in Over,
         Asked(r)', Found(r)', draft'[r] = None, dropped'[r] = {},
         pc'[r] \notin {"enter_slug", "enter_sku", "images", "commit"}
           \/ (pc'[r] = "enter_slug" /\ op'[r] = "create")
           \/ (pc'[r] = "images" /\ op'[r] # "create")
  PROVE  PInv'
<1>1. ~Updating(r)' /\ \A column \in Keys : ~Claims(r, column)'
  BY DEF Updating, Claims, NewKey, Entered
<1>2. PerRequest(r)'
  BY <1>1 DEF PerRequest, Drafted
<1>3. \A q \in Requests \ {r} : Apart(r, q)' /\ Apart(q, r)'
  BY <1>1 DEF Apart
<1> QED
  BY <1>2, <1>3, Quiet

LEMMA InitPInv == Init => PInv
<1> SUFFICES ASSUME Init PROVE PInv
  OBVIOUS
<1> USE Sentinels DEF Init, Each
<1>1. PICK picture \in Pictures :
        images = [p \in ProductIds |->
                    IF p \in Existing THEN {[by |-> p, picture |-> picture]} ELSE {}]
  OBVIOUS
<1>2. images \in [ProductIds -> SUBSET Image]
  <2>1. \A p \in ProductIds : [by |-> p, picture |-> picture] \in Image
    BY DEF Image
  <2> QED
    BY <1>1, <2>1
<1>3. TypeOK
  BY <1>2 DEF TypeOK, Stages
<1>4. \A r \in Requests : PerRequest(r)
  BY DistinctAssumption DEF PerRequest, Asked, Found, Drafted, Claims, Updating, Over, Checked,
     Entered
<1>5. \A r, q \in Requests : Apart(r, q)
  BY DEF Apart, Updating, Claims, Entered
<1>6. UniqueKeys
  <2>1. ASSUME NEW p \in Existing, NEW q \in Existing, p # q, NEW column \in Keys
        PROVE  products[p].values[column] # products[q].values[column]
    <3>1. products[p] \in Product /\ products[q] \in Product
      BY DEF ProductIds
    <3>2. products[p].values \in Values /\ products[q].values \in Values
      BY <3>1 DEF Product
    <3>3. /\ products[p].values["slug"] = products[p].values.slug
          /\ products[p].values["sku"] = products[p].values.sku
          /\ products[q].values["slug"] = products[q].values.slug
          /\ products[q].values["sku"] = products[q].values.sku
      BY <3>2, Columns
    <3> QED
      BY <2>1, <3>3 DEF Keys
  <2> QED
    BY <2>1 DEF UniqueKeys, Stored, Keys
<1>7. ImagesOfProducts
  BY <1>1 DEF ImagesOfProducts, Stored
<1>8. Provenance
  BY <1>1, DistinctAssumption DEF Provenance
<1> QED
  BY <1>3, <1>4, <1>5, <1>6, <1>7, <1>8 DEF PInv

LEMMA ArrivePInv ==
  ASSUME PInv, NEW r \in Requests, NEW o \in {"create", "update"}, NEW s \in Sellers,
         NEW p \in ProductIds \cup {None}, NEW w \in Payload,
         NEW stage \in {"load", "check_category"},
         Arrive(r, o, s, p, w, stage),
         o = "create" <=> stage = "check_category", o = "create" => p = r
  PROVE  PInv'
<1> USE Sentinels DEF Arrive, GoTo, database, transaction
<1>0. TypeOK /\ PerRequest(r) /\ pc[r] = "idle"
  BY DEF PInv
<1>1. TypeOK'
  BY <1>0 DEF TypeOK, Stages, Underway
<1>2. \A q \in Requests \ {r} : Same(q)
  BY <1>0 DEF TypeOK, Same
<1>3. /\ draft'[r] = None /\ dropped'[r] = {} /\ products' = products /\ images' = images
      /\ products[r] = None /\ pc[r] \notin Over
  BY <1>0 DEF PerRequest, Drafted, Asked, Over
<1>4. /\ pc'[r] = stage /\ op'[r] = o /\ target'[r] = p /\ want'[r] = w /\ seller'[r] = s
      /\ shown'[r] = shown[r] /\ loaded'[r] = loaded[r]
  BY <1>0 DEF TypeOK
<1>5. Asked(r)'
  BY <1>3, <1>4 DEF Asked
<1>6. Found(r)'
  <2>1. shown[r] = {}
    BY <1>0 DEF PerRequest, Found, Asked, TypeOK
  <2> QED
    BY <1>3, <1>4, <2>1 DEF Found, Checked
<1> HIDE DEF Arrive, GoTo, database, transaction
<1> QED
  BY <1>1, <1>2, <1>3, <1>4, <1>5, <1>6, Undrafted

LEMMA StartsPInv ==
  ASSUME PInv, NEW r \in Requests, Starts(r)
  PROVE  PInv'
<1>1. ASSUME NEW s \in Sellers, NEW w \in Payload, StartCreate(r, s, w) PROVE PInv'
  BY <1>1, Sentinels, ArrivePInv DEF StartCreate
<1>2. ASSUME NEW s \in Sellers, NEW w \in Payload, NEW p \in ProductIds \cup {None},
             StartUpdate(r, s, p, w)
      PROVE  PInv'
  BY <1>2, ArrivePInv DEF StartUpdate
<1> QED
  BY <1>1, <1>2 DEF Starts, Stored

LEMMA RollBackPInv ==
  ASSUME PInv, NEW r \in Requests, pc[r] \in Underway \ {"answer"},
         NEW end \in {"error", "failed"}, RollBack(r, end)
  PROVE  PInv'
<1> USE Sentinels DEF RollBack, GoTo, database, request
<1>0. TypeOK /\ PerRequest(r)
  BY DEF PInv
<1>1. TypeOK'
  BY <1>0 DEF TypeOK, Stages, Settled
<1>2. \A q \in Requests \ {r} : Same(q)
  BY <1>0 DEF TypeOK, Same
<1>3. /\ draft'[r] = None /\ dropped'[r] = {} /\ pc'[r] = end
      /\ products' = products /\ images' = images
      /\ UNCHANGED <<op, seller, target, want, loaded, shown>>
  BY <1>0 DEF TypeOK
<1>4. Asked(r)' /\ Found(r)' /\ pc[r] \notin Over
  BY <1>0, <1>3 DEF PerRequest, Asked, Found, Checked, Over, Underway
<1> HIDE DEF RollBack, GoTo, database, request
<1> QED
  BY <1>1, <1>2, <1>3, <1>4, Undrafted

LEMMA LoadPInv ==
  ASSUME PInv, NEW r \in Requests, Load(r)
  PROVE  PInv'
<1> USE Sentinels DEF Load, Proceed, GoTo, database, request, transaction
<1>0. TypeOK /\ PerRequest(r) /\ pc[r] = "load" /\ pc[r] \notin Over
  BY DEF PInv, Over
<1>b. Visible(r, target[r]) =>
        /\ target[r] \in Stored /\ products[target[r]].seller = seller[r]
        /\ products[target[r]].values \in Values
  BY <1>0 DEF TypeOK, Visible, Stored, Product
<1>1. TypeOK'
  BY <1>0, <1>b DEF TypeOK, Stages, Underway, Settled
<1>2. \A q \in Requests \ {r} : Same(q)
  BY <1>0 DEF TypeOK, Same
<1>3. /\ draft'[r] = None /\ dropped'[r] = {} /\ products' = products /\ images' = images
      /\ UNCHANGED <<op, seller, target, want, shown>>
      /\ pc'[r] \in {"rejected", "load_images"}
      /\ pc'[r] = "load_images" =>
           Visible(r, target[r]) /\ loaded'[r] = products[target[r]].values
  BY <1>0 DEF TypeOK, PerRequest, Drafted
<1>4. op[r] = "update"
  BY <1>0 DEF TypeOK, PerRequest, Asked
<1>5. Asked(r)'
  BY <1>0, <1>3, <1>4 DEF PerRequest, Asked
<1>6. Found(r)'
  BY <1>0, <1>b, <1>3, <1>4 DEF Found, Checked, Stored
<1> HIDE DEF Load, Proceed, GoTo, database, request, transaction
<1> QED
  BY <1>0, <1>1, <1>2, <1>3, <1>5, <1>6, Undrafted

LEMMA LoadImagesPInv ==
  ASSUME PInv, NEW r \in Requests, LoadImages(r)
  PROVE  PInv'
<1> USE Sentinels DEF LoadImages, Proceed, GoTo, database, request
<1>0. TypeOK /\ PerRequest(r) /\ pc[r] = "load_images" /\ pc[r] \notin Over
  BY DEF PInv, Over
<1>4. op[r] = "update" /\ target[r] \in ProductIds
  BY <1>0 DEF TypeOK, PerRequest, Asked, Found, Stored
<1>1. TypeOK'
  BY <1>0, <1>4 DEF TypeOK, Stages, Underway
<1>2. \A q \in Requests \ {r} : Same(q)
  BY <1>0 DEF TypeOK, Same
<1>3. /\ draft'[r] = None /\ dropped'[r] = {} /\ products' = products /\ images' = images
      /\ UNCHANGED <<op, seller, target, want, loaded>>
      /\ pc'[r] = "check_category"
  BY <1>0 DEF TypeOK, PerRequest, Drafted
<1>5. Asked(r)'
  BY <1>0, <1>3, <1>4 DEF PerRequest, Asked
<1>6. Found(r)'
  BY <1>0, <1>3, <1>4 DEF PerRequest, Found, Checked, Stored
<1> HIDE DEF LoadImages, Proceed, GoTo, database, request
<1> QED
  BY <1>0, <1>1, <1>2, <1>3, <1>5, <1>6, Undrafted

\* The three checks decide where to go on, and nothing else.
LEMMA CheckPInv ==
  ASSUME PInv, NEW r \in Requests,
         pc[r] \in {"check_category", "check_slug", "check_sku"},
         NEW stage \in {"rejected", "check_slug", "check_sku", "enter_slug", "lock_row",
                        "images"},
         stage = "enter_slug" => op[r] = "create",
         stage \in {"lock_row", "images"} => op[r] # "create",
         Proceed(r, stage)
  PROVE  PInv'
<1> USE Sentinels DEF Proceed, GoTo, database, request, transaction
<1>0. TypeOK /\ PerRequest(r) /\ pc[r] \notin Over
  BY DEF PInv, Over
<1>1. TypeOK'
  BY <1>0 DEF TypeOK, Stages, Underway, Settled
<1>2. \A q \in Requests \ {r} : Same(q)
  BY <1>0 DEF TypeOK, Same
<1>3. /\ draft'[r] = None /\ dropped'[r] = {} /\ products' = products /\ images' = images
      /\ UNCHANGED <<op, seller, target, want, loaded, shown>>
      /\ pc'[r] = stage
  BY <1>0 DEF TypeOK, PerRequest, Drafted
<1>4. Asked(r)'
  BY <1>0, <1>3 DEF PerRequest, Asked, Over
<1>5. Found(r)'
  BY <1>0, <1>3 DEF PerRequest, Found, Checked, Stored
<1> HIDE DEF Proceed, GoTo, database, request, transaction
<1> QED
  BY <1>0, <1>1, <1>2, <1>3, <1>4, <1>5, Undrafted

LEMMA ChecksPInv ==
  ASSUME PInv, NEW r \in Requests, CheckCategory(r) \/ CheckSlug(r) \/ CheckSku(r)
  PROVE  PInv'
<1>1. CASE CheckCategory(r)
  BY <1>1, CheckPInv DEF CheckCategory
<1>2. CASE CheckSlug(r)
  BY <1>2, CheckPInv DEF CheckSlug
<1>3. CASE CheckSku(r)
  BY <1>3, CheckPInv DEF CheckSku
<1> QED
  BY <1>1, <1>2, <1>3

LEMMA LockRowPInv ==
  ASSUME PInv, NEW r \in Requests, LockRow(r)
  PROVE  PInv'
<1> USE Sentinels DEF LockRow, GoTo, database, request
<1>0. TypeOK /\ PerRequest(r) /\ pc[r] = "lock_row" /\ pc[r] \notin Over
  BY DEF PInv, Over
<1>b. /\ op[r] = "update" /\ target[r] \in Stored /\ Before(r) \in Product
      /\ Flushed(r, Before(r)) \in Product
  <2>1. /\ op[r] = "update" /\ target[r] \in Stored /\ want[r] \in Payload
        /\ loaded[r] \in Values
    BY <1>0 DEF TypeOK, PerRequest, Asked, Found, Checked
  <2>2. Before(r) \in Product
    BY <1>0, <2>1 DEF TypeOK, Before, Stored
  <2> QED
    BY <2>1, <2>2, FlushedIsProduct
<1>1. TypeOK'
  BY <1>0, <1>b DEF TypeOK, Stages, Underway
<1>2. \A q \in Requests \ {r} : Same(q)
  BY <1>0 DEF TypeOK, Same
<1>3. /\ draft'[r] = Flushed(r, Before(r)) /\ pc'[r] = "enter_slug"
      /\ products' = products /\ images' = images
      /\ UNCHANGED <<op, seller, target, want, loaded, shown, dropped>>
  BY <1>0 DEF TypeOK
<1>4. PerRequest(r)'
  <2>1. Asked(r)' /\ Found(r)' /\ \A column \in Keys : ~Claims(r, column)'
    BY <1>0, <1>3 DEF PerRequest, Asked, Found, Checked, Stored, Over, Claims, Entered
  <2>2. Flushed(r, Before(r))' = Flushed(r, Before(r))
    BY <1>3 DEF Flushed, Before
  <2>3. Drafted(r)'
    BY <1>0, <1>b, <1>3, <2>2 DEF PerRequest, Drafted, Updating
  <2> QED
    BY <2>1, <2>3 DEF PerRequest
<1>5. ASSUME NEW q \in Requests \ {r} PROVE Apart(r, q)' /\ Apart(q, r)'
  <2>1. ~Locks(q, target[r])
    BY <1>0, <1>5 DEF Free, Blocks
  <2>2. \A column \in Keys : ~Claims(r, column)'
    BY <1>3 DEF Claims, Entered
  <2>3. Updating(q)' = Updating(q) /\ target'[q] = target[q]
    BY <1>2, <1>3, <1>5, Congruence
  <2> QED
    BY <1>3, <2>1, <2>2, <2>3 DEF Apart, Locks
<1> HIDE DEF LockRow, GoTo, database, request
<1> QED
  BY <1>0, <1>1, <1>2, <1>3, <1>4, <1>5, Quiet

LEMMA ReplaceImagesPInv ==
  ASSUME PInv, NEW r \in Requests, ReplaceImages(r)
  PROVE  PInv'
<1> USE Sentinels DEF ReplaceImages, GoTo, database, request
<1>0. TypeOK /\ PerRequest(r) /\ pc[r] = "images" /\ pc[r] \notin Over
  BY DEF PInv, Over
<1>1. TypeOK'
  BY <1>0 DEF TypeOK, Stages, Underway
<1>2. \A q \in Requests \ {r} : Same(q)
  BY <1>0 DEF TypeOK, Same
<1>3. /\ pc'[r] = "commit" /\ products' = products /\ images' = images
      /\ UNCHANGED <<op, seller, target, want, loaded, shown, draft>>
  BY <1>0 DEF TypeOK
<1>4. /\ Updating(r)' = Updating(r) /\ Written(r)' = Written(r) /\ Before(r)' = Before(r)
      /\ \A column \in Keys : /\ Claims(r, column)' = Claims(r, column)
                              /\ Taken(r, column)' = Taken(r, column)
  <2>1. Updating(r)' = Updating(r) /\ Written(r)' = Written(r) /\ Before(r)' = Before(r)
    BY <1>3 DEF Updating, Written, Before
  <2>2. \A column \in Keys : NewKey(r, column)' = NewKey(r, column)
    BY <1>3, <2>1 DEF NewKey
  <2> QED
    BY <1>0, <1>3, <2>1, <2>2 DEF Claims, Entered, Taken
<1>5. PerRequest(r)'
  <2>1. Asked(r)' /\ Found(r)'
    BY <1>0, <1>3 DEF PerRequest, Asked, Found, Checked, Stored, Over
  <2>2. Flushed(r, Before(r))' = Flushed(r, Before(r))
    BY <1>3, <1>4 DEF Flushed
  <2>3. Drafted(r)'
    BY <1>0, <1>3, <1>4, <2>2 DEF PerRequest, Drafted
  <2> QED
    BY <1>0, <1>4, <2>1, <2>3 DEF PerRequest
<1>6. ASSUME NEW q \in Requests \ {r} PROVE Apart(r, q)' /\ Apart(q, r)'
  <2>1. Apart(r, q) /\ Apart(q, r)
    BY <1>6 DEF PInv
  <2>2. /\ Updating(q)' = Updating(q) /\ target'[q] = target[q] /\ Written(q)' = Written(q)
        /\ \A column \in Keys : Claims(q, column)' = Claims(q, column)
    BY <1>2, <1>3, <1>6, Congruence
  <2> QED
    BY <1>3, <1>4, <2>1, <2>2 DEF Apart
<1> HIDE DEF ReplaceImages, GoTo, database, request
<1> QED
  BY <1>0, <1>1, <1>2, <1>3, <1>5, <1>6, Quiet

LEMMA AnswerPInv ==
  ASSUME PInv, NEW r \in Requests, Answer(r)
  PROVE  PInv'
<1> USE Sentinels DEF Answer, Proceed, GoTo, database, request, transaction
<1>0. TypeOK /\ PerRequest(r) /\ pc[r] = "answer"
  BY DEF PInv
<1>1. TypeOK'
  BY <1>0 DEF TypeOK, Stages, Settled
<1>2. \A q \in Requests \ {r} : Same(q)
  BY <1>0 DEF TypeOK, Same
<1>3. /\ draft'[r] = None /\ dropped'[r] = {} /\ products' = products /\ images' = images
      /\ UNCHANGED <<op, seller, target, want, loaded, shown>>
      /\ pc'[r] \in {"ok", "lost", "unanswered"}
  BY <1>0 DEF TypeOK, PerRequest, Drafted
<1>4. Asked(r)' /\ Found(r)' /\ pc'[r] \in Over
  BY <1>0, <1>3 DEF PerRequest, Asked, Found, Checked, Over
<1> HIDE DEF Answer, Proceed, GoTo, database, request, transaction
<1> QED
  BY <1>1, <1>2, <1>3, <1>4, Undrafted

\* The row a request enters in the indexes is a product of its seller.
LEMMA WrittenIsProduct ==
  ASSUME PInv, NEW r \in Requests, op[r] = "create" \/ draft[r] # None, pc[r] # "idle"
  PROVE  Written(r) \in Product
<1>1. TypeOK /\ PerRequest(r)
  BY DEF PInv
<1>2. CASE op[r] = "create"
  <2>1. seller[r] \in Sellers /\ want[r].values \in Values
    BY <1>1, <1>2 DEF PerRequest, Asked, Payload
  <2> QED
    BY <1>2, <2>1 DEF Written, Product
<1>3. CASE op[r] # "create"
  BY <1>1, <1>3, Sentinels DEF TypeOK, Written
<1> QED
  BY <1>2, <1>3

LEMMA EnterKeyPInv ==
  ASSUME PInv, NEW r \in Requests, EnterKey(r)
  PROVE  PInv'
<1> USE Sentinels DEF GoTo
<1>0. /\ TypeOK /\ PerRequest(r) /\ pc[r] \in {"enter_slug", "enter_sku"} /\ Free(r)
      /\ pc[r] \notin Over
  BY DEF PInv, EnterKey, Column, Over
<1> DEFINE column == Column[pc[r]]
<1>c. /\ column \in Keys
      /\ pc[r] = "enter_slug" => column = "slug"
      /\ pc[r] = "enter_sku" => column = "sku"
  BY <1>0 DEF Column, Keys
<1>1. CASE NewKey(r, column) /\ Taken(r, column)
  <2>1. RollBack(r, "error")
    BY <1>1 DEF EnterKey
  <2> QED
    BY <1>0, <2>1, RollBackPInv DEF Underway
<1>2. CASE ~(NewKey(r, column) /\ Taken(r, column))
  <2> DEFINE next == IF pc[r] = "enter_slug" THEN "enter_sku" ELSE "images"
  <2>s. /\ draft' = [draft EXCEPT ![r] = Written(r)]
        /\ pc' = [pc EXCEPT ![r] = next]
        /\ UNCHANGED <<database, request, loaded, shown, dropped>>
    BY <1>2 DEF EnterKey
  <2> HIDE DEF next
  <2>n. next = IF pc[r] = "enter_slug" THEN "enter_sku" ELSE "images"
    BY DEF next
  <2>w. /\ op[r] \in {"create", "update"}
        /\ op[r] = "update" => draft[r] # None
        /\ Written(r) \in Product
    <3>1. op[r] \in {"create", "update"}
      BY <1>0 DEF TypeOK, PerRequest, Asked
    <3>2. op[r] = "update" => draft[r] # None
      BY <1>0 DEF PerRequest, Drafted
    <3> QED
      BY <1>0, <3>1, <3>2, WrittenIsProduct
  <2>1. TypeOK'
    BY <1>0, <2>s, <2>n, <2>w DEF TypeOK, Stages, Underway, database, request
  <2>2. \A q \in Requests \ {r} : Same(q)
    BY <1>0, <2>s DEF TypeOK, Same, request
  <2>3. /\ draft'[r] = Written(r) /\ pc'[r] = next
        /\ products' = products /\ images' = images
        /\ UNCHANGED <<op, seller, target, want, loaded, shown, dropped>>
    BY <1>0, <2>s DEF TypeOK, database, request
  <2>4. /\ Updating(r)' = Updating(r) /\ Written(r)' = Written(r) /\ Before(r)' = Before(r)
        /\ \A k \in Keys : /\ NewKey(r, k)' = NewKey(r, k)
                           /\ Taken(r, k)' = Taken(r, k)
    <3>1. /\ Updating(r)' = Updating(r) /\ Written(r)' = Written(r)
          /\ Before(r)' = Before(r)
      BY <2>w, <2>3 DEF Updating, Written, Before
    <3>2. op[r] = "update" => draft'[r] = draft[r]
      BY <2>3 DEF Written
    <3>3. \A k \in Keys : NewKey(r, k)' = NewKey(r, k)
      BY <2>w, <2>3, <3>1, <3>2 DEF NewKey
    <3>4. \A k \in Keys : Taken(r, k)' = Taken(r, k)
      BY <2>3, <3>1 DEF Taken
    <3> QED
      BY <3>1, <3>3, <3>4
  <2>5. \A k \in Keys : Claims(r, k)' => Claims(r, k) \/ (k = column /\ NewKey(r, k))
    BY <1>0, <1>c, <2>n, <2>3, <2>4 DEF Claims, Entered, Keys
  <2>6. PerRequest(r)'
    <3>1. Asked(r)' /\ Found(r)'
      BY <1>0, <2>n, <2>3 DEF PerRequest, Asked, Found, Checked, Stored, Over
    <3>2. Flushed(r, Before(r))' = Flushed(r, Before(r))
      BY <2>3, <2>4 DEF Flushed
    <3>3. Drafted(r)'
      <4>1. op[r] = "update" => Written(r) = draft[r]
        BY DEF Written
      <4> QED
        BY <1>0, <2>n, <2>w, <2>3, <2>4, <3>2, <4>1 DEF PerRequest, Drafted, Updating
    <3>4. \A k \in Keys : (Claims(r, k) => ~Taken(r, k))'
      BY <1>0, <1>2, <2>4, <2>5 DEF PerRequest
    <3> QED
      BY <3>1, <3>3, <3>4 DEF PerRequest
  <2>7. ASSUME NEW q \in Requests \ {r} PROVE Apart(r, q)' /\ Apart(q, r)'
    <3>1. Apart(r, q) /\ Apart(q, r)
      BY <2>7 DEF PInv
    <3>2. /\ Updating(q)' = Updating(q) /\ target'[q] = target[q] /\ Written(q)' = Written(q)
          /\ \A k \in Keys : Claims(q, k)' = Claims(q, k)
      BY <2>2, <2>3, <2>7, Congruence
    <3>3. Claims(q, column) /\ NewKey(r, column) =>
            Written(q).values[column] # Written(r).values[column]
      <4>1. pc[r] \in DOMAIN Column
        BY <1>0 DEF Column
      <4>2. ~Blocks(q, r)
        BY <1>0, <2>7 DEF Free
      <4> QED
        BY <2>7, <4>1, <4>2 DEF Blocks, Contests, Claims
    <3>4. ASSUME NEW k \in Keys, Claims(r, k)', Claims(q, k)'
          PROVE  Written(r)'.values[k] # Written(q)'.values[k]
      BY <2>4, <2>5, <3>1, <3>2, <3>3, <3>4 DEF Apart
    <3>5. Updating(r)' /\ Updating(q)' => target'[r] # target'[q]
      BY <2>3, <2>4, <3>1, <3>2 DEF Apart
    <3> QED
      BY <3>4, <3>5 DEF Apart
  <2> QED
    BY <1>0, <2>1, <2>2, <2>3, <2>6, <2>7, Quiet
<1> QED
  BY <1>1, <1>2

\* What a commit stores.
LEMMA CommitStep ==
  ASSUME PInv, NEW r \in Requests, Commit(r)
  PROVE  /\ pc[r] = "commit" /\ target[r] \in ProductIds /\ op[r] \in {"create", "update"}
         /\ products' \in [ProductIds -> Product \cup {None}]
         /\ draft[r] = None => products' = products /\ op[r] = "update"
         /\ draft[r] # None =>
              /\ products'[target[r]] = draft[r] /\ draft[r] \in Product
              /\ Written(r) = draft[r]
              /\ \A column \in Keys :
                   Claims(r, column) \/
                     (/\ target[r] \in Stored
                      /\ draft[r].values[column] = products[target[r]].values[column])
         /\ \A p \in ProductIds \ {target[r]} :
              products'[p] = products[p] /\ images'[p] = images[p]
         /\ products'[target[r]] # None
         /\ op[r] = "update" => /\ target[r] \in Stored
                                /\ products[target[r]].seller = seller[r]
                                /\ products'[target[r]].seller = seller[r]
         /\ op[r] = "create" => /\ target[r] = r /\ products[r] = None
                                /\ products'[r] = [seller |-> seller[r],
                                                   values |-> want[r].values]
         /\ images'[target[r]] = (images[target[r]] \ dropped[r]) \cup NewImages(r)
         /\ NewImages(r) \subseteq Image
<1> USE Sentinels
<1>0. /\ TypeOK /\ PerRequest(r) /\ pc[r] = "commit" /\ op[r] \in {"create", "update"}
      /\ want[r] \in Payload /\ target[r] \in ProductIds
      /\ op[r] = "update" => /\ target[r] \in Stored /\ loaded[r] \in Values
                             /\ products[target[r]].seller = seller[r]
      /\ op[r] = "create" => target[r] = r /\ products[r] = None
  <2>1. TypeOK /\ PerRequest(r) /\ pc[r] = "commit"
    BY DEF PInv, Commit
  <2>2. op[r] \in {"create", "update"} /\ want[r] \in Payload
    BY <2>1 DEF TypeOK, PerRequest, Asked
  <2>3. op[r] = "update" => /\ target[r] \in Stored /\ loaded[r] \in Values
                            /\ products[target[r]].seller = seller[r]
    BY <2>1 DEF TypeOK, PerRequest, Found, Checked
  <2>4. op[r] = "create" => target[r] = r /\ products[r] = None
    BY <2>1 DEF PerRequest, Asked, Over
  <2> QED
    BY <2>1, <2>2, <2>3, <2>4 DEF Stored
<1>1. /\ products' \in [ProductIds -> Product \cup {None}]
      /\ \A p \in ProductIds \ {target[r]} :
           products'[p] = products[p] /\ images'[p] = images[p]
      /\ draft[r] = None => products' = products /\ op[r] = "update"
      /\ draft[r] # None => products'[target[r]] = draft[r] /\ draft[r] \in Product
      /\ images'[target[r]] = (images[target[r]] \ dropped[r]) \cup NewImages(r)
  BY <1>0 DEF TypeOK, Commit, PerRequest, Drafted
<1>2. NewImages(r) \subseteq Image
  <2>1. want[r].pictures \subseteq Pictures
    BY <1>0 DEF Payload
  <2> QED
    BY <2>1 DEF NewImages, Image
<1>3. CASE op[r] = "create"
  <2>1. draft[r] # None /\ draft[r] = Written(r)
    BY <1>0, <1>3 DEF PerRequest, Drafted
  <2>2. Written(r) = [seller |-> seller[r], values |-> want[r].values]
    BY <1>3 DEF Written
  <2>3. \A column \in Keys : Claims(r, column)
    BY <1>0, <1>3 DEF Claims, NewKey, Entered
  <2> QED
    BY <1>0, <1>1, <1>2, <1>3, <2>1, <2>2, <2>3
<1>4. CASE op[r] = "update"
  <2>1. Before(r) \in Product /\ Before(r) = products[target[r]]
    BY <1>0, <1>4 DEF TypeOK, Before, Stored
  <2>2. ASSUME draft[r] # None
        PROVE  /\ Written(r) = draft[r] /\ draft[r].seller = seller[r]
               /\ \A column \in Keys :
                    Claims(r, column) \/
                      draft[r].values[column] = products[target[r]].values[column]
    <3>1. Updating(r) /\ draft[r] = Flushed(r, Before(r))
      BY <1>0, <1>4, <2>2 DEF PerRequest, Drafted, Updating
    <3>2. draft[r].seller = Before(r).seller
      BY <1>0, <1>4, <2>1, <3>1, FlushedIsProduct
    <3>3. \A column \in Keys :
            Claims(r, column) \/ draft[r].values[column] = Before(r).values[column]
      BY <1>0, <3>1 DEF Claims, NewKey, Entered
    <3> QED
      BY <1>0, <1>4, <2>1, <3>2, <3>3 DEF Written
  <2> QED
    BY <1>0, <1>1, <1>2, <1>4, <2>2 DEF Stored
<1> QED
  BY <1>0, <1>3, <1>4

\* A row that another request is updating is not the one that r stores.
LEMMA OthersTarget ==
  ASSUME PInv, NEW r \in Requests, pc[r] = "commit", draft[r] # None,
         NEW q \in Requests \ {r}, Updating(q) \/ pc[q] \notin Over \cup {"idle"}
  PROVE  /\ Updating(q) \/ op[q] = "create" => target[q] # target[r]
         /\ op[q] = "create" => target[q] = q
<1> USE Sentinels DEF PerRequest, Asked, Found, Drafted, Checked, Stored, Over
<1>0. /\ TypeOK /\ PerRequest(r) /\ PerRequest(q) /\ Apart(r, q)
      /\ op[r] \in {"create", "update"}
  BY DEF PInv, TypeOK
<1>1. CASE op[r] = "create"
  BY <1>0, <1>1 DEF Updating
<1>2. CASE op[r] = "update"
  BY <1>0, <1>2 DEF Updating, Apart
<1> QED
  BY <1>0, <1>1, <1>2

\* A commit of r leaves the row that q is updating as it is.
LEMMA OthersRow ==
  ASSUME PInv, NEW r \in Requests, Commit(r), NEW q \in Requests \ {r}, Updating(q)
  PROVE  Before(q)' = Before(q) /\ target[q] \in ProductIds
<1>1. TypeOK /\ PerRequest(q) /\ pc[r] = "commit"
  BY DEF PInv, Commit
<1>2. target[q] \in ProductIds /\ target'[q] = target[q]
  BY <1>1 DEF PerRequest, Drafted, Found, Checked, Updating, Stored, Commit, request
<1>3. CASE draft[r] = None
  BY <1>2, <1>3, CommitStep DEF Before
<1>4. CASE draft[r] # None
  <2>1. target[q] # target[r]
    BY <1>1, <1>4, OthersTarget
  <2>2. \A p \in ProductIds \ {target[r]} : products'[p] = products[p]
    BY CommitStep
  <2> QED
    BY <1>2, <2>1, <2>2 DEF Before
<1> QED
  BY <1>2, <1>3, <1>4

LEMMA CommitPInv ==
  ASSUME PInv, NEW r \in Requests, Commit(r)
  PROVE  PInv'
<1> USE Sentinels
<1>0. TypeOK /\ PerRequest(r) /\ pc[r] = "commit"
  BY DEF PInv, Commit
<1>c. /\ target[r] \in ProductIds /\ op[r] \in {"create", "update"}
      /\ products' \in [ProductIds -> Product \cup {None}]
      /\ draft[r] = None => products' = products /\ op[r] = "update"
      /\ draft[r] # None =>
           /\ products'[target[r]] = draft[r] /\ draft[r] \in Product
           /\ Written(r) = draft[r]
           /\ \A column \in Keys :
                Claims(r, column) \/
                  (/\ target[r] \in Stored
                   /\ draft[r].values[column] = products[target[r]].values[column])
      /\ \A p \in ProductIds \ {target[r]} :
           products'[p] = products[p] /\ images'[p] = images[p]
      /\ products'[target[r]] # None
      /\ op[r] = "update" => /\ target[r] \in Stored
                             /\ products[target[r]].seller = seller[r]
                             /\ products'[target[r]].seller = seller[r]
      /\ op[r] = "create" => /\ target[r] = r /\ products[r] = None
                             /\ products'[r] = [seller |-> seller[r],
                                                values |-> want[r].values]
      /\ images'[target[r]] = (images[target[r]] \ dropped[r]) \cup NewImages(r)
      /\ NewImages(r) \subseteq Image
  BY CommitStep
<1>i. images' \in [ProductIds -> SUBSET Image]
  BY <1>0, <1>c DEF TypeOK, Commit
<1>1. TypeOK'
  BY <1>0, <1>c, <1>i DEF TypeOK, Commit, GoTo, request, Stages, Underway
<1>2. \A q \in Requests \ {r} : Same(q)
  BY <1>0 DEF TypeOK, Commit, GoTo, Same, request
<1>3. /\ draft'[r] = None /\ dropped'[r] = {} /\ pc'[r] = "answer"
      /\ UNCHANGED <<op, seller, target, want, loaded, shown>>
  BY <1>0 DEF TypeOK, Commit, GoTo, request
<1>s. Stored' = Stored \cup {target[r]}
  BY <1>0, <1>c DEF TypeOK, Stored
<1>t. \A p \in Stored : products'[p].seller = products[p].seller
  BY <1>c, <1>s DEF Stored
<1>4. UniqueKeys'
  <2>1. CASE draft[r] = None
    BY <1>c, <2>1 DEF PInv, UniqueKeys, Stored
  <2>2. CASE draft[r] # None
    <3>1. ASSUME NEW p \in Stored \ {target[r]}, NEW column \in Keys
          PROVE  products[p].values[column] # draft[r].values[column]
      <4>1. CASE Claims(r, column)
        BY <1>0, <1>c, <2>2, <3>1, <4>1 DEF PerRequest, Taken, Stored
      <4>2. CASE ~Claims(r, column)
        BY <1>c, <2>2, <3>1, <4>2 DEF PInv, UniqueKeys, Keys
      <4> QED
        BY <4>1, <4>2
    <3>2. ASSUME NEW p \in Stored', NEW q \in Stored', NEW column \in Keys,
                 products'[p].values[column] = products'[q].values[column]
          PROVE  p = q
      <4>1. CASE p = target[r] \/ q = target[r]
        BY <1>c, <1>s, <2>2, <3>1, <3>2, <4>1 DEF Stored
      <4>2. CASE p # target[r] /\ q # target[r]
        BY <1>c, <1>s, <3>2, <4>2 DEF PInv, UniqueKeys, Stored, Keys
      <4> QED
        BY <4>1, <4>2
    <3> QED
      BY <3>2 DEF UniqueKeys, Keys
  <2> QED
    BY <2>1, <2>2
<1>5. ImagesOfProducts'
  BY <1>c, <1>s DEF PInv, ImagesOfProducts
<1>p. Provenance'
  <2> SUFFICES ASSUME NEW p \in ProductIds, NEW i \in images'[p], i.by \in Requests
               PROVE  pc'[i.by] \in Over
    BY DEF Provenance
  <2>1. CASE i \in NewImages(r) /\ p = target[r]
    BY <1>3, <2>1 DEF NewImages, Over
  <2>2. CASE i \in images[p]
    BY <1>0, <1>2, <1>3, <2>2 DEF PInv, Provenance, Over, Same
  <2> QED
    BY <1>c, <2>1, <2>2
<1>6. ASSUME NEW q \in Requests \ {r}
      PROVE  /\ Updating(q)' = Updating(q) /\ Written(q)' = Written(q)
             /\ Updating(q) => Before(q)' = Before(q)
             /\ \A column \in Keys : Claims(q, column)' = Claims(q, column)
  <2>1. Same(q)
    BY <1>2, <1>6
  <2>2. Updating(q) => Before(q)' = Before(q)
    BY <1>6, OthersRow
  <2>3. Updating(q)' = Updating(q) /\ Written(q)' = Written(q)
    BY <2>1 DEF Updating, Written, Same
  <2>4. \A column \in Keys : NewKey(q, column)' = NewKey(q, column)
    BY <2>1, <2>2, <2>3 DEF NewKey, Same
  <2> QED
    BY <2>1, <2>2, <2>3, <2>4 DEF Claims, Same
<1>7. ASSUME NEW q \in Requests \ {r} PROVE PerRequest(q)'
  <2>0. PerRequest(q) /\ Same(q) /\ op[q] \in {"none", "create", "update"}
    BY <1>0, <1>2, <1>7 DEF PInv, TypeOK
  <2>1. Asked(q)'
    <3>1. target[r] = q => op[q] = "create" /\ pc[q] \in Over
      <4>1. CASE op[r] = "create"
        BY <1>7, <1>c, <4>1
      <4>2. CASE op[r] = "update"
        BY <1>c, <2>0, <4>2 DEF PerRequest, Asked, Stored
      <4> QED
        BY <1>c, <4>1, <4>2
    <3>2. target[r] # q => products'[q] = products[q]
      BY <1>c, <1>7
    <3> QED
      BY <2>0, <3>1, <3>2 DEF PerRequest, Asked, Same
  <2>2. Found(q)'
    BY <1>s, <1>t, <2>0 DEF PerRequest, Found, Same
  <2>3. Drafted(q)'
    <3>1. Updating(q) => Flushed(q, Before(q))' = Flushed(q, Before(q))
      BY <1>6, <1>7, <2>0 DEF Flushed, Same
    <3> QED
      BY <1>6, <1>7, <2>0, <3>1 DEF PerRequest, Drafted, Same
  <2>4. ASSUME NEW column \in Keys, Claims(q, column)' PROVE ~Taken(q, column)'
    <3>1. Claims(q, column) /\ ~Taken(q, column) /\ Written(q)' = Written(q)
      BY <1>6, <1>7, <2>0, <2>4 DEF PerRequest
    <3>2. CASE draft[r] = None
      BY <1>c, <2>0, <3>1, <3>2 DEF Taken, Same
    <3>3. CASE draft[r] # None
      <4>1. target[q] # target[r]
        <5>1. Updating(q) \/ op[q] = "create"
          BY <3>1 DEF Claims, NewKey
        <5>2. pc[q] \notin Over \cup {"idle"}
          BY <2>4, <3>1 DEF Claims, Entered, Over, Keys
        <5> QED
          BY <1>0, <1>7, <3>3, <5>1, <5>2, OthersTarget
      <4>2. draft[r].values[column] # Written(q).values[column]
        <5>1. CASE Claims(r, column)
          BY <1>c, <1>7, <2>4, <3>1, <3>3, <5>1 DEF PInv, Apart
        <5>2. CASE ~Claims(r, column)
          BY <1>c, <2>4, <3>1, <3>3, <4>1, <5>2 DEF Taken, Stored
        <5> QED
          BY <5>1, <5>2
      <4>3. ASSUME NEW p \in ProductIds \ {target[q]}, products'[p] # None
            PROVE  products'[p].values[column] # Written(q).values[column]
        BY <1>c, <3>1, <3>3, <4>2, <4>3 DEF Taken
      <4> QED
        BY <2>0, <3>1, <4>3 DEF Taken, Same
    <3> QED
      BY <3>2, <3>3
  <2> QED
    BY <2>1, <2>2, <2>3, <2>4 DEF PerRequest
<1>8. PerRequest(r)'
  <2>1. op[r] # "create" => products'[r] = products[r]
    BY <1>0, <1>c DEF PerRequest, Asked, Stored
  <2>2. Asked(r)' /\ Found(r)'
    BY <1>0, <1>3, <2>1 DEF PerRequest, Asked, Found, Checked, Over
  <2>3. Drafted(r)' /\ \A column \in Keys : ~Claims(r, column)'
    BY <1>3 DEF Drafted, Updating, Claims, Entered
  <2> QED
    BY <2>2, <2>3 DEF PerRequest
<1>9. ASSUME NEW p \in Requests, NEW q \in Requests, p # q PROVE Apart(p, q)'
  <2>1. ASSUME NEW x \in Requests
        PROVE  /\ Updating(x)' => Updating(x) /\ target'[x] = target[x] /\ x # r
               /\ \A column \in Keys : Claims(x, column)' =>
                    Claims(x, column) /\ Written(x)' = Written(x) /\ x # r
    <3>1. CASE x = r
      BY <1>3, <3>1 DEF Updating, Claims, Entered
    <3>2. CASE x # r
      BY <1>3, <1>6, <2>1, <3>2
    <3> QED
      BY <3>1, <3>2
  <2>2. Apart(p, q)
    BY <1>9 DEF PInv
  <2> QED
    BY <2>1, <2>2, <1>9 DEF Apart
<1> QED
  BY <1>1, <1>4, <1>5, <1>p, <1>7, <1>8, <1>9 DEF PInv

\* Steps that change the history alone or categories, or nothing.
LEMMA StillPInv ==
  ASSUME PInv, TypeOK', products' = products, images' = images, \A q \in Requests : Same(q)
  PROVE  PInv'
<1>1. UniqueKeys' /\ ImagesOfProducts'
  BY DEF PInv, UniqueKeys, ImagesOfProducts, Stored
<1>2. Provenance'
  BY DEF PInv, Provenance, Same
<1>3. \A q \in Requests : PerRequest(q)'
  BY Congruence DEF PInv
<1>4. ASSUME NEW p \in Requests, NEW q \in Requests, p # q PROVE Apart(p, q)'
  <2>1. Apart(p, q) /\ Same(p) /\ Same(q)
    BY <1>4 DEF PInv
  <2>2. /\ Updating(p)' = Updating(p) /\ Written(p)' = Written(p)
        /\ \A column \in Keys : Claims(p, column)' = Claims(p, column)
        /\ Updating(q)' = Updating(q) /\ Written(q)' = Written(q)
        /\ \A column \in Keys : Claims(q, column)' = Claims(q, column)
    BY <2>1, Congruence
  <2> QED
    BY <2>1, <2>2 DEF Apart, Same
<1> QED
  BY <1>1, <1>2, <1>3, <1>4 DEF PInv

LEMMA NextPInv == PInv /\ [Next]_vars => PInv'
<1> SUFFICES ASSUME PInv, [Next]_vars PROVE PInv'
  OBVIOUS
<1>1. ASSUME NEW r \in Requests, Advance(r) PROVE PInv'
  BY <1>1, LoadPInv, LoadImagesPInv, ChecksPInv, LockRowPInv, EnterKeyPInv,
     ReplaceImagesPInv, CommitPInv, AnswerPInv DEF Advance
<1>2. ASSUME NEW r \in Requests, Abort(r) PROVE PInv'
  BY <1>2, RollBackPInv DEF Abort
<1>3. ASSUME NEW c \in Categories, SetActive(c) PROVE PInv'
  <2>1. TypeOK
    BY DEF PInv
  <2>2. TypeOK'
    BY <1>3, <2>1 DEF TypeOK, SetActive, transaction
  <2>3. products' = products /\ images' = images /\ \A q \in Requests : Same(q)
    BY <1>3 DEF SetActive, transaction, Same
  <2> QED
    BY <2>2, <2>3, StillPInv
<1>4. CASE AllSettled \/ UNCHANGED vars
  <2>1. UNCHANGED vars
    BY <1>4 DEF AllSettled
  <2>2. TypeOK'
    BY <2>1 DEF vars, database, request, transaction, PInv, TypeOK
  <2>3. products' = products /\ images' = images /\ \A q \in Requests : Same(q)
    BY <2>1 DEF vars, database, request, transaction, Same
  <2> QED
    BY <2>2, <2>3, StillPInv
<1> QED
  BY <1>1, <1>2, <1>3, <1>4, StartsPInv DEF Next

\* PInv is inductive.
THEOREM Invariance == Spec => []PInv
BY InitPInv, NextPInv, PTL DEF Spec

-----------------------------------------------------------------------------
(* The theorems.                                                           *)

\* Every column and every local of a request keeps its type.
THEOREM TypeCorrectness == Spec => []TypeOK
<1>1. PInv => TypeOK
  BY DEF PInv
<1> QED
  BY <1>1, Invariance, PTL

\* Slugs and SKUs stay unique, however creates and updates pass slug_exists
\* and sku_exists together.
THEOREM PublicKeys == Spec => []UniqueKeys
<1>1. PInv => UniqueKeys
  BY DEF PInv
<1> QED
  BY <1>1, Invariance, PTL

\* The tables change by commits only.
LEMMA OnlyCommits ==
  ASSUME PInv, [Next]_vars, products' # products \/ images' # images
  PROVE  \E r \in Requests : Commit(r)
<1>1. ASSUME NEW r \in Requests, Starts(r) \/ Abort(r) PROVE FALSE
  BY <1>1 DEF Starts, StartCreate, StartUpdate, Arrive, Abort, RollBack, database
<1>2. ASSUME NEW r \in Requests, Advance(r) PROVE Commit(r)
  BY <1>2 DEF Advance, Load, LoadImages, CheckCategory, CheckSlug, CheckSku, LockRow,
     EnterKey, ReplaceImages, Answer, Proceed, RollBack, database
<1>3. ~\E c \in Categories : SetActive(c)
  BY DEF SetActive
<1>4. ~(AllSettled \/ UNCHANGED vars)
  BY DEF AllSettled, vars, database
<1> QED
  BY <1>1, <1>2, <1>3, <1>4 DEF Next

\* Whatever a request checked and however long ago, a product and its images
\* change by commits of its seller, and it stays that seller's.
THEOREM Ownership == Spec => OnlySellerWrites
<1> DEFINE A ==
  \A p \in Stored :
     products'[p] # products[p] \/ images'[p] # images[p] =>
       /\ \E r \in Requests : /\ Commits(r)
                              /\ seller[r] = products[p].seller
       /\ products'[p].seller = products[p].seller
<1>1. ASSUME PInv, [Next]_vars PROVE A
  <2> SUFFICES ASSUME NEW p \in Stored, products'[p] # products[p] \/ images'[p] # images[p]
               PROVE  /\ \E r \in Requests : Commits(r) /\ seller[r] = products[p].seller
                      /\ products'[p].seller = products[p].seller
    OBVIOUS
  <2>1. PICK r \in Requests : Commit(r)
    BY <1>1, OnlyCommits
  <2>2. p = target[r] /\ op[r] = "update"
    <3>1. p \in ProductIds /\ products[p] # None
      BY DEF Stored
    <3>2. /\ op[r] \in {"create", "update"}
          /\ op[r] = "create" => target[r] = r /\ products[r] = None
          /\ \A o \in ProductIds \ {target[r]} :
               products'[o] = products[o] /\ images'[o] = images[o]
      BY <1>1, <2>1, CommitStep
    <3> QED
      BY <3>1, <3>2
  <2>3. Commits(r)
    BY <1>1, <2>1 DEF PInv, TypeOK, Commits, Commit, GoTo
  <2>4. products[p].seller = seller[r] /\ products'[p].seller = seller[r]
    BY <1>1, <2>1, <2>2, CommitStep
  <2> QED
    BY <2>3, <2>4
<1> QED
  BY <1>1, Invariance, PTL DEF Spec, OnlySellerWrites

-----------------------------------------------------------------------------
(* As long as requests take turns.                                         *)

\* r has taken a step, nobody else is under way: it is enough to look at r.
LEMMA TurnStep ==
  ASSUME PInv, PInv', OneAtATime, \A q \in Requests : UpToDate(q), NEW r \in Requests,
         pc[r] \in Underway \/ \A q \in Requests : pc[q] \notin Underway,
         \A q \in Requests \ {r} : Same(q),
         UpToDate(r)'
  PROVE  (OneAtATime /\ \A q \in Requests : UpToDate(q))'
<1>1. ASSUME NEW q \in Requests \ {r} PROVE pc'[q] \notin Underway
  BY <1>1 DEF OneAtATime, Same
<1>2. ASSUME NEW q \in Requests \ {r} PROVE UpToDate(q)'
  <2>1. UpToDate(q) /\ Same(q) /\ PerRequest(q)'
    BY <1>2 DEF PInv
  <2>2. draft'[q] = None
    BY <1>1, <1>2, <2>1 DEF PerRequest, Drafted, Underway
  <2> QED
    BY <1>1, <1>2, <2>1, <2>2 DEF UpToDate, Underway, Checked, Same
<1> QED
  BY <1>1, <1>2 DEF OneAtATime

\* An update that compares with the row itself writes the payload.
LEMMA FlushedIsWanted ==
  ASSUME NEW r \in Requests, NEW row \in Product, want[r] \in Payload,
         loaded[r] = row.values
  PROVE  Flushed(r, row).values = want[r].values
<1>1. row.values \in Values /\ want[r].values \in Values /\ loaded[r] \in Values
  BY DEF Product, Payload
<1>2. Flushed(r, row) \in Product
  BY <1>1, FlushedIsProduct
<1>3. Flushed(r, row).values \in Values
  BY <1>2 DEF Product
<1>4. \A column \in {"category", "slug", "sku", "body"} :
        Flushed(r, row).values[column] = want[r].values[column]
  BY <1>1, FlushedIsProduct
<1> HIDE DEF Flushed
<1>5. ASSUME NEW v \in Values, NEW w \in Values,
             \A column \in {"category", "slug", "sku", "body"} : v[column] = w[column]
      PROVE  v = w
  <2>1. v.category = w.category /\ v.slug = w.slug /\ v.sku = w.sku /\ v.body = w.body
    BY <1>5, Columns
  <2> QED
    BY <2>1 DEF Values
<1> QED
  BY <1>1, <1>3, <1>4, <1>5

\* r is alone: what it was granted stays true.
LEMMA AdvanceUpToDate ==
  ASSUME PInv, PInv', NEW r \in Requests, UpToDate(r), Advance(r) \/ Abort(r)
  PROVE  UpToDate(r)'
<1> USE Sentinels
<1>0. TypeOK /\ PerRequest(r)
  BY DEF PInv
<1>d. draft[r] # None => pc[r] \in {"enter_slug", "enter_sku", "images", "commit"}
  BY <1>0 DEF PerRequest, Drafted
<1>1. CASE Load(r)
  <2>1. /\ draft'[r] = None /\ pc'[r] \in {"rejected", "load_images"}
        /\ UNCHANGED <<products, op, target>>
        /\ pc'[r] = "load_images" => loaded'[r] = products[target[r]].values
    BY <1>0, <1>1, <1>d DEF TypeOK, Load, Proceed, GoTo, database, request, transaction
  <2> QED
    BY <2>1 DEF UpToDate, Before, Checked
<1>2. CASE LoadImages(r)
  <2>1. /\ draft'[r] = None /\ pc'[r] = "check_category" /\ shown'[r] = images[target[r]]
        /\ UNCHANGED <<products, images, op, target, want, loaded>>
    BY <1>0, <1>2, <1>d DEF TypeOK, LoadImages, GoTo, database, request
  <2>2. op[r] = "update" => loaded[r] = Before(r).values
    BY <1>2 DEF UpToDate, LoadImages
  <2> QED
    BY <2>1, <2>2 DEF UpToDate, Before, Checked
<1>3. CASE CheckCategory(r)
  <2>1. /\ draft'[r] = None /\ pc'[r] \in {"rejected", "check_slug"}
        /\ pc'[r] = "check_slug" => want[r].values.category \in active
        /\ UNCHANGED <<products, images, active, op, target, want, loaded, shown>>
    BY <1>0, <1>3, <1>d DEF TypeOK, CheckCategory, Proceed, GoTo, database, request,
       transaction
  <2>2. /\ op[r] = "update" => loaded[r] = Before(r).values
        /\ shown[r] = images[target[r]]
    BY <1>3 DEF UpToDate, CheckCategory
  <2> QED
    BY <2>1, <2>2 DEF UpToDate, Before, Checked
<1>4. CASE CheckSlug(r)
  <2>1. /\ draft'[r] = None /\ pc'[r] \in {"rejected", "check_sku"}
        /\ pc'[r] = "check_sku" => ~Exists(r, "slug")
        /\ UNCHANGED <<products, images, active, op, target, want, loaded, shown>>
    BY <1>0, <1>4, <1>d DEF TypeOK, CheckSlug, Proceed, GoTo, database, request, transaction
  <2>2. /\ op[r] = "update" => loaded[r] = Before(r).values
        /\ shown[r] = images[target[r]] /\ want[r].values.category \in active
    BY <1>4 DEF UpToDate, CheckSlug
  <2>3. Exists(r, "slug")' = Exists(r, "slug")
    BY <2>1 DEF Exists
  <2> QED
    BY <2>1, <2>2, <2>3 DEF UpToDate, Before, Checked
<1>5. CASE CheckSku(r)
  <2>1. /\ draft'[r] = None
        /\ \/ pc'[r] = "rejected"
           \/ pc'[r] \in {"enter_slug", "lock_row"} /\ ~Exists(r, "sku")
           \/ pc'[r] = "images" /\ op[r] # "create" /\ want[r].values = loaded[r]
        /\ UNCHANGED <<products, images, active, op, target, want, loaded, shown>>
    BY <1>0, <1>5, <1>d DEF TypeOK, CheckSku, Dirty, Proceed, GoTo, database, request,
       transaction
  <2>2. /\ op[r] = "update" => loaded[r] = Before(r).values
        /\ shown[r] = images[target[r]] /\ want[r].values.category \in active
        /\ ~Exists(r, "slug") /\ op[r] \in {"create", "update"}
    BY <1>0, <1>5 DEF TypeOK, PerRequest, Asked, UpToDate, CheckSku
  <2>3. Exists(r, "slug")' = Exists(r, "slug") /\ Exists(r, "sku")' = Exists(r, "sku")
    BY <2>1 DEF Exists
  <2> QED
    BY <2>1, <2>2, <2>3 DEF UpToDate, Before, Checked
<1>6. CASE LockRow(r)
  <2>1. /\ draft'[r] = Flushed(r, Before(r)) /\ pc'[r] = "enter_slug"
        /\ UNCHANGED <<products, images, active, op, target, want, loaded, shown>>
    BY <1>0, <1>6 DEF TypeOK, LockRow, GoTo, database, request
  <2>2. /\ loaded[r] = Before(r).values /\ Before(r) \in Product /\ want[r] \in Payload
        /\ shown[r] = images[target[r]] /\ want[r].values.category \in active
        /\ ~Exists(r, "slug") /\ ~Exists(r, "sku")
    <3>1. op[r] = "update" /\ target[r] \in Stored /\ want[r] \in Payload
      BY <1>0, <1>6 DEF TypeOK, PerRequest, Asked, Found, Checked, LockRow
    <3>2. Before(r) \in Product
      BY <1>0, <3>1 DEF TypeOK, Stored, Before
    <3> QED
      BY <1>6, <3>1, <3>2 DEF UpToDate, LockRow, Checked
  <2>3. Flushed(r, Before(r)).values = want[r].values
    BY <2>2, FlushedIsWanted
  <2>4. Exists(r, "slug")' = Exists(r, "slug") /\ Exists(r, "sku")' = Exists(r, "sku")
    BY <2>1 DEF Exists
  <2> QED
    BY <2>1, <2>2, <2>3, <2>4 DEF UpToDate, Checked
<1>7. CASE EnterKey(r)
  <2>1. /\ pc[r] \in {"enter_slug", "enter_sku"}
        /\ pc[r] = "enter_slug" => Column[pc[r]] = "slug"
        /\ pc[r] = "enter_sku" => Column[pc[r]] = "sku"
    BY <1>7 DEF EnterKey, Column
  <2>2. Written(r).values = want[r].values
    BY <1>0, <2>1 DEF TypeOK, PerRequest, Asked, Drafted, UpToDate, Written
  <2>3. ~Exists(r, Column[pc[r]]) /\ op[r] \in {"create", "update"}
        /\ (op[r] = "create" => target[r] = r /\ products[r] = None)
    BY <1>0, <2>1 DEF TypeOK, PerRequest, Asked, UpToDate, Over
  <2>4. ~Taken(r, Column[pc[r]])
    BY <2>2, <2>3 DEF Taken, Exists
  <2>5. /\ draft'[r] = Written(r)
        /\ pc'[r] = IF pc[r] = "enter_slug" THEN "enter_sku" ELSE "images"
        /\ UNCHANGED <<products, images, active, op, target, want, loaded, shown>>
    BY <1>0, <1>7, <2>4 DEF TypeOK, EnterKey, GoTo, database, request
  <2>6. Exists(r, "sku")' = Exists(r, "sku")
    BY <2>5 DEF Exists
  <2>7. Written(r) # None
    BY <1>0, <2>1, <2>3, WrittenIsProduct DEF PerRequest, Drafted
  <2>8. /\ shown[r] = images[target[r]] /\ want[r].values.category \in active
        /\ pc[r] = "enter_slug" => ~Exists(r, "sku")
    BY <2>1 DEF UpToDate, Checked
  <2> QED
    BY <2>1, <2>2, <2>5, <2>6, <2>7, <2>8 DEF UpToDate, Checked
<1>8. CASE ReplaceImages(r)
  <2>1. /\ dropped'[r] = shown[r] \cap images[target[r]] /\ pc'[r] = "commit"
        /\ UNCHANGED <<products, images, active, op, target, want, loaded, shown, draft>>
    BY <1>0, <1>8 DEF TypeOK, ReplaceImages, GoTo, database, request
  <2>2. /\ shown[r] = images[target[r]] /\ want[r].values.category \in active
        /\ draft[r] # None => draft[r].values = want[r].values
        /\ draft[r] = None => Before(r).values = want[r].values
    BY <1>8 DEF UpToDate, ReplaceImages, Checked
  <2> QED
    BY <2>1, <2>2 DEF UpToDate, Before, Checked
<1>9. CASE Commit(r) \/ Answer(r) \/ Abort(r)
  <2>1. draft'[r] = None /\ pc'[r] \in Over \cup {"failed"}
    BY <1>0, <1>9, <1>d DEF TypeOK, Commit, Answer, Abort, RollBack, Proceed, GoTo,
       transaction, Over
  <2> QED
    BY <2>1 DEF UpToDate, Checked, Over
<1> QED
  BY <1>1, <1>2, <1>3, <1>4, <1>5, <1>6, <1>7, <1>8, <1>9 DEF Advance

LEMMA AdvanceTurn ==
  ASSUME PInv, PInv', OneAtATime, \A q \in Requests : UpToDate(q),
         NEW r \in Requests, Advance(r) \/ Abort(r)
  PROVE  (OneAtATime /\ \A q \in Requests : UpToDate(q))'
<1>1. pc[r] \in Underway /\ \A q \in Requests \ {r} : Same(q)
  BY DEF PInv, TypeOK, Advance, Load, LoadImages, CheckCategory, CheckSlug, CheckSku, LockRow,
     EnterKey, Column, ReplaceImages, Commit, Answer, Abort, RollBack, Proceed, GoTo,
     request, transaction, Underway, Same
<1>2. UpToDate(r)'
  BY AdvanceUpToDate
<1> QED
  BY <1>1, <1>2, TurnStep

LEMMA ArriveTurn ==
  ASSUME PInv, PInv', OneAtATime, \A q \in Requests : UpToDate(q),
         NEW r \in Requests, Starts(r), alone'
  PROVE  (OneAtATime /\ \A q \in Requests : UpToDate(q))'
<1>0. TypeOK /\ PerRequest(r)
  BY DEF PInv
<1>1. /\ \A q \in Requests : pc[q] \notin Underway
      /\ \A q \in Requests \ {r} : Same(q)
      /\ draft'[r] = None
      /\ \/ pc'[r] = "load"
         \/ /\ pc'[r] = "check_category" /\ op'[r] = "create" /\ target'[r] = r
            /\ shown'[r] = {} /\ images'[r] = {}
  <2>1. ASSUME NEW s \in Sellers, NEW w \in Payload, StartCreate(r, s, w)
        PROVE  /\ \A q \in Requests : pc[q] \notin Underway
               /\ \A q \in Requests \ {r} : Same(q)
               /\ draft'[r] = None
               /\ pc'[r] = "check_category" /\ op'[r] = "create" /\ target'[r] = r
               /\ shown'[r] = {} /\ images'[r] = {}
    <3>1. pc[r] = "idle" /\ draft[r] = None /\ shown[r] = {} /\ products[r] = None
      BY <1>0, <2>1 DEF PerRequest, Drafted, Found, Asked, Over, StartCreate, Arrive
    <3>2. images[r] = {}
      BY <3>1, Sentinels DEF PInv, ImagesOfProducts, Stored
    <3> QED
      BY <1>0, <2>1, <3>1, <3>2 DEF TypeOK, StartCreate, Arrive, GoTo, database, transaction,
         Same
  <2>2. ASSUME NEW s \in Sellers, NEW w \in Payload, NEW p \in ProductIds \cup {None},
               StartUpdate(r, s, p, w)
        PROVE  /\ \A q \in Requests : pc[q] \notin Underway
               /\ \A q \in Requests \ {r} : Same(q)
               /\ draft'[r] = None /\ pc'[r] = "load"
    <3>1. pc[r] = "idle" /\ draft[r] = None
      BY <1>0, <2>2 DEF PerRequest, Drafted, StartUpdate, Arrive
    <3> QED
      BY <1>0, <2>2, <3>1 DEF TypeOK, StartUpdate, Arrive, GoTo, database, transaction, Same
  <2> QED
    BY <2>1, <2>2 DEF Starts, Stored
<1>2. UpToDate(r)'
  BY <1>1 DEF UpToDate, Checked
<1> QED
  BY <1>1, <1>2, TurnStep

LEMMA NextTurn == PInv /\ PInv' /\ InTurn /\ [Next]_vars => InTurn'
<1> SUFFICES ASSUME PInv, PInv', InTurn, [Next]_vars, alone'
             PROVE  (OneAtATime /\ \A q \in Requests : UpToDate(q))'
  BY DEF InTurn
<1>1. CASE \E r \in Requests : Starts(r)
  <2>1. alone
    BY <1>1 DEF Starts, StartCreate, StartUpdate, Arrive
  <2> QED
    BY <1>1, <2>1, ArriveTurn DEF InTurn
<1>2. CASE \E r \in Requests : Advance(r) \/ Abort(r)
  <2>1. alone' = alone
    BY <1>2 DEF Advance, Load, LoadImages, CheckCategory, CheckSlug, CheckSku, LockRow,
       EnterKey, ReplaceImages, Commit, Answer, Abort, RollBack, Proceed, request
  <2> QED
    BY <1>2, <2>1, AdvanceTurn DEF InTurn
<1>3. CASE \E c \in Categories : SetActive(c)
  <2>1. /\ alone /\ \A q \in Requests : pc[q] \notin Underway
        /\ UNCHANGED <<pc, draft>>
    BY <1>3 DEF SetActive, transaction
  <2>2. ASSUME NEW q \in Requests PROVE UpToDate(q)'
    <3>1. UpToDate(q) /\ PerRequest(q)
      BY <2>1, <2>2 DEF PInv, InTurn
    <3>2. draft[q] = None
      BY <2>1, <2>2, <3>1 DEF PerRequest, Drafted, Underway
    <3> QED
      BY <2>1, <2>2, <3>1, <3>2 DEF UpToDate, Checked, Underway
  <2> QED
    BY <2>1, <2>2 DEF OneAtATime
<1>4. CASE AllSettled \/ UNCHANGED vars
  <2>1. UNCHANGED <<products, images, active, pc, op, seller, target, want, alone, loaded,
                    shown, draft, dropped>>
    BY <1>4 DEF AllSettled, vars, database, request, transaction
  <2>2. OneAtATime' /\ \A q \in Requests : UpToDate(q)
    BY <2>1 DEF InTurn, OneAtATime
  <2>3. ASSUME NEW q \in Requests PROVE UpToDate(q)'
    <3>1. /\ Exists(q, "slug")' = Exists(q, "slug") /\ Exists(q, "sku")' = Exists(q, "sku")
          /\ Before(q)' = Before(q)
      BY <2>1 DEF Exists, Before
    <3> QED
      BY <2>1, <2>2, <3>1 DEF UpToDate
  <2> QED
    BY <2>2, <2>3
<1> QED
  BY <1>1, <1>2, <1>3, <1>4 DEF Next

LEMMA InTurnAlways == Spec => [](PInv /\ InTurn)
<1>1. Init => InTurn
  BY DEF Init, Each, InTurn, OneAtATime, UpToDate, Underway, Checked
<1> QED
  BY <1>1, InitPInv, NextPInv, NextTurn, PTL DEF Spec

\* As long as requests take turns no request fails on a constraint.
THEOREM ForeseenConflicts == Spec => []ConflictsAreRefused
<1>1. InTurn => ConflictsAreRefused
  BY DEF InTurn, UpToDate, ConflictsAreRefused
<1> QED
  BY <1>1, InTurnAlways, PTL

\* As long as requests take turns a commit stores the values of the payload,
\* although the flush writes only what differs, and leaves no older image.
THEOREM PayloadInTurn == Spec => StoresPayload
<1> DEFINE A ==
  \A r \in Requests :
     alone /\ Commits(r) =>
       /\ products'[target[r]].values = want[r].values
       /\ images'[target[r]] = NewImages(r)
<1>1. ASSUME PInv, InTurn, [Next]_vars PROVE A
  <2> SUFFICES ASSUME NEW r \in Requests, alone, Commits(r)
               PROVE  /\ products'[target[r]].values = want[r].values
                      /\ images'[target[r]] = NewImages(r)
    OBVIOUS
  <2>1. TypeOK /\ pc[r] = "commit" /\ pc'[r] = "answer"
    BY <1>1 DEF PInv, Commits
  <2>2. Commit(r)
    <3>1. ASSUME NEW q \in Requests, q # r, Advance(q) \/ Abort(q) PROVE FALSE
      BY <2>1, <3>1 DEF TypeOK, Advance, Load, LoadImages, CheckCategory, CheckSlug,
         CheckSku, LockRow, EnterKey, ReplaceImages, Commit, Answer, Abort, RollBack,
         Proceed, GoTo
    <3>2. ASSUME NEW q \in Requests, Starts(q) PROVE FALSE
      BY <2>1, <3>2 DEF TypeOK, Starts, StartCreate, StartUpdate, Arrive, GoTo
    <3>3. CASE Advance(r) \/ Abort(r)
      BY <2>1, <3>3 DEF TypeOK, Advance, Load, LoadImages, CheckCategory, CheckSlug,
         CheckSku, LockRow, EnterKey, Column, ReplaceImages, Answer, Abort, RollBack,
         Proceed, GoTo
    <3>4. ~(AllSettled \/ UNCHANGED vars)
      BY <2>1 DEF AllSettled, vars
    <3>5. ~\E c \in Categories : SetActive(c)
      BY <2>1 DEF SetActive
    <3> QED
      BY <1>1, <3>1, <3>2, <3>3, <3>4, <3>5 DEF Next
  <2>3. /\ draft[r] = None => products' = products
        /\ draft[r] # None => products'[target[r]] = draft[r]
        /\ images'[target[r]] = (images[target[r]] \ dropped[r]) \cup NewImages(r)
    BY <1>1, <2>2, CommitStep
  <2>4. UpToDate(r)
    BY <1>1 DEF InTurn
  <2> QED
    BY <2>1, <2>3, <2>4 DEF UpToDate, Before
<1> QED
  BY <1>1, InTurnAlways, PTL DEF Spec, StoresPayload

-----------------------------------------------------------------------------
(* Products implements Catalog.                                            *)

\* The keys of a stored product are free of all others'.
LEMMA StoredKeysAreFree ==
  ASSUME TypeOK, UniqueKeys, NEW p \in Stored
  PROVE  PublicCatalog!KeysFree(p, products[p].values)
<1>1. ASSUME NEW q \in Stored \ {p}
      PROVE  /\ products[q].values.slug # products[p].values.slug
             /\ products[q].values.sku # products[p].values.sku
  <2>1. /\ products[p].values \in Values /\ products[q].values \in Values
    BY DEF TypeOK, Stored, Product
  <2>2. /\ products[q].values["slug"] # products[p].values["slug"]
        /\ products[q].values["sku"] # products[p].values["sku"]
    BY <1>1 DEF UniqueKeys
  <2> QED
    BY <2>1, <2>2, Columns
<1> QED
  BY <1>1 DEF PublicCatalog!KeysFree, PublicCatalog!Stored, Stored

LEMMA InitMapped == Init => PublicCatalog!Init
<1> SUFFICES ASSUME Init PROVE PublicCatalog!Init
  OBVIOUS
<1>1. PInv
  BY InitPInv
<1>2. \A p \in Stored : PublicCatalog!KeysFree(p, products[p].values)
  BY <1>1, StoredKeysAreFree DEF PInv
<1> QED
  BY <1>1, <1>2 DEF PInv, TypeOK, ImagesOfProducts, Init, PublicCatalog!Init,
     PublicCatalog!Stored, PublicCatalog!Product, Product, Stored

LEMMA CommitMapped ==
  ASSUME PInv, PInv', InTurn, NEW r \in Requests, Commit(r)
  PROVE  PublicCatalog!Next
<1> USE Sentinels
<1>c. /\ pc[r] = "commit" /\ target[r] \in ProductIds /\ op[r] \in {"create", "update"}
      /\ products' \in [ProductIds -> Product \cup {None}]
      /\ draft[r] = None => products' = products /\ op[r] = "update"
      /\ draft[r] # None => products'[target[r]] = draft[r]
      /\ \A p \in ProductIds \ {target[r]} :
           products'[p] = products[p] /\ images'[p] = images[p]
      /\ products'[target[r]] # None
      /\ op[r] = "update" => /\ target[r] \in Stored
                             /\ products[target[r]].seller = seller[r]
                             /\ products'[target[r]].seller = seller[r]
      /\ op[r] = "create" => /\ target[r] = r /\ products[r] = None
                             /\ products'[r] = [seller |-> seller[r],
                                                values |-> want[r].values]
      /\ images'[target[r]] = (images[target[r]] \ dropped[r]) \cup NewImages(r)
      /\ NewImages(r) \subseteq Image
  BY CommitStep
<1> DEFINE p == target[r]
           v == products'[p].values
           kept == images[p] \ dropped[r]
           new == NewImages(r)
<1>0. /\ TypeOK /\ PerRequest(r) /\ p \in ProductIds /\ p \in Stored'
      /\ products'[p] \in Product
  BY <1>c DEF PInv, Stored
<1>1. v \in Values /\ products'[p] = [seller |-> products'[p].seller, values |-> v]
  BY <1>0 DEF Product
<1>2. PublicCatalog!KeysFree(p, v)
  <2>1. ASSUME NEW q \in Stored \ {p}
        PROVE  products[q].values.slug # v.slug /\ products[q].values.sku # v.sku
    <3>1. q \in Stored' /\ products'[q] = products[q] /\ products[q].values \in Values
      BY <1>c, <1>0, <2>1 DEF TypeOK, Stored, Product
    <3>2. /\ products'[q].values["slug"] # products'[p].values["slug"]
          /\ products'[q].values["sku"] # products'[p].values["sku"]
      BY <1>0, <2>1, <3>1 DEF PInv, UniqueKeys
    <3> QED
      BY <1>1, <3>1, <3>2, Columns
  <2> QED
    BY <2>1 DEF PublicCatalog!KeysFree, PublicCatalog!Stored, Stored
<1>3. /\ images' = [images EXCEPT ![p] = kept \cup new]
      /\ UNCHANGED <<active, alone>>
  BY <1>0 DEF TypeOK, Commit, request
<1>4. alone => /\ kept = {}
               /\ v.category \in active
  <2>1. ASSUME alone PROVE UpToDate(r)
    BY <2>1 DEF InTurn
  <2>2. alone => kept = {} /\ want[r].values.category \in active
    BY <1>c, <2>1 DEF UpToDate, Checked
  <2>3. alone => v = want[r].values
    BY <1>c, <2>1 DEF UpToDate, Before
  <2> QED
    BY <2>2, <2>3
<1>5. new \subseteq Image
  BY <1>c
<1>6. CASE op[r] = "create"
  <2>1. images[p] = {}
    BY <1>c, <1>0, <1>6 DEF PInv, ImagesOfProducts, Stored
  <2>2. images' = [images EXCEPT ![p] = new]
    BY <1>3, <2>1
  <2>3. seller[r] \in Sellers /\ products'[p] = [seller |-> seller[r], values |-> v]
    BY <1>c, <1>0, <1>1, <1>6 DEF PerRequest, Asked
  <2>4. products' = [products EXCEPT ![p] = [seller |-> seller[r], values |-> v]]
    BY <1>c, <1>0, <2>3 DEF TypeOK
  <2>5. PublicCatalog!Create(p, seller[r], v, new)
    BY <1>c, <1>2, <1>3, <1>4, <1>6, <2>2, <2>4 DEF PublicCatalog!Create
  <2> HIDE DEF p, v, new
  <2> QED
    BY <1>0, <1>1, <1>5, <2>3, <2>5 DEF PublicCatalog!Next, PublicCatalog!Write
<1>7. CASE op[r] = "update"
  <2>1. products' = [products EXCEPT ![p].values = v]
    <3>1. products[p] \in Product /\ products'[p].seller = products[p].seller
      BY <1>c, <1>0, <1>7 DEF TypeOK, Stored
    <3>2. products'[p] = [products[p] EXCEPT !.values = v]
      BY <1>1, <3>1 DEF Product
    <3> QED
      BY <1>c, <1>0, <3>2 DEF TypeOK
  <2>2. new \cap PublicCatalog!AllImages = {}
    <3>1. ASSUME NEW q \in ProductIds, NEW i \in images[q], i \in new PROVE FALSE
      BY <1>c, <3>1 DEF PInv, Provenance, NewImages, Over
    <3> QED
      BY <3>1 DEF PublicCatalog!AllImages
  <2>3. products[p] # None
    BY <1>c, <1>7 DEF Stored
  <2>4. PublicCatalog!Update(p, v, kept, new)
    BY <1>2, <1>3, <1>4, <2>1, <2>2, <2>3 DEF PublicCatalog!Update
  <2>5. kept \in SUBSET images[p]
    OBVIOUS
  <2> HIDE DEF p, v, kept, new
  <2> QED
    BY <1>0, <1>1, <1>5, <2>4, <2>5 DEF PublicCatalog!Next, PublicCatalog!Write
<1> QED
  BY <1>c, <1>6, <1>7

LEMMA NextMapped ==
  PInv /\ PInv' /\ InTurn /\ [Next]_vars => [PublicCatalog!Next]_(PublicCatalog!vars)
<1> SUFFICES ASSUME PInv, PInv', InTurn, [Next]_vars
             PROVE  PublicCatalog!Next \/ UNCHANGED PublicCatalog!vars
  OBVIOUS
<1>1. ASSUME NEW r \in Requests, Commit(r) PROVE PublicCatalog!Next
  BY <1>1, CommitMapped
<1>2. ASSUME NEW r \in Requests, Starts(r)
      PROVE  PublicCatalog!Next \/ UNCHANGED PublicCatalog!vars
  <2>1. UNCHANGED <<products, images, active>> /\ alone' \in {alone, FALSE}
    BY <1>2 DEF Starts, StartCreate, StartUpdate, Arrive, database, PInv, TypeOK
  <2> QED
    BY <2>1 DEF PublicCatalog!Next, PublicCatalog!Share, PublicCatalog!vars
<1>3. ASSUME NEW r \in Requests, Advance(r) \/ Abort(r), ~Commit(r)
      PROVE  UNCHANGED PublicCatalog!vars
  BY <1>3 DEF Advance, Load, LoadImages, CheckCategory, CheckSlug, CheckSku, LockRow,
     EnterKey, ReplaceImages, Answer, Abort, Proceed, RollBack, database, request,
     PublicCatalog!vars
<1>4. ASSUME NEW c \in Categories, SetActive(c) PROVE PublicCatalog!Next
  <2>1. alone' \in {alone, FALSE}
    BY <1>4 DEF SetActive, PInv, TypeOK
  <2> QED
    BY <1>4, <2>1 DEF SetActive, PublicCatalog!Next, PublicCatalog!SetActive
<1>5. CASE AllSettled \/ UNCHANGED vars
  BY <1>5 DEF AllSettled, vars, database, request, PublicCatalog!vars
<1> QED
  BY <1>1, <1>2, <1>3, <1>4, <1>5 DEF Next

\* The tables implement the catalog that readers rely on: each commit creates
\* or updates one whole product and every other step of a request stutters, or
\* ends the time in which requests take turns.
THEOREM CatalogRefinement == Spec => RefinesCatalog
<1>1. Spec => [](PInv /\ InTurn)
  BY InTurnAlways
<1>2. Spec => [][Next]_vars /\ Init
  BY DEF Spec
<1> QED
  BY <1>1, <1>2, InitMapped, NextMapped, PTL DEF RefinesCatalog, PublicCatalog!Spec
=============================================================================
