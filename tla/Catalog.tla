------------------------------- MODULE Catalog -------------------------------
(***************************************************************************)
(* What the catalog promises to those who read it, whatever requests write *)
(* it: a step stores one product with its images, or changes one, or turns *)
(* a category on or off, and nothing is half stored.  Products implements  *)
(* it; Listing reads it.                                                   *)
(*                                                                         *)
(* exclusive is TRUE as long as writers take turns.  Then a product is     *)
(* created under an active category only, and an update leaves no image    *)
(* the product had before.                                                 *)
(***************************************************************************)
CONSTANTS
  ProductIds,
  Sellers,
  Values,      \* records with category, slug, sku and whatever else
  Images,
  Categories,
  None

VARIABLES
  products,    \* products[p]: seller and values of product p, or None
  images,      \* images[p]: its images
  active,      \* the categories that are active
  exclusive    \* no writer has overlapped another yet

Product == [seller : Sellers, values : Values]
Stored == {p \in ProductIds : products[p] # None}
AllImages == UNION {images[p] : p \in ProductIds}

\* Slug and SKU belong to one product.
KeysFree(p, v) ==
  \A q \in Stored \ {p} : /\ products[q].values.slug # v.slug
                          /\ products[q].values.sku # v.sku

Init ==
  /\ products \in [ProductIds -> Product \cup {None}]
  /\ \A p \in Stored : KeysFree(p, products[p].values)
  /\ images \in [ProductIds -> SUBSET Images]
  /\ \A p \in ProductIds \ Stored : images[p] = {}
  /\ active = Categories
  /\ exclusive = TRUE

Create(p, s, v, new) ==
  /\ products[p] = None
  /\ products' = [products EXCEPT ![p] = [seller |-> s, values |-> v]]
  /\ KeysFree(p, v)
  /\ exclusive => v.category \in active
  /\ images' = [images EXCEPT ![p] = new]
  /\ UNCHANGED <<active, exclusive>>

\* The seller stays.  The images an update brings are rows of their own.
Update(p, v, kept, new) ==
  /\ products[p] # None
  /\ products' = [products EXCEPT ![p].values = v]
  /\ KeysFree(p, v)
  /\ exclusive => kept = {}
  /\ new \cap AllImages = {}
  /\ images' = [images EXCEPT ![p] = kept \cup new]
  /\ UNCHANGED <<active, exclusive>>

SetActive(c) ==
  /\ active' = IF c \in active THEN active \ {c} ELSE active \cup {c}
  /\ exclusive' \in {exclusive, FALSE}
  /\ UNCHANGED <<products, images>>

\* Two writers overlap from now on.
Share ==
  /\ exclusive' = FALSE
  /\ UNCHANGED <<products, images, active>>

Write(p, v, new) ==
  \/ \E s \in Sellers : Create(p, s, v, new)
  \/ \E kept \in SUBSET images[p] : Update(p, v, kept, new)

Next ==
  \/ \E p \in ProductIds, v \in Values : \E new \in SUBSET Images : Write(p, v, new)
  \/ \E c \in Categories : SetActive(c)
  \/ Share

vars == <<products, images, active, exclusive>>
Spec == Init /\ [][Next]_vars
=============================================================================
