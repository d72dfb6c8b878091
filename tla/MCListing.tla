------------------------------ MODULE MCListing ------------------------------
(***************************************************************************)
(* Listing for TLC: two bodies, one of them hidden, so that three products *)
(* tie in price and in name but not in age, and queries with each of the   *)
(* filters.                                                                *)
(***************************************************************************)
EXTENDS Listing, TLC

CONSTANTS k1, k2, u1

MCTimes == 1..3
Shown == [name |-> 1, price |-> 2, is_active |-> TRUE]
Hidden == [name |-> 2, price |-> 1, is_active |-> FALSE]
MCBodies == {Shown, Hidden}

All == [search |-> None, category |-> None, seller |-> None,
        active_only |-> FALSE, sort |-> "newest"]
MCQueries ==
  {All,
   [All EXCEPT !.active_only = TRUE, !.seller = u1, !.sort = "price_asc"],
   [All EXCEPT !.category = k1, !.search = {Shown}, !.sort = "name"]}

Symmetry == Permutations(ProductIds)
=============================================================================
