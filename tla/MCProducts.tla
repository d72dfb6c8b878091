----------------------------- MODULE MCProducts -----------------------------
(***************************************************************************)
(* Products for TLC.  All the names that requests and columns are made of  *)
(* are treated alike, and may be renamed.                                  *)
(***************************************************************************)
EXTENDS Products, TLC

Symmetry ==
  Permutations(Requests) \cup Permutations(Existing) \cup Permutations(Sellers)
    \cup Permutations(Categories) \cup Permutations(Slugs)
    \cup Permutations(Skus) \cup Permutations(Bodies) \cup Permutations(Pictures)
=============================================================================
