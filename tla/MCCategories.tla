---------------------------- MODULE MCCategories ----------------------------
(***************************************************************************)
(* Categories for TLC.  Requests, stored categories and slugs are treated  *)
(* alike, and may be renamed.                                              *)
(***************************************************************************)
EXTENDS Categories, TLC

Symmetry ==
  Permutations(Requests) \cup Permutations(Existing) \cup Permutations(Slugs)
=============================================================================
