---------------------------- MODULE MCUserAccess ----------------------------
(* Small instances of UserAccess for TLC.                                   *)
EXTENDS UserAccess, TLC

\* Requests, users, names and roles differ only in name.
Symmetry ==
  Permutations(Requests) \cup Permutations(Users) \cup Permutations(Names)
    \cup Permutations(Roles)
=============================================================================
