--------------------------- MODULE MCAddressBook ---------------------------
(***************************************************************************)
(* Small instances of AddressBook for TLC.                                  *)
(***************************************************************************)
EXTENDS AddressBook, TLC

\* Requests, stored addresses and types differ only in name.
Symmetric ==
  Permutations(Requests) \cup Permutations(Existing) \cup Permutations(Types)

\* SYMMETRY is unsound for liveness.  Instead, of the initial states that
\* differ only in the names of users, types and stored addresses, one is kept:
\* each user, type and address may be the one that is named first.
NamedInit ==
  LET u == CHOOSE u \in Users : TRUE
      t == CHOOSE t \in Types : TRUE
      a == CHOOSE a \in Existing : TRUE
  IN  /\ Init
      /\ rows[a].user = u /\ rows[a].type = t
      /\ \A b \in Existing : rows[b].default => rows[a].default

NamedFairSpec == NamedInit /\ [][Next]_vars /\ \A r \in Requests : WF_vars(Advance(r))
=============================================================================
