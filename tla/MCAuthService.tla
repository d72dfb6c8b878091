--------------------------- MODULE MCAuthService ---------------------------
(* Small instances of AuthService for TLC.                                  *)
EXTENDS AuthService, TLC

CONSTANTS lower, upper  \* two spellings of one address

MCLower == [m \in Spellings |-> lower]

\* Requests differ only in their names.
Symmetric == Permutations(Requests)
=============================================================================
