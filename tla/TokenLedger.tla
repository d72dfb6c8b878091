---------------------------- MODULE TokenLedger ----------------------------
(***************************************************************************)
(* What the refresh-token table promises, whatever the requests do: a      *)
(* token is issued once, to one account; when it has been retired it is    *)
(* dead for good; and a rotation retires one token and issues another to   *)
(* the same account in a single step.                                      *)
(*                                                                         *)
(* While the ledger is exclusive, a rotation only spends a token that is   *)
(* still live.  AuthService refines this module with a ledger that stays   *)
(* exclusive until two of its requests overlap, and no longer.             *)
(***************************************************************************)
CONSTANTS Tokens, Accounts, None

VARIABLES
  issued,    \* issued[t]: whose token t is and which one it replaced, or None
  dead,      \* the tokens that were retired
  exclusive  \* whether only live tokens are rotated

ledger == <<issued, dead, exclusive>>

Entry(account, origin) == [holder |-> account, origin |-> origin]

Init ==
  /\ issued = [t \in Tokens |-> None]
  /\ dead = {}
  /\ exclusive = TRUE

\* register and login issue a first token to an account.
Issue(t, a) ==
  /\ issued[t] = None
  /\ issued' = [issued EXCEPT ![t] = Entry(a, None)]
  /\ UNCHANGED <<dead, exclusive>>

\* refresh retires t and issues s to the account that holds t.
Rotate(t, s) ==
  /\ issued[t] # None /\ issued[s] = None
  /\ exclusive => t \notin dead
  /\ issued' = [issued EXCEPT ![s] = Entry(issued[t].holder, t)]
  /\ dead' = dead \cup {t}
  /\ UNCHANGED exclusive

\* logout retires t.
Retire(t) ==
  /\ issued[t] # None
  /\ dead' = dead \cup {t}
  /\ UNCHANGED <<issued, exclusive>>

\* From now on rotations may be concurrent.
Share ==
  /\ exclusive' = FALSE
  /\ UNCHANGED <<issued, dead>>

Next ==
  \/ \E t \in Tokens, a \in Accounts : Issue(t, a)
  \/ \E t, s \in Tokens : Rotate(t, s)
  \/ \E t \in Tokens : Retire(t)
  \/ Share

Spec == Init /\ [][Next]_ledger
=============================================================================
