---------------------------- MODULE AddressBook ----------------------------
(***************************************************************************)
(* Creating, replacing and deleting the addresses of a user, and the rule  *)
(* that a user has one default address of each type (services/user.py,     *)
(* repositories/address.py), over the table addresses.                     *)
(*                                                                         *)
(* A request is one transaction at READ COMMITTED, and a step is what it   *)
(* does between two awaits on the database:                                *)
(*   - a SELECT, and the rows an UPDATE will visit, are taken from the     *)
(*     rows committed when the statement starts;                           *)
(*   - an UPDATE or DELETE locks its rows one by one, waiting for their    *)
(*     holder, and looks again at what the holder committed;               *)
(*   - locks are kept until the transaction ends, and of the requests that *)
(*     wait in a circle the database makes one fail;                       *)
(*   - a flush writes only the columns in which the payload differs from   *)
(*     the row as the session loaded it.                                   *)
(*                                                                         *)
(* An address has the columns the rule is about, address_type and          *)
(* is_default, and its body: all other columns of the payload at once.     *)
(* Requests that list addresses change nothing and are left out.           *)
(***************************************************************************)
CONSTANTS
  Requests,  \* the requests that may arrive, each at most once
  Existing,  \* addresses stored before the first of them
  Users,     \* the authenticated users
  Types,     \* shipping and billing
  Bodies,    \* what the other columns may hold
  None,      \* no row, no image, nothing written
  Gone       \* a row deleted by a transaction that has not committed

Addresses == Requests \cup Existing  \* a create's uuid4 is named by its request

Settled == {"ok", "rejected", "failed", "lost"}
Underway == {"load", "begin_unset", "unset", "write", "commit", "answer"}
Stages == {"idle"} \cup Underway \cup Settled

Payload == [type : Types, default : BOOLEAN, body : Bodies]
Row == [user : Users, type : Types, default : BOOLEAN, body : Bodies]

ASSUME DistinctAssumption == Requests \cap Existing = {}
ASSUME SentinelAssumption ==
  None # Gone /\ {None, Gone} \cap (Row \cup Addresses \cup Payload) = {}

VARIABLES
  rows,    \* rows[a]: the committed address a, or None
  pc,      \* pc[r]: the stage request r has reached
  op,      \* op[r]: create, replace or delete
  user,    \* user[r]: the authenticated user
  target,  \* target[r]: the address in the path, for a create its own
  want,    \* want[r]: the validated body of the request
  alone,   \* history: no request arrived while another was under way
  loaded,  \* loaded[r]: the target as the ORM session knows it
  todo,    \* todo[r]: rows the bulk UPDATE of r has still to visit
  aim,     \* aim[r]: the one of them it visits next
  draft,   \* draft[r][a]: what r has written to a and not committed
  locks    \* locks[r]: the rows r keeps locked

request == <<op, user, target, want, alone>>
transaction == <<loaded, todo, aim, draft, locks>>
vars == <<rows, pc, request, transaction>>

Each(x) == [r \in Requests |-> x]
Unwritten == [a \in Addresses |-> None]

Defaults(table, u, t) ==
  {a \in Addresses : /\ table[a] # None
                     /\ table[a].user = u /\ table[a].type = t
                     /\ table[a].default}

\* "Only one default shipping or billing address should exist per user."
OneDefaultIn(table) ==
  \A u \in Users, t \in Types :
    \A a, b \in Defaults(table, u, t) : a = b

\* Any book that keeps the rule can be built by creates that do not overlap.
Init ==
  /\ rows \in [Addresses -> Row \cup {None}]
  /\ \A a \in Addresses : rows[a] # None <=> a \in Existing
  /\ OneDefaultIn(rows)
  /\ pc = Each("idle") /\ op = Each("none")
  /\ user = Each(None) /\ target = Each(None) /\ want = Each(None)
  /\ alone = TRUE
  /\ loaded = Each(None) /\ todo = Each({}) /\ aim = Each(None)
  /\ draft = Each(Unwritten) /\ locks = Each({})

-----------------------------------------------------------------------------
(* What a statement sees, and what it would write.                         *)

\* Mutant: the row is stored without its user_id.
RowWithoutUser(r) == [user |-> None, type |-> want[r].type,
                      default |-> want[r].default, body |-> want[r].body]

RowFor(r) == [user |-> user[r], type |-> want[r].type,
              default |-> want[r].default, body |-> want[r].body]

\* Mutant: the address is looked up by its id alone.
VisibleToAnyone(r, a) == a # None /\ rows[a] # None

\* The WHERE clause of get_for_user.
Visible(r, a) == a # None /\ rows[a] # None /\ rows[a].user = user[r]

\* Mutant: the bulk UPDATE is not restricted to the address type.
UnsetsAnyType(r, a) == rows[a] # None /\ rows[a].user = user[r]

\* The WHERE clause of unset_default_for_type.
Unsets(r, a) ==
  /\ rows[a] # None
  /\ rows[a].user = user[r] /\ rows[a].type = want[r].type

\* Mutant: synchronize_session=False.
NotSynchronised(r) == loaded

\* The bulk UPDATE also changes the loaded address in memory, if that
\* address has the type as far as the session knows.
Synchronised(r) ==
  IF loaded[r] # None /\ loaded[r].type = want[r].type
    THEN [loaded EXCEPT ![r].default = FALSE]
    ELSE loaded

\* setattr marks the columns that differ from the image, and no other.
Dirty(r) == \/ want[r].type # loaded[r].type
            \/ want[r].default # loaded[r].default
            \/ want[r].body # loaded[r].body

Flushed(r, row) ==
  [row EXCEPT
    !.type = IF want[r].type # loaded[r].type THEN want[r].type ELSE @,
    !.default = IF want[r].default # loaded[r].default THEN want[r].default ELSE @,
    !.body = IF want[r].body # loaded[r].body THEN want[r].body ELSE @]

\* Mutant: a row that is gone is written back from the loaded image.
CurrentOrLoaded(r, a) ==
  IF draft[r][a] # None THEN draft[r][a]
  ELSE IF rows[a] # None THEN rows[a] ELSE loaded[r]

\* A transaction reads its own writes before the committed rows.
Current(r, a) == IF draft[r][a] = None THEN rows[a] ELSE draft[r][a]

LockedFor(r, a) == \A q \in Requests \ {r} : a \notin locks[q]

\* The row the statement r is executing has to lock next, if any.
Awaited(r) ==
  IF pc[r] = "unset" THEN aim[r]
  ELSE IF pc[r] = "write" /\ (op[r] = "delete" \/ (op[r] = "replace" /\ Dirty(r)))
    THEN target[r]
    ELSE None

Blocks(q, r) == q # r /\ Awaited(r) # None /\ Awaited(r) \in locks[q]

\* Every member of a circle waits for a member and is waited for by one.
Deadlocked(r) ==
  \E circle \in SUBSET Requests :
    /\ r \in circle
    /\ \A p \in circle : /\ \E q \in circle : Blocks(q, p)
                         /\ \E q \in circle : Blocks(p, q)

-----------------------------------------------------------------------------
(* A request arrives, moves on, or loses its transaction.                  *)

GoTo(r, stage) == pc' = [pc EXCEPT ![r] = stage]

Arrive(r, o, u, a, w, stage) ==
  /\ pc[r] = "idle"
  /\ alone' = (alone /\ \A q \in Requests : pc[q] \notin Underway)
  /\ op' = [op EXCEPT ![r] = o]
  /\ user' = [user EXCEPT ![r] = u]
  /\ target' = [target EXCEPT ![r] = a]
  /\ want' = [want EXCEPT ![r] = w]
  /\ GoTo(r, stage)
  /\ UNCHANGED <<rows, transaction>>

\* The session is closed: whatever was not committed is undone.
CloseSession(r) ==
  /\ loaded' = [loaded EXCEPT ![r] = None]
  /\ todo' = [todo EXCEPT ![r] = {}]
  /\ aim' = [aim EXCEPT ![r] = None]
  /\ draft' = [draft EXCEPT ![r] = Unwritten]
  /\ locks' = [locks EXCEPT ![r] = {}]

RollBack(r) ==
  /\ GoTo(r, "failed")
  /\ CloseSession(r)
  /\ UNCHANGED <<rows, request>>

\* Mutant: is_default is stored and no other default is unset.
StageForPlain(w) == "write"

\* create_address and update_address unset the other defaults only for a
\* payload with is_default.
StageFor(w) == IF w.default THEN "begin_unset" ELSE "write"

StartCreate(r, u, w) == Arrive(r, "create", u, r, w, StageFor(w))
StartReplace(r, u, a, w) == Arrive(r, "replace", u, a, w, "load")
StartDelete(r, u, a) == Arrive(r, "delete", u, a, None, "load")

-----------------------------------------------------------------------------
(* The statements of a request.                                            *)

\* _get_owned_address.
Load(r) ==
  /\ pc[r] = "load"
  /\ IF Visible(r, target[r])
       THEN /\ loaded' = [loaded EXCEPT ![r] = rows[target[r]]]
            /\ GoTo(r, IF op[r] = "delete" THEN "write" ELSE StageFor(want[r]))
       ELSE /\ GoTo(r, "rejected")
            /\ UNCHANGED loaded
  /\ UNCHANGED <<rows, request, todo, aim, draft, locks>>

\* Goes on with the rows the bulk UPDATE has left, in any order.
VisitNext(r, left) ==
  /\ todo' = [todo EXCEPT ![r] = left]
  /\ IF left = {}
       THEN /\ aim' = [aim EXCEPT ![r] = None]
            /\ loaded' = Synchronised(r)
            /\ GoTo(r, "write")
       ELSE /\ \E a \in left : aim' = [aim EXCEPT ![r] = a]
            /\ GoTo(r, "unset")
            /\ UNCHANGED loaded

\* Mutant: a bulk UPDATE that matches no row is repeated.
BeginUnsetUntilMatched(r) ==
  /\ pc[r] = "begin_unset"
  /\ \E a \in Addresses : Unsets(r, a)
  /\ VisitNext(r, {a \in Addresses : Unsets(r, a)})
  /\ UNCHANGED <<rows, request, draft, locks>>

\* unset_default_for_type starts: its snapshot is taken.
BeginUnset(r) ==
  /\ pc[r] = "begin_unset"
  /\ VisitNext(r, {a \in Addresses : Unsets(r, a)})
  /\ UNCHANGED <<rows, request, draft, locks>>

\* It locks one row and updates it, if it still fits the WHERE clause.
UnsetRow(r) ==
  /\ pc[r] = "unset"
  /\ LockedFor(r, aim[r])
  /\ locks' = IF rows[aim[r]] = None THEN locks
              ELSE [locks EXCEPT ![r] = @ \cup {aim[r]}]
  /\ draft' = IF Unsets(r, aim[r])
                THEN [draft EXCEPT ![r][aim[r]] =
                        [rows[aim[r]] EXCEPT !.default = FALSE]]
                ELSE draft
  /\ VisitNext(r, todo[r] \ {aim[r]})
  /\ UNCHANGED <<rows, request>>

Insert(r) ==
  /\ pc[r] = "write" /\ op[r] = "create"
  /\ draft' = [draft EXCEPT ![r][r] = RowFor(r)]
  /\ GoTo(r, "commit")
  /\ UNCHANGED <<rows, request, loaded, todo, aim, locks>>

\* update flushes the changed columns and refreshes the row.  A row deleted
\* meanwhile makes the flush or the refresh fail.
Replace(r) ==
  /\ pc[r] = "write" /\ op[r] = "replace"
  /\ Dirty(r) => LockedFor(r, target[r])
  /\ IF Current(r, target[r]) = None
       THEN RollBack(r)
       ELSE /\ IF Dirty(r)
                 THEN /\ draft' = [draft EXCEPT ![r][target[r]] =
                                     Flushed(r, Current(r, target[r]))]
                      /\ locks' = [locks EXCEPT ![r] = @ \cup {target[r]}]
                 ELSE UNCHANGED <<draft, locks>>
            /\ GoTo(r, "commit")
            /\ UNCHANGED <<rows, request, loaded, todo, aim>>

\* A DELETE that finds no row is a warning, and the request goes on.
Delete(r) ==
  /\ pc[r] = "write" /\ op[r] = "delete"
  /\ LockedFor(r, target[r])
  /\ IF rows[target[r]] = None
       THEN UNCHANGED <<draft, locks>>
       ELSE /\ draft' = [draft EXCEPT ![r][target[r]] = Gone]
            /\ locks' = [locks EXCEPT ![r] = @ \cup {target[r]}]
  /\ GoTo(r, "commit")
  /\ UNCHANGED <<rows, request, loaded, todo, aim>>

\* What the table holds once r has committed.
Merged(r) ==
  [a \in Addresses |-> IF draft[r][a] = None THEN rows[a]
                       ELSE IF draft[r][a] = Gone THEN None
                       ELSE draft[r][a]]

Commit(r) ==
  /\ pc[r] = "commit"
  /\ rows' = Merged(r)
  /\ CloseSession(r)
  /\ GoTo(r, "answer")
  /\ UNCHANGED request

Answer(r) ==
  /\ pc[r] = "answer"
  /\ \/ GoTo(r, "ok")
     \/ GoTo(r, "lost")
  /\ UNCHANGED <<rows, request, transaction>>

\* The database picks a victim among the requests that wait in a circle.
DeadlockVictim(r) == Deadlocked(r) /\ RollBack(r)

\* A crash, a disconnect or a lost database connection before the commit.
Abort(r) ==
  /\ pc[r] \in Underway \ {"answer"}
  /\ RollBack(r)

AllSettled ==
  /\ \A r \in Requests : pc[r] \in Settled
  /\ UNCHANGED vars

\* The server generates the ids: a client knows those of stored addresses, or
\* names one that is no address's, or no longer.
Starts(r) ==
  \E u \in Users :
    \/ \E w \in Payload : StartCreate(r, u, w)
    \/ \E a \in {b \in Addresses : rows[b] # None} \cup {None} :
         \/ \E w \in Payload : StartReplace(r, u, a, w)
         \/ StartDelete(r, u, a)

Advance(r) ==
  \/ Load(r) \/ BeginUnset(r) \/ UnsetRow(r)
  \/ Insert(r) \/ Replace(r) \/ Delete(r)
  \/ Commit(r) \/ Answer(r) \/ DeadlockVictim(r)

Next ==
  \/ \E r \in Requests : Starts(r) \/ Advance(r) \/ Abort(r)
  \/ AllSettled

Spec == Init /\ [][Next]_vars

\* The event loop resumes a request whose statement has been answered, and
\* the database answers every statement, deadlocks included.
FairSpec == Spec /\ \A r \in Requests : WF_vars(Advance(r))

-----------------------------------------------------------------------------
(* Properties.                                                             *)

\* Every column and every local of a request keeps its type.
TypeOK ==
  /\ rows \in [Addresses -> Row \cup {None}]
  /\ pc \in [Requests -> Stages]
  /\ op \in [Requests -> {"none", "create", "replace", "delete"}]
  /\ user \in [Requests -> Users \cup {None}]
  /\ target \in [Requests -> Addresses \cup {None}]
  /\ want \in [Requests -> Payload \cup {None}]
  /\ alone \in BOOLEAN
  /\ loaded \in [Requests -> Row \cup {None}]
  /\ todo \in [Requests -> SUBSET Addresses]
  /\ aim \in [Requests -> Addresses \cup {None}]
  /\ draft \in [Requests -> [Addresses -> Row \cup {None, Gone}]]
  /\ locks \in [Requests -> SUBSET Addresses]

\* "The service layer enforces one default address per user and address
\* type": no sequence of requests leaves two defaults of one type.
OneDefault == OneDefaultIn(rows)

\* It holds as long as requests take turns.
OneDefaultInTurn == alone => OneDefault

\* "Ownership checks belong in the service layer": only a request of the
\* owner changes or deletes an address, and it never changes hands.
OnlyOwnerWrites ==
  [][\A a \in Addresses : rows[a] # None /\ rows'[a] # rows[a] =>
       /\ \E r \in Requests : /\ pc[r] = "commit" /\ pc'[r] = "answer"
                              /\ user[r] = rows[a].user
       /\ rows'[a] # None => rows'[a].user = rows[a].user]_vars

\* A deleted address never comes back: not by a replace that loaded it
\* before, not by a bulk UPDATE that had listed it.
OnlyCreateAdds ==
  [][\A a \in Addresses : rows[a] = None /\ rows'[a] # None =>
       a \in Requests /\ op[a] = "create" /\ pc[a] = "commit"]_vars

\* To any address but its own target a request does one thing: it clears
\* is_default, and only where type and user are those of its payload when
\* it commits.
OthersOnlyLoseDefault ==
  [][\A r \in Requests, a \in Addresses :
       /\ pc[r] = "commit" /\ pc'[r] = "answer"
       /\ a # target[r] /\ rows'[a] # rows[a]
       => /\ want[r] # None /\ want[r].default
          /\ rows[a] # None
          /\ rows[a].user = user[r] /\ rows[a].type = want[r].type
          /\ rows'[a] = [rows[a] EXCEPT !.default = FALSE]]_vars

\* As long as requests take turns, a create or replace that commits stores
\* exactly its payload.
StoresPayload ==
  [][\A r \in Requests :
       alone /\ pc[r] = "commit" /\ pc'[r] = "answer" /\ op[r] # "delete"
         => rows'[target[r]] = RowFor(r)]_vars

\* Locks and deadlocks never strand a request: whatever has arrived ends.
EveryRequestSettles ==
  \A r \in Requests : pc[r] \in Underway ~> pc[r] \in Settled
=============================================================================
