----------------------------- MODULE Categories -----------------------------
(***************************************************************************)
(* Creating and updating categories (services/catalog.py and               *)
(* repositories/category.py) over the table categories.                    *)
(*                                                                         *)
(* A request is one transaction at READ COMMITTED and a step is what it    *)
(* does between two awaits, or up to the next lock, on the database.  One  *)
(* INSERT or UPDATE is all a request writes, in three steps, each of which *)
(* may have to wait for another transaction:                               *)
(*   - an UPDATE locks its row, and more strongly if it changes the slug,  *)
(*     a key that foreign keys may refer to;                               *)
(*   - a new slug enters the unique index, once nobody is about to store   *)
(*     or to give up the same slug;                                        *)
(*   - a new parent is locked in share mode by the foreign key check,      *)
(*     which only a changing slug of the parent holds up.                  *)
(* All of these locks last until the transaction ends, and of the requests *)
(* that wait in a circle the database makes one fail.                      *)
(*                                                                         *)
(* Name and description decide nothing and are left out.  list_categories  *)
(* changes nothing and is left out.                                        *)
(***************************************************************************)
EXTENDS FiniteSets

CONSTANTS
  Requests,  \* the requests that may arrive, each at most once
  Existing,  \* categories stored before the first of them
  Slugs,
  None       \* NULL, no row, no image

CategoryIds == Requests \cup Existing  \* a create's uuid4 is named by its request

\* How a request ends: 2xx, 4xx, an error of the database (a 500), a crash or
\* disconnect before the commit, an answer lost after it.
Settled == {"ok", "rejected", "error", "failed", "lost"}
Underway == {"load", "load_parent", "check_slug", "lock_row", "enter_slug",
             "check_parent", "commit", "answer"}
Stages == {"idle"} \cup Underway \cup Settled

Category == [slug : Slugs, parent : CategoryIds \cup {None}, active : BOOLEAN]

ASSUME DistinctAssumption == Requests \cap Existing = {}
ASSUME NoneAssumption == None \notin CategoryIds \cup Category

VARIABLES
  categories,  \* categories[c]: the committed category c, or None
  pc,          \* pc[r]: the stage request r has reached
  op,          \* op[r]: create or update
  target,      \* target[r]: the category in the path, for a create its own
  want,        \* want[r]: the validated payload
  alone,       \* history: no request arrived while another was under way
  loaded,      \* loaded[r]: the target as the ORM session loaded it
  draft        \* draft[r]: the target as r has written it, not committed

request == <<op, target, want, alone>>
vars == <<categories, pc, request, loaded, draft>>

Each(x) == [r \in Requests |-> x]

\* Active roots with different slugs, as creates make them.
Init ==
  /\ \E s \in [Existing -> Slugs] :
       /\ \A c, d \in Existing : s[c] = s[d] => c = d
       /\ categories = [c \in CategoryIds |->
            IF c \in Existing
              THEN [slug |-> s[c], parent |-> None, active |-> TRUE]
              ELSE None]
  /\ pc = Each("idle") /\ op = Each("none")
  /\ target = Each(None) /\ want = Each(None) /\ alone = TRUE
  /\ loaded = Each(None) /\ draft = Each(None)

-----------------------------------------------------------------------------
(* What a statement sees, and what it waits for.                           *)

Stored == {c \in CategoryIds : categories[c] # None}

\* Mutant: the slug is not looked up, the unique index is to catch it.
SlugNeverLookedUp(r) == FALSE

\* slug_exists, without the category an update is about.
SlugExists(r) ==
  \E c \in CategoryIds \ (IF op[r] = "update" THEN {target[r]} ELSE {}) :
    categories[c] # None /\ categories[c].slug = want[r].slug

\* Mutant: the parent is only looked up.
ParentStored(r) == categories[want[r].parent] # None

\* The two refusals of _validate_category that concern the parent.
ParentAccepted(r) ==
  /\ categories[want[r].parent] # None
  /\ op[r] = "update" => want[r].parent # target[r]

\* Mutant: an update skips the fields of the payload that are null.
FlushedWithoutNulls(r, row) ==
  [row EXCEPT
    !.slug = want[r].slug, !.active = want[r].active,
    !.parent = IF want[r].parent # None THEN want[r].parent ELSE @]

\* setattr marks the columns that differ from the image, and no other.
Flushed(r, row) ==
  [row EXCEPT
    !.slug = IF want[r].slug # loaded[r].slug THEN want[r].slug ELSE @,
    !.parent = IF want[r].parent # loaded[r].parent THEN want[r].parent ELSE @,
    !.active = IF want[r].active # loaded[r].active THEN want[r].active ELSE @]

Dirty(r) == want[r] # loaded[r]

\* Mutant: an INSERT leaves is_active null.
WrittenWithoutActive(r) ==
  IF op[r] = "create" THEN [want[r] EXCEPT !.active = None] ELSE draft[r]

\* The row r is about to store.
Written(r) == IF op[r] = "create" THEN want[r] ELSE draft[r]

\* A row that is being updated does not change in the table before the end.
Updating(r) == op[r] = "update" /\ draft[r] # None
Before(r) == categories[target[r]]
NewSlug(r) ==
  \/ op[r] = "create"
  \/ Updating(r) /\ draft[r].slug # Before(r).slug
NewParent(r) ==
  \/ op[r] = "create" /\ want[r].parent # None
  \/ Updating(r) /\ draft[r].parent \notin {None, Before(r).parent}

\* Row locks: of an UPDATE, of an UPDATE that changes the slug, and of a
\* foreign key check.
Locks(q, c) == Updating(q) /\ target[q] = c
LocksKey(q, c) == Locks(q, c) /\ NewSlug(q)
Shares(q, c) == pc[q] = "commit" /\ NewParent(q) /\ Written(q).parent = c

\* q has stored slug s in the index, or has yet to give s up, uncommitted.
Contests(q, s) ==
  \/ pc[q] \in {"check_parent", "commit"} /\ NewSlug(q) /\ Written(q).slug = s
  \/ Updating(q) /\ NewSlug(q) /\ Before(q).slug = s

\* Mutant: the index on slug is not unique.
NeverTaken(r) == FALSE

Taken(r) ==
  \E c \in CategoryIds \ {target[r]} :
    categories[c] # None /\ categories[c].slug = Written(r).slug

\* r waits for the end of q.
Blocks(q, r) ==
  /\ q # r
  /\ \/ /\ pc[r] = "lock_row"
        /\ \/ Locks(q, target[r])
           \/ /\ Shares(q, target[r])
              /\ Flushed(r, Before(r)).slug # Before(r).slug
     \/ pc[r] = "enter_slug" /\ NewSlug(r) /\ Contests(q, Written(r).slug)
     \/ pc[r] = "check_parent" /\ NewParent(r) /\ LocksKey(q, Written(r).parent)

Free(r) == \A q \in Requests : ~Blocks(q, r)

\* Every member of the circle waits for a member and is waited for by one.
Deadlocked(r) ==
  \E circle \in SUBSET Requests :
    /\ r \in circle
    /\ \A p \in circle : /\ \E q \in circle : Blocks(q, p)
                         /\ \E q \in circle : Blocks(p, q)

-----------------------------------------------------------------------------
(* A request arrives, moves on, or loses its transaction.                  *)

GoTo(r, stage) == pc' = [pc EXCEPT ![r] = stage]

Arrive(r, o, c, w, stage) ==
  /\ pc[r] = "idle"
  /\ alone' = (alone /\ \A q \in Requests : pc[q] \notin Underway)
  /\ op' = [op EXCEPT ![r] = o]
  /\ target' = [target EXCEPT ![r] = c]
  /\ want' = [want EXCEPT ![r] = w]
  /\ GoTo(r, stage)
  /\ UNCHANGED <<categories, loaded, draft>>

\* A parent is looked up only if the payload names one.
ValidationOf(w) == IF w.parent = None THEN "check_slug" ELSE "load_parent"

StartCreate(r, w) == Arrive(r, "create", r, w, ValidationOf(w))
StartUpdate(r, c, w) == Arrive(r, "update", c, w, "load")

\* The session is closed and its transaction rolls back.
RollBack(r, end) ==
  /\ GoTo(r, end)
  /\ draft' = [draft EXCEPT ![r] = None]
  /\ UNCHANGED <<categories, request, loaded>>

Proceed(r, stage) ==
  /\ GoTo(r, stage)
  /\ UNCHANGED <<categories, request, loaded, draft>>

-----------------------------------------------------------------------------
(* The statements of a request.                                            *)

Load(r) ==
  /\ pc[r] = "load"
  /\ IF categories[target[r]] = None
       THEN Proceed(r, "rejected")
       ELSE /\ loaded' = [loaded EXCEPT ![r] = categories[target[r]]]
            /\ GoTo(r, ValidationOf(want[r]))
            /\ UNCHANGED <<categories, request, draft>>

LoadParent(r) ==
  /\ pc[r] = "load_parent"
  /\ Proceed(r, IF ParentAccepted(r) THEN "check_slug" ELSE "rejected")

\* An update whose payload is the image writes nothing.
CheckSlug(r) ==
  /\ pc[r] = "check_slug"
  /\ Proceed(r, IF SlugExists(r) THEN "rejected"
                ELSE IF op[r] = "create" THEN "enter_slug"
                ELSE IF Dirty(r) THEN "lock_row"
                ELSE "commit")

\* The UPDATE locks the row and applies to the version committed last.
LockRow(r) ==
  /\ pc[r] = "lock_row"
  /\ Free(r)
  /\ draft' = [draft EXCEPT ![r] = Flushed(r, Before(r))]
  /\ GoTo(r, "enter_slug")
  /\ UNCHANGED <<categories, request, loaded>>

\* An INSERT, or the index entry of an UPDATE.  No handler translates the
\* IntegrityError of a slug that has been taken since it was looked up.
EnterSlug(r) ==
  /\ pc[r] = "enter_slug"
  /\ Free(r)
  /\ IF NewSlug(r) /\ Taken(r)
       THEN RollBack(r, "error")
       ELSE /\ draft' = [draft EXCEPT ![r] = Written(r)]
            /\ GoTo(r, "check_parent")
            /\ UNCHANGED <<categories, request, loaded>>

\* Categories are never deleted: the foreign key check may wait, not fail.
CheckParent(r) ==
  /\ pc[r] = "check_parent"
  /\ Free(r)
  /\ Proceed(r, "commit")

\* Mutant: the transaction is left open when the handler returns.
CommitKeepingLocks(r) ==
  /\ pc[r] = "commit"
  /\ categories' = IF draft[r] = None THEN categories
                   ELSE [categories EXCEPT ![target[r]] = draft[r]]
  /\ GoTo(r, "answer")
  /\ UNCHANGED <<request, loaded, draft>>

Commit(r) ==
  /\ pc[r] = "commit"
  /\ categories' = IF draft[r] = None THEN categories
                   ELSE [categories EXCEPT ![target[r]] = draft[r]]
  /\ draft' = [draft EXCEPT ![r] = None]
  /\ GoTo(r, "answer")
  /\ UNCHANGED <<request, loaded>>

Answer(r) ==
  /\ pc[r] = "answer"
  /\ \/ Proceed(r, "ok")
     \/ Proceed(r, "lost")

DeadlockVictim(r) == Deadlocked(r) /\ RollBack(r, "error")

Abort(r) ==
  /\ pc[r] \in Underway \ {"answer"}
  /\ RollBack(r, "failed")

AllSettled ==
  /\ \A r \in Requests : pc[r] \in Settled
  /\ UNCHANGED vars

\* The ids a client may name: the server generates them, so that only those
\* of stored categories can be known.  An id made up is r: no category has it
\* before r commits.
Nameable(r) == Stored \cup {r}

Starts(r) ==
  \E w \in {v \in Category : v.parent \in Nameable(r) \cup {None}} :
    \/ StartCreate(r, w)
    \/ \E c \in Nameable(r) : StartUpdate(r, c, w)

Advance(r) ==
  \/ Load(r) \/ LoadParent(r) \/ CheckSlug(r)
  \/ LockRow(r) \/ EnterSlug(r) \/ CheckParent(r)
  \/ Commit(r) \/ Answer(r) \/ DeadlockVictim(r)

Next ==
  \/ \E r \in Requests : Starts(r) \/ Advance(r) \/ Abort(r)
  \/ AllSettled

Spec == Init /\ [][Next]_vars

\* The event loop resumes a request whose statement has been answered, and
\* the database answers every statement, deadlocks included.
FairSpec == Spec /\ \A r \in Requests : WF_vars(Advance(r))
-----------------------------------------------------------------------------
(* Properties.                                                             *)

\* Every column and every local of a request keeps its type.
TypeOK ==
  /\ categories \in [CategoryIds -> Category \cup {None}]
  /\ pc \in [Requests -> Stages]
  /\ op \in [Requests -> {"none", "create", "update"}]
  /\ target \in [Requests -> CategoryIds \cup {None}]
  /\ want \in [Requests -> Category \cup {None}]
  /\ alone \in BOOLEAN
  /\ loaded \in [Requests -> Category \cup {None}]
  /\ draft \in [Requests -> Category \cup {None}]

\* "Category slugs are public identifiers and must be unique": also when
\* creates and updates pass slug_exists together.
UniqueSlugs ==
  \A c, d \in Stored : categories[c].slug = categories[d].slug => c = d

\* "Category cannot be its own parent", and its parent is stored, whatever
\* image an update compares its payload with.
ParentsStored ==
  \A c \in Stored : categories[c].parent \in (Stored \ {c}) \cup {None}

\* "Product category with optional parent category for hierarchy": in a
\* hierarchy no category is below itself, however many updates made it so,
\* at least as long as requests take turns.
AcyclicInTurn ==
  alone =>
    \A circle \in SUBSET Stored \ {{}} :
      \E c \in circle : categories[c].parent \notin circle

\* As long as requests take turns, the checks of _validate_category foresee
\* every constraint of the table: a conflict is answered 404, 400 or 409,
\* never 500.
ConflictsAreRefused == alone => \A r \in Requests : pc[r] # "error"

\* As long as requests take turns, what a commit stores is the payload.
StoresPayload ==
  [][\A r \in Requests :
       alone /\ pc[r] = "commit" /\ pc'[r] = "answer"
         => categories'[target[r]] = want[r]]_vars

\* Whatever a request waits for, it ends: circles of waits, by row lock,
\* index or foreign key, are broken.
EveryRequestSettles ==
  \A r \in Requests : pc[r] \in Underway ~> pc[r] \in Settled
=============================================================================
