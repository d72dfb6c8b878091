-------------------------- MODULE CategoriesProofs --------------------------
(***************************************************************************)
(* Proofs about Categories.  CInv says what a request knows of the rows it *)
(* has loaded, checked and written, that a row has one writer, and that    *)
(* slugs which are in the index but not committed differ from each other   *)
(* and from every other row's; it is inductive, and the constraints of the *)
(* table follow from it.  InTurn adds what is true as long as requests     *)
(* take turns: then the checks of _validate_category are enough.           *)
(***************************************************************************)
EXTENDS Categories, TLAPS

Over == {"answer", "ok", "lost"}   \* the stages after the commit
Checked == {"lock_row", "enter_slug", "check_parent", "commit"}

\* What a request was asked, and where that has led it.
Asked(r) ==
  /\ pc[r] # "idle" =>
       op[r] # "none" /\ target[r] \in CategoryIds /\ want[r] \in Category
  /\ op[r] = "create" => target[r] = r /\ pc[r] \notin {"load", "lock_row"}
  /\ pc[r] = "load_parent" => want[r].parent # None
  /\ op[r] = "create" /\ categories[r] # None => pc[r] \in Over
  /\ categories[r] # None => op[r] = "create"

\* An update has loaded its target, and the parent has been accepted.
Validated(r) ==
  /\ op[r] = "update" /\ pc[r] \in Checked \cup {"load_parent", "check_slug"} =>
       /\ target[r] \in Stored
       /\ loaded[r] # None
  /\ pc[r] \in Checked \cup {"check_slug"} =>
       want[r].parent \in (Stored \ {target[r]}) \cup {None}

\* What r is about to store, made from the row as it still is.
Drafted(r) ==
  /\ draft[r] # None => pc[r] \in {"enter_slug", "check_parent", "commit"}
  /\ op[r] = "create" /\ draft[r] # None => pc[r] # "enter_slug" /\ draft[r] = want[r]
  /\ pc[r] = "check_parent" => draft[r] # None
  /\ pc[r] = "commit" /\ op[r] = "create" => draft[r] # None
  /\ pc[r] = "enter_slug" /\ op[r] = "update" => draft[r] # None
  /\ Updating(r) => draft[r] = Flushed(r, Before(r))

\* r has entered a new slug in the index.
Claims(r) == pc[r] \in {"check_parent", "commit"} /\ NewSlug(r)

PerRequest(r) ==
  Asked(r) /\ Validated(r) /\ Drafted(r) /\ (Claims(r) => ~Taken(r))

\* A row has one writer, and no slug is claimed twice.
Apart(r, q) ==
  /\ Updating(r) /\ Updating(q) => target[r] # target[q]
  /\ Claims(r) /\ Claims(q) => Written(r).slug # Written(q).slug

CInv ==
  /\ TypeOK
  /\ UniqueSlugs
  /\ ParentsStored
  /\ \A r \in Requests : PerRequest(r)
  /\ \A r, q \in Requests : r # q => Apart(r, q)

\* As long as requests take turns, the image of r is the row, the slug it was
\* granted is still free, and what it writes is the payload.
UpToDate(r) ==
  /\ pc[r] # "error"
  /\ op[r] = "update" /\ pc[r] \in {"load_parent", "check_slug", "lock_row"} =>
       loaded[r] = Before(r)
  /\ pc[r] \in {"lock_row", "enter_slug"} => ~SlugExists(r)
  /\ draft[r] # None => draft[r] = want[r]
  /\ pc[r] = "commit" /\ draft[r] = None => Before(r) = want[r]

OneAtATime == \A r, q \in Requests : pc[r] \in Underway /\ pc[q] \in Underway => r = q

InTurn == alone => OneAtATime /\ \A r \in Requests : UpToDate(r)
-----------------------------------------------------------------------------
(* A step of r leaves what concerns the others alone.                      *)

Same(q) ==
  /\ pc'[q] = pc[q] /\ op'[q] = op[q] /\ target'[q] = target[q]
  /\ want'[q] = want[q] /\ loaded'[q] = loaded[q] /\ draft'[q] = draft[q]

LEMMA Sentinels ==
  /\ None \notin Category /\ None \notin CategoryIds
  /\ Requests \subseteq CategoryIds
BY NoneAssumption DEF CategoryIds

LEMMA FlushedIsCategory ==
  ASSUME NEW r \in Requests, NEW row \in Category, want[r] \in Category
  PROVE  Flushed(r, row) \in Category
BY DEF Flushed, Category

\* While the table stands still, what r knows depends on r alone.
LEMMA Congruence ==
  ASSUME categories' = categories, NEW q \in Requests, Same(q)
  PROVE  /\ PerRequest(q) => PerRequest(q)'
         /\ Updating(q)' = Updating(q) /\ Claims(q)' = Claims(q)
         /\ Written(q)' = Written(q)
<1> USE DEF Same
<1>1. /\ Updating(q)' = Updating(q) /\ Written(q)' = Written(q) /\ Before(q)' = Before(q)
      /\ NewSlug(q)' = NewSlug(q) /\ Stored' = Stored
  BY DEF Updating, Written, Before, NewSlug, Stored
<1>2. Claims(q)' = Claims(q) /\ Taken(q)' = Taken(q)
  BY <1>1 DEF Claims, Taken
<1>3. Asked(q) => Asked(q)'
  BY DEF Asked
<1>4. Validated(q) => Validated(q)'
  BY <1>1 DEF Validated
<1>5. Drafted(q) => Drafted(q)'
  BY <1>1 DEF Drafted, Flushed
<1> QED
  BY <1>1, <1>2, <1>3, <1>4, <1>5 DEF PerRequest

\* Steps that write no committed row: it is enough to look at r.
LEMMA Quiet ==
  ASSUME CInv, TypeOK', NEW r \in Requests, categories' = categories,
         \A q \in Requests \ {r} : Same(q),
         PerRequest(r)',
         \A q \in Requests \ {r} : Apart(r, q)' /\ Apart(q, r)'
  PROVE  CInv'
<1>1. UniqueSlugs' /\ ParentsStored'
  BY DEF CInv, UniqueSlugs, ParentsStored, Stored
<1>2. \A q \in Requests : PerRequest(q)'
  BY Congruence DEF CInv
<1>3. ASSUME NEW p \in Requests \ {r}, NEW q \in Requests \ {r}, p # q
      PROVE  Apart(p, q)'
  <2>1. Apart(p, q) /\ Same(p) /\ Same(q)
    BY <1>3 DEF CInv
  <2>2. /\ Updating(p)' = Updating(p) /\ Claims(p)' = Claims(p) /\ Written(p)' = Written(p)
        /\ Updating(q)' = Updating(q) /\ Claims(q)' = Claims(q) /\ Written(q)' = Written(q)
    BY <2>1, Congruence
  <2> QED
    BY <2>1, <2>2 DEF Apart, Same
<1> QED
  BY <1>1, <1>2, <1>3 DEF CInv

\* Steps that leave r no draft.
LEMMA Undrafted ==
  ASSUME CInv, TypeOK', NEW r \in Requests, categories' = categories,
         \A q \in Requests \ {r} : Same(q),
         Asked(r)', Validated(r)', draft'[r] = None,
         pc'[r] \notin {"enter_slug", "check_parent", "commit"}
           \/ (pc'[r] = "enter_slug" /\ op'[r] = "create")
           \/ (pc'[r] = "commit" /\ op'[r] # "create")
  PROVE  CInv'
<1>1. ~Updating(r)' /\ ~Claims(r)'
  BY DEF Updating, Claims, NewSlug
<1>2. PerRequest(r)'
  BY <1>1 DEF PerRequest, Drafted
<1>3. \A q \in Requests \ {r} : Apart(r, q)' /\ Apart(q, r)'
  BY <1>1 DEF Apart
<1> QED
  BY <1>2, <1>3, Quiet

LEMMA InitCInv == Init => CInv
<1> SUFFICES ASSUME Init PROVE CInv
  OBVIOUS
<1> USE Sentinels DEF Init, Each
<1>1. PICK s \in [Existing -> Slugs] :
        /\ \A c, d \in Existing : s[c] = s[d] => c = d
        /\ categories = [c \in CategoryIds |->
             IF c \in Existing THEN [slug |-> s[c], parent |-> None, active |-> TRUE]
             ELSE None]
  OBVIOUS
<1>2. /\ categories \in [CategoryIds -> Category \cup {None}]
      /\ \A c \in CategoryIds : categories[c] # None <=> c \in Existing
      /\ \A c \in Existing : categories[c].slug = s[c] /\ categories[c].parent = None
  <2>1. \A c \in Existing : [slug |-> s[c], parent |-> None, active |-> TRUE] \in Category
    BY <1>1 DEF Category
  <2> QED
    BY <1>1, <2>1 DEF CategoryIds
<1>3. TypeOK
  BY <1>2 DEF TypeOK, Stages
<1>4. \A r \in Requests : PerRequest(r)
  BY <1>2, DistinctAssumption DEF PerRequest, Asked, Validated, Drafted, Claims, Updating,
     Over, Checked
<1>5. \A r, q \in Requests : Apart(r, q)
  BY DEF Apart, Updating, Claims
<1>6. UniqueSlugs /\ ParentsStored
  BY <1>1, <1>2 DEF UniqueSlugs, ParentsStored, Stored
<1> QED
  BY <1>3, <1>4, <1>5, <1>6 DEF CInv

LEMMA ArriveCInv ==
  ASSUME CInv, NEW r \in Requests, NEW o \in {"create", "update"},
         NEW c \in CategoryIds, NEW w \in Category,
         NEW stage \in {"load", "load_parent", "check_slug"},
         Arrive(r, o, c, w, stage),
         o = "create" <=> stage # "load", o = "create" => c = r,
         stage = "load_parent" <=> o = "create" /\ w.parent # None
  PROVE  CInv'
<1> USE Sentinels DEF Arrive, GoTo
<1>0. TypeOK /\ PerRequest(r) /\ pc[r] = "idle"
  BY DEF CInv
<1>1. TypeOK'
  BY <1>0 DEF TypeOK, Stages, Underway
<1>2. \A q \in Requests \ {r} : Same(q)
  BY <1>0 DEF TypeOK, Same
<1>3. draft'[r] = None /\ categories' = categories /\ categories[r] = None
  BY <1>0 DEF PerRequest, Drafted, Asked, Over
<1>4. pc'[r] = stage
  BY <1>0 DEF TypeOK
<1>5. Asked(r)' /\ Validated(r)'
  BY <1>0, <1>3, <1>4 DEF TypeOK, Asked, Validated, Checked
<1> HIDE DEF Arrive, GoTo
<1> QED
  BY <1>1, <1>2, <1>3, <1>4, <1>5, Undrafted

LEMMA StartsCInv ==
  ASSUME CInv, NEW r \in Requests, Starts(r)
  PROVE  CInv'
<1>1. ASSUME NEW w \in Category, StartCreate(r, w) PROVE CInv'
  BY <1>1, Sentinels, ArriveCInv DEF StartCreate, ValidationOf
<1>2. ASSUME NEW w \in Category, NEW c \in CategoryIds, StartUpdate(r, c, w)
      PROVE  CInv'
  BY <1>2, ArriveCInv DEF StartUpdate
<1>3. Nameable(r) \subseteq CategoryIds
  BY Sentinels DEF Nameable, Stored
<1> QED
  BY <1>1, <1>2, <1>3 DEF Starts

LEMMA RollBackCInv ==
  ASSUME CInv, NEW r \in Requests, pc[r] \in Underway \ {"answer"},
         NEW end \in {"error", "failed"}, RollBack(r, end)
  PROVE  CInv'
<1> USE Sentinels DEF RollBack, GoTo, request
<1>0. TypeOK /\ PerRequest(r)
  BY DEF CInv
<1>1. TypeOK'
  BY <1>0 DEF TypeOK, Stages, Settled
<1>2. \A q \in Requests \ {r} : Same(q)
  BY <1>0 DEF TypeOK, Same
<1>3. draft'[r] = None /\ pc'[r] = end /\ categories' = categories
  BY <1>0 DEF TypeOK
<1>4. Asked(r)' /\ Validated(r)'
  BY <1>0, <1>3 DEF PerRequest, Asked, Validated, Checked, Over, Underway
<1> HIDE DEF RollBack, GoTo, request
<1> QED
  BY <1>1, <1>2, <1>3, <1>4, Undrafted

LEMMA LoadCInv ==
  ASSUME CInv, NEW r \in Requests, Load(r)
  PROVE  CInv'
<1> USE Sentinels DEF Load, Proceed, GoTo, request, ValidationOf
<1>0. TypeOK /\ PerRequest(r) /\ pc[r] = "load"
  BY DEF CInv
<1>1. TypeOK'
  BY <1>0 DEF TypeOK, PerRequest, Asked, Stages, Underway, Settled
<1>2. \A q \in Requests \ {r} : Same(q)
  BY <1>0 DEF TypeOK, Same
<1>3. /\ draft'[r] = None /\ categories' = categories
      /\ pc'[r] \in {"rejected", "load_parent", "check_slug"}
  BY <1>0 DEF TypeOK, PerRequest, Drafted
<1>4. Asked(r)' /\ Validated(r)'
  BY <1>0, <1>3 DEF TypeOK, PerRequest, Asked, Validated, Checked, Stored, Over
<1> HIDE DEF Load, Proceed, GoTo, request, ValidationOf
<1> QED
  BY <1>1, <1>2, <1>3, <1>4, Undrafted

LEMMA LoadParentCInv ==
  ASSUME CInv, NEW r \in Requests, LoadParent(r)
  PROVE  CInv'
<1> USE Sentinels DEF LoadParent, Proceed, GoTo, request
<1>0. TypeOK /\ PerRequest(r) /\ pc[r] = "load_parent"
  BY DEF CInv
<1>1. TypeOK'
  BY <1>0 DEF TypeOK, Stages, Underway, Settled
<1>2. \A q \in Requests \ {r} : Same(q)
  BY <1>0 DEF TypeOK, Same
<1>3. /\ draft'[r] = None /\ categories' = categories
      /\ pc'[r] = IF ParentAccepted(r) THEN "check_slug" ELSE "rejected"
  BY <1>0 DEF TypeOK, PerRequest, Drafted
<1>4. ParentAccepted(r) => want[r].parent \in Stored \ {target[r]}
  <2>1. /\ want[r].parent \in CategoryIds /\ op[r] \in {"create", "update"}
        /\ op[r] = "create" => target[r] = r /\ categories[r] = None
    BY <1>0 DEF TypeOK, PerRequest, Asked, Category, Over
  <2> QED
    BY <2>1 DEF ParentAccepted, Stored
<1>5. Asked(r)' /\ Validated(r)'
  BY <1>0, <1>3, <1>4 DEF TypeOK, PerRequest, Asked, Validated, Checked, Stored, Over
<1> HIDE DEF LoadParent, Proceed, GoTo, request
<1> QED
  BY <1>1, <1>2, <1>3, <1>5, Undrafted

LEMMA CheckSlugCInv ==
  ASSUME CInv, NEW r \in Requests, CheckSlug(r)
  PROVE  CInv'
<1> USE Sentinels DEF CheckSlug, Proceed, GoTo, request
<1>0. TypeOK /\ PerRequest(r) /\ pc[r] = "check_slug"
  BY DEF CInv
<1>1. TypeOK'
  BY <1>0 DEF TypeOK, Stages, Underway, Settled
<1>2. \A q \in Requests \ {r} : Same(q)
  BY <1>0 DEF TypeOK, Same
<1>3. /\ draft'[r] = None /\ categories' = categories
      /\ \/ pc'[r] = "rejected"
         \/ pc'[r] = "enter_slug" /\ op[r] = "create"
         \/ pc'[r] \in {"lock_row", "commit"} /\ op[r] # "create"
  BY <1>0 DEF TypeOK, PerRequest, Drafted
<1>4. Asked(r)' /\ Validated(r)'
  BY <1>0, <1>3 DEF TypeOK, PerRequest, Asked, Validated, Checked, Stored, Over
<1>5. op' = op
  OBVIOUS
<1> HIDE DEF CheckSlug, Proceed, GoTo, request
<1> QED
  BY <1>1, <1>2, <1>3, <1>4, <1>5, Undrafted

LEMMA LockRowCInv ==
  ASSUME CInv, NEW r \in Requests, LockRow(r)
  PROVE  CInv'
<1> USE Sentinels DEF LockRow, GoTo, request
<1>0. TypeOK /\ PerRequest(r) /\ pc[r] = "lock_row"
  BY DEF CInv
<1>b. /\ op[r] = "update" /\ target[r] \in Stored /\ Before(r) \in Category
      /\ want[r] \in Category /\ Flushed(r, Before(r)) \in Category
  <2>1. op[r] = "update" /\ target[r] \in Stored /\ want[r] \in Category
    BY <1>0 DEF TypeOK, PerRequest, Asked, Validated, Checked
  <2>2. Before(r) \in Category
    BY <1>0, <2>1 DEF TypeOK, Before, Stored
  <2> QED
    BY <2>1, <2>2, FlushedIsCategory
<1>1. TypeOK'
  BY <1>0, <1>b DEF TypeOK, Stages, Underway
<1>2. \A q \in Requests \ {r} : Same(q)
  BY <1>0 DEF TypeOK, Same
<1>3. /\ draft'[r] = Flushed(r, Before(r)) /\ pc'[r] = "enter_slug"
      /\ categories' = categories /\ UNCHANGED <<op, target, want, loaded>>
  BY <1>0 DEF TypeOK
<1>4. PerRequest(r)'
  <2>1. Asked(r)' /\ Validated(r)' /\ ~Claims(r)'
    BY <1>0, <1>3 DEF PerRequest, Asked, Validated, Checked, Stored, Over, Claims
  <2>2. Drafted(r)'
    BY <1>b, <1>3 DEF Drafted, Updating, Before, Flushed
  <2> QED
    BY <2>1, <2>2 DEF PerRequest
<1>5. ASSUME NEW q \in Requests \ {r} PROVE Apart(r, q)' /\ Apart(q, r)'
  <2>1. ~Locks(q, target[r])
    BY <1>0, <1>5 DEF Free, Blocks
  <2>2. ~Claims(r)'
    BY <1>3 DEF Claims
  <2>3. Updating(q)' = Updating(q) /\ target'[q] = target[q]
    BY <1>2, <1>3, <1>5, Congruence
  <2> QED
    BY <1>3, <2>1, <2>2, <2>3 DEF Apart, Locks
<1> HIDE DEF LockRow, GoTo, request
<1> QED
  BY <1>1, <1>2, <1>3, <1>4, <1>5, Quiet

LEMMA EnterSlugCInv ==
  ASSUME CInv, NEW r \in Requests, EnterSlug(r)
  PROVE  CInv'
<1> USE Sentinels DEF GoTo
<1>0. TypeOK /\ PerRequest(r) /\ pc[r] = "enter_slug" /\ Free(r)
  BY DEF CInv, EnterSlug
<1>1. CASE NewSlug(r) /\ Taken(r)
  BY <1>0, <1>1, RollBackCInv DEF EnterSlug, Underway
<1>2. CASE ~(NewSlug(r) /\ Taken(r))
  <2> USE DEF EnterSlug, request
  <2>w. /\ Written(r) \in Category /\ op[r] \in {"create", "update"}
        /\ op[r] = "update" => draft[r] # None
    BY <1>0 DEF TypeOK, PerRequest, Asked, Drafted, Written
  <2>1. TypeOK'
    BY <1>0, <1>2, <2>w DEF TypeOK, Stages, Underway
  <2>2. \A q \in Requests \ {r} : Same(q)
    BY <1>0, <1>2 DEF TypeOK, Same
  <2>3. /\ draft'[r] = Written(r) /\ pc'[r] = "check_parent" /\ categories' = categories
        /\ UNCHANGED <<op, target, want, loaded>>
    BY <1>0, <1>2 DEF TypeOK
  <2>4. /\ Updating(r)' = Updating(r) /\ Written(r)' = Written(r)
        /\ NewSlug(r)' = NewSlug(r) /\ Taken(r)' = Taken(r)
    BY <2>w, <2>3 DEF Updating, Written, NewSlug, Before, Taken
  <2>5. PerRequest(r)'
    <3>1. Asked(r)' /\ Validated(r)'
      BY <1>0, <2>3 DEF PerRequest, Asked, Validated, Checked, Stored, Over
    <3>2. Drafted(r)'
      BY <1>0, <2>w, <2>3 DEF PerRequest, Drafted, Updating, Written, Before, Flushed
    <3>3. (Claims(r) => ~Taken(r))'
      BY <1>2, <2>4 DEF Claims
    <3> QED
      BY <3>1, <3>2, <3>3 DEF PerRequest
  <2>6. ASSUME NEW q \in Requests \ {r} PROVE Apart(r, q)' /\ Apart(q, r)'
    <3>1. Apart(r, q) /\ Apart(q, r)
      BY <2>6 DEF CInv
    <3>2. /\ Updating(q)' = Updating(q) /\ target'[q] = target[q]
          /\ Claims(q)' = Claims(q) /\ Written(q)' = Written(q)
      BY <2>2, <2>3, <2>6, Congruence
    <3>3. Claims(q) /\ NewSlug(r) => Written(q).slug # Written(r).slug
      BY <1>0, <2>6 DEF Free, Blocks, Contests, Claims
    <3>4. Claims(r)' => NewSlug(r)
      BY <2>4 DEF Claims
    <3> QED
      BY <2>3, <2>4, <3>1, <3>2, <3>3, <3>4 DEF Apart
  <2> HIDE DEF EnterSlug, request
  <2> QED
    BY <2>1, <2>2, <2>3, <2>5, <2>6, Quiet
<1> QED
  BY <1>1, <1>2

LEMMA CheckParentCInv ==
  ASSUME CInv, NEW r \in Requests, CheckParent(r)
  PROVE  CInv'
<1> USE Sentinels DEF CheckParent, Proceed, GoTo, request
<1>0. TypeOK /\ PerRequest(r) /\ pc[r] = "check_parent"
  BY DEF CInv
<1>1. TypeOK'
  BY <1>0 DEF TypeOK, Stages, Underway
<1>2. \A q \in Requests \ {r} : Same(q)
  BY <1>0 DEF TypeOK, Same
<1>3. /\ pc'[r] = "commit" /\ categories' = categories
      /\ UNCHANGED <<op, target, want, loaded, draft>>
  BY <1>0 DEF TypeOK
<1>4. /\ Updating(r)' = Updating(r) /\ Written(r)' = Written(r) /\ Claims(r)' = Claims(r)
      /\ Taken(r)' = Taken(r)
  BY <1>0, <1>3 DEF Updating, Written, Claims, NewSlug, Before, Taken
<1>5. PerRequest(r)'
  <2>1. Asked(r)' /\ Validated(r)'
    BY <1>0, <1>3 DEF PerRequest, Asked, Validated, Checked, Stored, Over
  <2>2. Drafted(r)'
    BY <1>0, <1>3 DEF PerRequest, Drafted, Updating, Before, Flushed
  <2> QED
    BY <1>0, <1>4, <2>1, <2>2 DEF PerRequest
<1>6. ASSUME NEW q \in Requests \ {r} PROVE Apart(r, q)' /\ Apart(q, r)'
  <2>1. Apart(r, q) /\ Apart(q, r)
    BY <1>6 DEF CInv
  <2>2. /\ Updating(q)' = Updating(q) /\ target'[q] = target[q]
        /\ Claims(q)' = Claims(q) /\ Written(q)' = Written(q)
    BY <1>2, <1>3, <1>6, Congruence
  <2> QED
    BY <1>3, <1>4, <2>1, <2>2 DEF Apart
<1> HIDE DEF CheckParent, Proceed, GoTo, request
<1> QED
  BY <1>1, <1>2, <1>3, <1>5, <1>6, Quiet

\* What a commit stores.
LEMMA CommitStep ==
  ASSUME CInv, NEW r \in Requests, Commit(r)
  PROVE  /\ pc[r] = "commit" /\ target[r] \in CategoryIds
         /\ categories' \in [CategoryIds -> Category \cup {None}]
         /\ draft[r] = None => categories' = categories /\ op[r] = "update"
         /\ draft[r] # None =>
              /\ categories'[target[r]] = draft[r] /\ draft[r] \in Category
              /\ Written(r) = draft[r]
              /\ Claims(r) \/ (/\ target[r] \in Stored
                               /\ draft[r].slug = categories[target[r]].slug)
              /\ draft[r].parent \in (Stored \ {target[r]}) \cup {None}
         /\ \A c \in CategoryIds \ {target[r]} : categories'[c] = categories[c]
<1> USE Sentinels
<1>0. /\ TypeOK /\ PerRequest(r) /\ pc[r] = "commit" /\ op[r] \in {"create", "update"}
      /\ want[r] \in Category /\ target[r] \in CategoryIds
  BY DEF CInv, TypeOK, PerRequest, Asked, Validated, Checked, Stored, Commit
<1>1. /\ categories' \in [CategoryIds -> Category \cup {None}]
      /\ \A c \in CategoryIds \ {target[r]} : categories'[c] = categories[c]
      /\ draft[r] = None => categories' = categories /\ op[r] = "update"
      /\ draft[r] # None => categories'[target[r]] = draft[r] /\ draft[r] \in Category
  BY <1>0 DEF TypeOK, Commit, PerRequest, Drafted
<1>2. ASSUME draft[r] # None
      PROVE  /\ Written(r) = draft[r]
             /\ Claims(r) \/ (/\ target[r] \in Stored
                              /\ draft[r].slug = categories[target[r]].slug)
             /\ draft[r].parent \in (Stored \ {target[r]}) \cup {None}
  <2>1. CASE op[r] = "create"
    BY <1>0, <1>2, <2>1 DEF PerRequest, Drafted, Written, Claims, NewSlug, Validated, Checked
  <2>2. CASE op[r] = "update"
    <3>1. /\ target[r] \in Stored /\ Updating(r) /\ draft[r] = Flushed(r, Before(r))
          /\ want[r].parent \in (Stored \ {target[r]}) \cup {None}
          /\ Before(r) \in Category /\ Before(r) = categories[target[r]]
      BY <1>0, <1>2, <2>2 DEF TypeOK, PerRequest, Drafted, Updating, Validated, Checked,
         Stored, Before
    <3>2. Before(r).parent \in (Stored \ {target[r]}) \cup {None}
      BY <3>1 DEF CInv, ParentsStored
    <3>3. draft[r].parent \in {want[r].parent, Before(r).parent}
      BY <3>1 DEF Flushed, Category
    <3>4. Claims(r) \/ draft[r].slug = Before(r).slug
      BY <1>0, <3>1 DEF Claims, NewSlug
    <3> QED
      BY <2>2, <3>1, <3>2, <3>3, <3>4 DEF Written
  <2> QED
    BY <1>0, <2>1, <2>2
<1> QED
  BY <1>0, <1>1, <1>2

\* A row that another request is updating is not the one that r stores.
LEMMA OthersTarget ==
  ASSUME CInv, NEW r \in Requests, pc[r] = "commit", draft[r] # None,
         NEW q \in Requests \ {r}, Updating(q) \/ pc[q] \notin Over \cup {"idle"}
  PROVE  /\ Updating(q) \/ op[q] = "create" => target[q] # target[r]
         /\ op[q] = "create" => target[q] = q
<1> USE Sentinels DEF PerRequest, Asked, Validated, Drafted, Checked, Stored, Over
<1>0. TypeOK /\ PerRequest(r) /\ PerRequest(q) /\ Apart(r, q)
      /\ op[r] \in {"create", "update"}
  BY DEF CInv, TypeOK
<1>1. CASE op[r] = "create"
  BY <1>0, <1>1 DEF Updating
<1>2. CASE op[r] = "update"
  BY <1>0, <1>2 DEF Updating, Apart
<1> QED
  BY <1>0, <1>1, <1>2

LEMMA CommitCInv ==
  ASSUME CInv, NEW r \in Requests, Commit(r)
  PROVE  CInv'
<1> USE Sentinels
<1>0. TypeOK /\ PerRequest(r) /\ pc[r] = "commit"
  BY DEF CInv, Commit
<1>c. /\ target[r] \in CategoryIds
      /\ categories' \in [CategoryIds -> Category \cup {None}]
      /\ draft[r] = None => categories' = categories /\ op[r] = "update"
      /\ draft[r] # None =>
           /\ categories'[target[r]] = draft[r] /\ draft[r] \in Category
           /\ Written(r) = draft[r]
           /\ Claims(r) \/ (/\ target[r] \in Stored
                            /\ draft[r].slug = categories[target[r]].slug)
           /\ draft[r].parent \in (Stored \ {target[r]}) \cup {None}
      /\ \A c \in CategoryIds \ {target[r]} : categories'[c] = categories[c]
  BY CommitStep
<1>1. TypeOK'
  BY <1>0, <1>c DEF TypeOK, Commit, GoTo, request, Stages, Underway
<1>2. \A q \in Requests \ {r} : Same(q)
  BY <1>0 DEF TypeOK, Commit, GoTo, Same, request
<1>3. /\ draft'[r] = None /\ pc'[r] = "answer" /\ UNCHANGED <<op, target, want, loaded>>
  BY <1>0 DEF TypeOK, Commit, GoTo, request
<1>s. Stored \subseteq Stored'
  BY <1>0, <1>c DEF TypeOK, Stored
<1>4. UniqueSlugs'
  <2>1. CASE draft[r] = None
    BY <1>c, <2>1 DEF CInv, UniqueSlugs, Stored
  <2>2. CASE draft[r] # None
    <3>1. ASSUME NEW c \in Stored \ {target[r]} PROVE categories[c].slug # draft[r].slug
      BY <1>0, <1>c, <2>2, <3>1 DEF CInv, UniqueSlugs, PerRequest, Taken, Stored
    <3> QED
      BY <1>c, <2>2, <3>1 DEF CInv, UniqueSlugs, Stored
  <2> QED
    BY <2>1, <2>2
<1>5. ParentsStored'
  BY <1>c, <1>s DEF CInv, ParentsStored, Stored
<1>6. ASSUME NEW q \in Requests \ {r} PROVE PerRequest(q)'
  <2>0. PerRequest(q) /\ Same(q) /\ op[q] \in {"none", "create", "update"}
    BY <1>0, <1>2, <1>6 DEF CInv, TypeOK
  <2>1. Asked(q)'
    <3>1. op[q] # "create" \/ pc[q] \notin Over => categories'[q] = categories[q]
      <4>1. CASE draft[r] = None
        BY <1>c, <4>1
      <4>2. CASE draft[r] # None
        <5>1. CASE op[r] = "create"
          BY <1>0, <1>c, <5>1 DEF PerRequest, Asked
        <5>2. CASE op[r] = "update"
          BY <1>0, <1>c, <2>0, <5>2 DEF PerRequest, Asked, Validated, Checked, Stored
        <5> QED
          BY <1>0, <5>1, <5>2 DEF TypeOK, PerRequest, Asked
      <4> QED
        BY <4>1, <4>2
    <3> QED
      BY <2>0, <3>1 DEF PerRequest, Asked, Same
  <2>2. Validated(q)'
    BY <1>s, <2>0 DEF PerRequest, Validated, Same
  <2>3. Updating(q) => Before(q)' = Before(q)
    <3>1. CASE draft[r] = None
      BY <1>c, <2>0, <3>1 DEF Before, Same
    <3>2. CASE draft[r] # None
      <4>1. ASSUME Updating(q) PROVE target[q] # target[r] /\ target[q] \in CategoryIds
        <5>1. target[q] # target[r]
          BY <1>0, <1>6, <3>2, <4>1, OthersTarget
        <5>2. target[q] \in CategoryIds
          BY <2>0, <4>1 DEF PerRequest, Drafted, Validated, Checked, Updating, Stored
        <5> QED
          BY <5>1, <5>2
      <4> QED
        BY <1>c, <2>0, <4>1 DEF Before, Same
    <3> QED
      BY <3>1, <3>2
  <2>4. Updating(q)' = Updating(q) /\ NewSlug(q)' = NewSlug(q) /\ Written(q)' = Written(q)
    BY <2>0, <2>3 DEF Updating, NewSlug, Written, Same
  <2>5. Drafted(q)'
    BY <2>0, <2>3, <2>4 DEF PerRequest, Drafted, Flushed, Same
  <2>6. (Claims(q) => ~Taken(q))'
    <3> SUFFICES ASSUME Claims(q)' PROVE ~Taken(q)'
      OBVIOUS
    <3>1. Claims(q) /\ ~Taken(q)
      BY <2>0, <2>4 DEF Claims, PerRequest, Same
    <3>2. CASE draft[r] = None
      BY <1>c, <2>0, <2>4, <3>1, <3>2 DEF Taken, Same
    <3>3. CASE draft[r] # None
      <4>1. target[q] # target[r]
        BY <1>0, <1>6, <2>0, <3>1, <3>3, OthersTarget DEF Claims, NewSlug, Over
      <4>2. draft[r].slug # Written(q).slug
        <5>1. CASE Claims(r)
          BY <1>c, <1>6, <3>1, <3>3, <5>1 DEF CInv, Apart
        <5>2. CASE ~Claims(r)
          BY <1>c, <3>1, <3>3, <4>1, <5>2 DEF Taken, Stored
        <5> QED
          BY <5>1, <5>2
      <4> QED
        BY <1>c, <2>0, <2>4, <3>1, <3>3, <4>2 DEF Taken, Same
    <3> QED
      BY <3>2, <3>3
  <2> QED
    BY <2>1, <2>2, <2>5, <2>6 DEF PerRequest
<1>7. PerRequest(r)'
  <2>1. op[r] # "create" => categories'[r] = categories[r]
    BY <1>0, <1>c DEF TypeOK, PerRequest, Asked, Validated, Checked, Stored
  <2>2. Asked(r)' /\ Validated(r)'
    BY <1>0, <1>3, <2>1 DEF PerRequest, Asked, Validated, Checked, Over
  <2>3. Drafted(r)' /\ ~Claims(r)'
    BY <1>3 DEF Drafted, Updating, Claims
  <2> QED
    BY <2>2, <2>3 DEF PerRequest
<1>8. ASSUME NEW p \in Requests, NEW q \in Requests, p # q PROVE Apart(p, q)'
  <2>1. ASSUME NEW x \in Requests \ {r}
        PROVE  /\ Updating(x)' => Updating(x) /\ target'[x] = target[x]
               /\ Claims(x)' => Claims(x) /\ Written(x)' = Written(x)
    <3>0. PerRequest(x) /\ Same(x)
      BY <1>2, <2>1 DEF CInv
    <3>1. Updating(x) => Before(x)' = Before(x)
      <4>1. CASE draft[r] = None
        BY <1>c, <3>0, <4>1 DEF Before, Same
      <4>2. CASE draft[r] # None
        <5>1. ASSUME Updating(x) PROVE target[x] # target[r] /\ target[x] \in CategoryIds
          <6>1. target[x] # target[r]
            BY <1>0, <2>1, <4>2, <5>1, OthersTarget
          <6>2. target[x] \in CategoryIds
            BY <3>0, <5>1 DEF PerRequest, Drafted, Validated, Checked, Updating, Stored
          <6> QED
            BY <6>1, <6>2
        <5> QED
          BY <1>c, <3>0, <5>1 DEF Before, Same
      <4> QED
        BY <4>1, <4>2
    <3> QED
      BY <3>0, <3>1 DEF Updating, Claims, NewSlug, Written, Same
  <2>2. ~Updating(r)' /\ ~Claims(r)'
    BY <1>3 DEF Updating, Claims
  <2>3. Apart(p, q)
    BY <1>8 DEF CInv
  <2> QED
    BY <2>1, <2>2, <2>3 DEF Apart
<1> QED
  BY <1>1, <1>4, <1>5, <1>6, <1>7, <1>8 DEF CInv

LEMMA AnswerCInv ==
  ASSUME CInv, NEW r \in Requests, Answer(r)
  PROVE  CInv'
<1> USE Sentinels DEF Answer, Proceed, GoTo, request
<1>0. TypeOK /\ PerRequest(r) /\ pc[r] = "answer"
  BY DEF CInv
<1>1. TypeOK'
  BY <1>0 DEF TypeOK, Stages, Settled
<1>2. \A q \in Requests \ {r} : Same(q)
  BY <1>0 DEF TypeOK, Same
<1>3. draft'[r] = None /\ pc'[r] \in {"ok", "lost"} /\ categories' = categories
  BY <1>0 DEF TypeOK, PerRequest, Drafted
<1>4. Asked(r)' /\ Validated(r)'
  BY <1>0, <1>3 DEF PerRequest, Asked, Validated, Checked, Over
<1> HIDE DEF Answer, Proceed, GoTo, request
<1> QED
  BY <1>1, <1>2, <1>3, <1>4, Undrafted

\* Somebody who is under way holds up whoever is to be failed.
LEMMA VictimIsUnderway ==
  ASSUME CInv, NEW r \in Requests, Deadlocked(r)
  PROVE  /\ pc[r] \in Underway \ {"answer"}
         /\ \E q \in Requests \ {r} : pc[q] \in Underway
<1>1. PICK circle \in SUBSET Requests :
        r \in circle /\ \A p \in circle : \E q \in circle : Blocks(q, p)
  BY DEF Deadlocked
<1>2. PICK q \in circle : Blocks(q, r)
  BY <1>1
<1>3. PerRequest(q) /\ q # r
  BY <1>2 DEF CInv, Blocks
<1>4. pc[q] \in Underway
  BY <1>2, <1>3 DEF Blocks, Locks, LocksKey, Shares, Contests, Updating, PerRequest, Drafted,
     Underway
<1> QED
  BY <1>2, <1>3, <1>4 DEF Blocks, Underway

LEMMA NextCInv == CInv /\ [Next]_vars => CInv'
<1> SUFFICES ASSUME CInv, [Next]_vars PROVE CInv'
  OBVIOUS
<1>1. ASSUME NEW r \in Requests, Advance(r) PROVE CInv'
  <2>1. CASE DeadlockVictim(r)
    BY <2>1, VictimIsUnderway, RollBackCInv DEF DeadlockVictim
  <2> QED
    BY <1>1, <2>1, LoadCInv, LoadParentCInv, CheckSlugCInv, LockRowCInv, EnterSlugCInv,
       CheckParentCInv, CommitCInv, AnswerCInv DEF Advance
<1>2. ASSUME NEW r \in Requests, Abort(r) PROVE CInv'
  BY <1>2, RollBackCInv DEF Abort
<1>3. CASE AllSettled \/ UNCHANGED vars
  <2>1. UNCHANGED vars
    BY <1>3 DEF AllSettled
  <2>2. categories' = categories /\ \A q \in Requests : Same(q)
    BY <2>1 DEF vars, request, Same
  <2>3. TypeOK' /\ UniqueSlugs' /\ ParentsStored'
    BY <2>1 DEF vars, request, CInv, TypeOK, UniqueSlugs, ParentsStored, Stored
  <2>4. \A q \in Requests : PerRequest(q)'
    BY <2>2, Congruence DEF CInv
  <2>5. ASSUME NEW p \in Requests, NEW q \in Requests, p # q PROVE Apart(p, q)'
    <3>1. Apart(p, q) /\ Same(p) /\ Same(q)
      BY <2>2, <2>5 DEF CInv
    <3>2. /\ Updating(p)' = Updating(p) /\ Claims(p)' = Claims(p) /\ Written(p)' = Written(p)
          /\ Updating(q)' = Updating(q) /\ Claims(q)' = Claims(q) /\ Written(q)' = Written(q)
      BY <2>2, <3>1, Congruence
    <3> QED
      BY <3>1, <3>2 DEF Apart, Same
  <2> QED
    BY <2>3, <2>4, <2>5 DEF CInv
<1> QED
  BY <1>1, <1>2, <1>3, StartsCInv DEF Next

\* CInv is inductive.
THEOREM Invariance == Spec => []CInv
BY InitCInv, NextCInv, PTL DEF Spec

-----------------------------------------------------------------------------
(* The theorems.                                                           *)

\* Every column and every local of a request keeps its type.
THEOREM TypeCorrectness == Spec => []TypeOK
<1>1. CInv => TypeOK
  BY DEF CInv
<1> QED
  BY <1>1, Invariance, PTL

\* Slugs stay unique, however creates and updates pass slug_exists together.
THEOREM PublicIdentifiers == Spec => []UniqueSlugs
<1>1. CInv => UniqueSlugs
  BY DEF CInv
<1> QED
  BY <1>1, Invariance, PTL

\* Every parent is stored, and is not the category itself.
THEOREM StoredParents == Spec => []ParentsStored
<1>1. CInv => ParentsStored
  BY DEF CInv
<1> QED
  BY <1>1, Invariance, PTL

-----------------------------------------------------------------------------
(* As long as requests take turns.                                         *)

\* r has taken a step, nobody else is under way: it is enough to look at r.
LEMMA TurnStep ==
  ASSUME CInv, CInv', OneAtATime, \A q \in Requests : UpToDate(q), NEW r \in Requests,
         pc[r] \in Underway \/ \A q \in Requests : pc[q] \notin Underway,
         \A q \in Requests \ {r} : Same(q),
         UpToDate(r)'
  PROVE  (OneAtATime /\ \A q \in Requests : UpToDate(q))'
<1>1. ASSUME NEW q \in Requests \ {r} PROVE pc'[q] \notin Underway
  BY <1>1 DEF OneAtATime, Same
<1>2. ASSUME NEW q \in Requests \ {r} PROVE UpToDate(q)'
  <2>1. UpToDate(q) /\ Same(q) /\ PerRequest(q)'
    BY <1>2 DEF CInv
  <2>2. draft'[q] = None
    BY <1>1, <1>2, <2>1 DEF PerRequest, Drafted, Underway
  <2> QED
    BY <1>1, <1>2, <2>1, <2>2 DEF UpToDate, Underway, Same
<1> QED
  BY <1>1, <1>2 DEF OneAtATime

LEMMA FlushedIsWanted ==
  ASSUME NEW r \in Requests, NEW row \in Category, want[r] \in Category, loaded[r] = row
  PROVE  Flushed(r, row) = want[r]
BY DEF Flushed, Category

LEMMA AdvanceTurn ==
  ASSUME CInv, CInv', OneAtATime, \A q \in Requests : UpToDate(q),
         NEW r \in Requests, Advance(r) \/ Abort(r)
  PROVE  (OneAtATime /\ \A q \in Requests : UpToDate(q))'
<1> USE Sentinels
<1>0. TypeOK /\ PerRequest(r) /\ UpToDate(r) /\ ~DeadlockVictim(r)
  BY VictimIsUnderway DEF CInv, DeadlockVictim, OneAtATime
<1>1. pc[r] \in Underway /\ \A q \in Requests \ {r} : Same(q)
  BY <1>0 DEF TypeOK, Advance, Load, LoadParent, CheckSlug, LockRow, EnterSlug, CheckParent,
     Commit, Answer, Abort, RollBack, Proceed, GoTo, request, Underway, Same
<1>2. UpToDate(r)'
  <2>1. CASE Load(r)
    BY <1>0, <2>1 DEF TypeOK, PerRequest, Drafted, Load, Proceed, GoTo, request, UpToDate,
       Before, ValidationOf
  <2>2. CASE LoadParent(r)
    BY <1>0, <2>2 DEF TypeOK, PerRequest, Drafted, LoadParent, Proceed, GoTo, request,
       UpToDate, Before
  <2>3. CASE CheckSlug(r)
    <3>1. /\ draft'[r] = None /\ UNCHANGED <<categories, request, loaded>>
          /\ \/ pc'[r] = "rejected"
             \/ ~SlugExists(r) /\ pc'[r] \in {"enter_slug", "lock_row"}
             \/ pc'[r] = "commit" /\ op[r] # "create" /\ ~Dirty(r)
      BY <1>0, <2>3 DEF TypeOK, PerRequest, Drafted, CheckSlug, Proceed, GoTo
    <3>2. op[r] \in {"create", "update"} /\ pc[r] = "check_slug"
      BY <1>0, <2>3 DEF TypeOK, PerRequest, Asked, CheckSlug
    <3>3. op[r] = "update" => loaded[r] = Before(r)
      BY <1>0, <3>2 DEF UpToDate
    <3>4. SlugExists(r)' = SlugExists(r) /\ Before(r)' = Before(r)
      BY <3>1 DEF SlugExists, Before, request
    <3> QED
      BY <3>1, <3>2, <3>3, <3>4 DEF UpToDate, Dirty, request
  <2>4. CASE LockRow(r)
    <3>1. /\ op[r] = "update" /\ Before(r) \in Category /\ want[r] \in Category
          /\ loaded[r] = Before(r) /\ ~SlugExists(r)
      BY <1>0, <2>4 DEF TypeOK, PerRequest, Asked, Validated, Checked, Stored, LockRow, Before,
         UpToDate
    <3>2. Flushed(r, Before(r)) = want[r]
      BY <3>1, FlushedIsWanted
    <3>3. /\ pc'[r] = "enter_slug" /\ draft'[r] = want[r] /\ draft'[r] # None
          /\ UNCHANGED <<categories, request, loaded>>
      BY <1>0, <2>4, <3>1, <3>2 DEF TypeOK, LockRow, GoTo
    <3>4. SlugExists(r)' = SlugExists(r)
      BY <3>3 DEF SlugExists, request
    <3> QED
      BY <3>1, <3>3, <3>4 DEF UpToDate, request
  <2>5. CASE EnterSlug(r)
    <3>1. /\ op[r] \in {"create", "update"} /\ want[r] \in Category /\ ~SlugExists(r)
          /\ Written(r) = want[r]
      BY <1>0, <2>5 DEF TypeOK, PerRequest, Asked, Drafted, EnterSlug, UpToDate, Written
    <3>2. ~Taken(r)
      BY <3>1 DEF Taken, SlugExists
    <3>3. /\ pc'[r] = "check_parent" /\ draft'[r] = want[r] /\ draft'[r] # None
          /\ UNCHANGED <<categories, request, loaded>>
      BY <1>0, <2>5, <3>1, <3>2 DEF TypeOK, EnterSlug, GoTo
    <3> QED
      BY <3>3 DEF UpToDate, request
  <2>6. CASE CheckParent(r)
    BY <1>0, <2>6 DEF TypeOK, PerRequest, Drafted, CheckParent, Proceed, GoTo, request,
       UpToDate
  <2>7. CASE Commit(r) \/ Answer(r) \/ Abort(r)
    BY <1>0, <2>7 DEF TypeOK, PerRequest, Drafted, Commit, Answer, Abort, RollBack, Proceed,
       GoTo, request, UpToDate
  <2> QED
    BY <1>0, <2>1, <2>2, <2>3, <2>4, <2>5, <2>6, <2>7 DEF Advance
<1> QED
  BY <1>0, <1>1, <1>2, TurnStep

LEMMA ArriveTurn ==
  ASSUME CInv, CInv', OneAtATime, \A q \in Requests : UpToDate(q),
         NEW r \in Requests, Starts(r), alone'
  PROVE  (OneAtATime /\ \A q \in Requests : UpToDate(q))'
<1>0. TypeOK /\ PerRequest(r)
  BY DEF CInv
<1>1. /\ \A q \in Requests : pc[q] \notin Underway
      /\ \A q \in Requests \ {r} : Same(q)
      /\ pc'[r] \in {"load", "load_parent", "check_slug"}
      /\ pc'[r] # "load" => op'[r] = "create"
      /\ draft'[r] = None
  BY <1>0 DEF TypeOK, PerRequest, Drafted, Starts, StartCreate, StartUpdate, Arrive, GoTo,
     ValidationOf, Same
<1>2. UpToDate(r)'
  BY <1>1 DEF UpToDate
<1> QED
  BY <1>1, <1>2, TurnStep

LEMMA NextTurn == CInv /\ CInv' /\ InTurn /\ [Next]_vars => InTurn'
<1> SUFFICES ASSUME CInv, CInv', InTurn, [Next]_vars, alone'
             PROVE  (OneAtATime /\ \A q \in Requests : UpToDate(q))'
  BY DEF InTurn
<1>1. CASE \E r \in Requests : Starts(r)
  BY <1>1, ArriveTurn DEF InTurn, Starts, StartCreate, StartUpdate, Arrive
<1>2. CASE \E r \in Requests : Advance(r) \/ Abort(r)
  <2>1. alone' = alone
    BY <1>2 DEF Advance, Load, LoadParent, CheckSlug, LockRow, EnterSlug, CheckParent,
       Commit, Answer, DeadlockVictim, Abort, RollBack, Proceed, request
  <2> QED
    BY <1>2, <2>1, AdvanceTurn DEF InTurn
<1>3. CASE AllSettled \/ UNCHANGED vars
  <2>1. UNCHANGED <<categories, pc, op, target, want, alone, loaded, draft>>
    BY <1>3 DEF AllSettled, vars, request
  <2>2. OneAtATime' /\ \A q \in Requests : UpToDate(q)
    BY <2>1 DEF InTurn, OneAtATime
  <2>3. ASSUME NEW q \in Requests PROVE UpToDate(q)'
    <3>1. SlugExists(q)' = SlugExists(q) /\ Before(q)' = Before(q)
      BY <2>1 DEF SlugExists, Before
    <3> QED
      BY <2>1, <2>2, <3>1 DEF UpToDate
  <2> QED
    BY <2>2, <2>3
<1> QED
  BY <1>1, <1>2, <1>3 DEF Next

LEMMA InTurnAlways == Spec => [](CInv /\ InTurn)
<1>1. Init => InTurn
  BY DEF Init, Each, InTurn, OneAtATime, UpToDate, Underway
<1> QED
  BY <1>1, InitCInv, NextCInv, NextTurn, PTL DEF Spec

\* As long as requests take turns no request fails on a constraint.
THEOREM ForeseenConflicts == Spec => []ConflictsAreRefused
<1>1. InTurn => ConflictsAreRefused
  BY DEF InTurn, UpToDate, ConflictsAreRefused
<1> QED
  BY <1>1, InTurnAlways, PTL

\* As long as requests take turns what a commit stores is the payload, although
\* the flush writes only what differs from the image.
THEOREM PayloadInTurn == Spec => StoresPayload
<1> DEFINE A ==
  \A r \in Requests :
     alone /\ pc[r] = "commit" /\ pc'[r] = "answer" => categories'[target[r]] = want[r]
<1>1. ASSUME CInv, InTurn, [Next]_vars PROVE A
  <2> SUFFICES ASSUME NEW r \in Requests, alone, pc[r] = "commit", pc'[r] = "answer"
               PROVE  categories'[target[r]] = want[r]
    OBVIOUS
  <2>1. TypeOK /\ \A q \in Requests \ {r} : pc[q] \notin Underway
    BY <1>1 DEF CInv, InTurn, OneAtATime, Underway
  <2>2. Commit(r)
    <3>1. ASSUME NEW q \in Requests, q # r, Advance(q) \/ Abort(q) PROVE FALSE
      BY <2>1, <3>1 DEF TypeOK, Advance, Load, LoadParent, CheckSlug, LockRow, EnterSlug,
         CheckParent, Commit, Answer, DeadlockVictim, Abort, RollBack, Proceed, GoTo
    <3>2. ASSUME NEW q \in Requests, Starts(q) PROVE FALSE
      BY <2>1, <3>2 DEF TypeOK, Starts, StartCreate, StartUpdate, Arrive, GoTo
    <3>3. CASE Advance(r) \/ Abort(r)
      BY <2>1, <3>3 DEF TypeOK, Advance, Load, LoadParent, CheckSlug, LockRow, EnterSlug,
         CheckParent, Answer, DeadlockVictim, Abort, RollBack, Proceed, GoTo
    <3>4. ~(AllSettled \/ UNCHANGED vars)
      BY DEF AllSettled, vars
    <3> QED
      BY <1>1, <3>1, <3>2, <3>3, <3>4 DEF Next
  <2>3. /\ draft[r] = None => categories' = categories
        /\ draft[r] # None => categories'[target[r]] = draft[r]
    BY <1>1, <2>2, CommitStep
  <2> QED
    BY <1>1, <2>3 DEF InTurn, UpToDate, Before
<1> QED
  BY <1>1, InTurnAlways, PTL DEF Spec, StoresPayload
=============================================================================
