-------------------------- MODULE UserAccessProofs --------------------------
(***************************************************************************)
(* Proofs about UserAccess.  UInv says what each stage of a request knows  *)
(* of the row it has loaded and written, that a row has one writer, and    *)
(* that the histories keep up with the tables; it is inductive.  InTurn    *)
(* adds what is true as long as nothing overlaps a request.                *)
(***************************************************************************)
EXTENDS UserAccess, TLAPS

Writing == {"flush", "refresh", "commit"}

\* What a request was asked, and where that has led it.
Asked(r) ==
  /\ pc[r] # "idle" => subject[r] \in Users /\ want[r] \in Payload \cup Permissions
  /\ pc[r] \in Writing \cup {"answer"} => want[r] \notin Permissions
  /\ pc[r] = "permission" => want[r] \in Permissions
  /\ pc[r] \in Writing => loaded[r] # None

\* r has written names only, and answers what it has written.
Drafted(r) ==
  /\ draft[r] # None =>
       /\ pc[r] \in {"refresh", "commit"}
       /\ draft[r].is_active = users[subject[r]].is_active
  /\ pc[r] = "commit" =>
       /\ shown[r] # None
       /\ draft[r] # None => shown[r] = draft[r]

Remembers(r) ==
  want[r] \in Permissions =>
    /\ pc[r] \in Underway => held[r] \/ ~Permitted(r)
    /\ pc[r] \in Underway => lacked[r] \/ Permitted(r)
    /\ pc[r] = "ok" => held[r]
    /\ pc[r] = "denied" => lacked[r]

PerRequest(r) == Asked(r) /\ Drafted(r) /\ Remembers(r)

\* The row of a user has one writer.
Exclusive ==
  \A r, q \in Requests :
    draft[r] # None /\ draft[q] # None /\ subject[r] = subject[q] => r = q

UInv == TypeOK /\ (\A r \in Requests : PerRequest(r)) /\ Exclusive

Named(row, w) == row.first_name = w.first_name /\ row.last_name = w.last_name

\* As long as nothing overlaps r, its image is the row, and the names it will
\* leave are those of the payload.
UpToDate(r) ==
  /\ pc[r] = "flush" => loaded[r] = users[subject[r]]
  /\ pc[r] \in {"refresh", "commit"} =>
       Named(IF draft[r] = None THEN users[subject[r]] ELSE draft[r], want[r])
  /\ pc[r] = "commit" => Named(shown[r], want[r])

OneAtATime == \A r, q \in Requests : pc[r] \in Underway /\ pc[q] \in Underway => r = q

InTurn == alone => OneAtATime /\ \A r \in Requests : UpToDate(r)
-----------------------------------------------------------------------------
(* A step of r leaves what concerns the others alone.                      *)

Same(q) ==
  /\ pc'[q] = pc[q] /\ subject'[q] = subject[q] /\ want'[q] = want[q]
  /\ loaded'[q] = loaded[q] /\ draft'[q] = draft[q] /\ shown'[q] = shown[q]
  /\ held'[q] = held[q] /\ lacked'[q] = lacked[q]

LEMMA FlushedIsUser ==
  ASSUME NEW r \in Requests, NEW row \in User, want[r] \in Payload
  PROVE  /\ Flushed(r, row) \in User
         /\ Flushed(r, row).is_active = row.is_active
BY DEF Flushed, User, Payload

\* No role and no deactivation changes: it is enough to look at r.
LEMMA Quiet ==
  ASSUME UInv, TypeOK', NEW r \in Requests,
         \A q \in Requests \ {r} : Same(q),
         user_roles' = user_roles, role_permissions' = role_permissions,
         \A u \in Users : users'[u].is_active = users[u].is_active,
         PerRequest(r)', Exclusive'
  PROVE  UInv'
<1>1. ASSUME NEW q \in Requests \ {r} PROVE PerRequest(q)'
  <2>1. PerRequest(q) /\ Same(q) /\ TypeOK
    BY DEF UInv
  <2>2. Asked(q)'
    BY <2>1 DEF PerRequest, Asked, Same
  <2>3. Drafted(q)'
    <3>1. draft[q] # None => subject[q] \in Users
      BY <2>1 DEF PerRequest, Asked, Drafted
    <3> QED
      BY <2>1, <3>1 DEF PerRequest, Drafted, Same
  <2>4. Remembers(q)'
    BY <2>1 DEF PerRequest, Remembers, Same, Permitted, HasPermission
  <2> QED
    BY <2>2, <2>3, <2>4 DEF PerRequest
<1> QED
  BY <1>1 DEF UInv

LEMMA InitUInv == Init => UInv
<1> SUFFICES ASSUME Init PROVE UInv
  OBVIOUS
<1> USE NoneAssumption DEF Init, Each
<1>1. TypeOK
  BY DEF TypeOK, Stages
<1>2. \A r \in Requests : PerRequest(r)
  BY DEF PerRequest, Asked, Drafted, Remembers, Writing, Underway
<1> QED
  BY <1>1, <1>2 DEF UInv, Exclusive

\* A step that writes no table and no draft.
LEMMA Calm ==
  ASSUME UInv, TypeOK', NEW r \in Requests, UNCHANGED tables,
         \A q \in Requests \ {r} : Same(q),
         draft'[r] = None \/ (draft'[r] = draft[r] /\ subject'[r] = subject[r]),
         PerRequest(r)'
  PROVE  UInv'
<1>1. Exclusive'
  BY DEF UInv, Exclusive, Same
<1>2. UNCHANGED <<users, user_roles, role_permissions>>
  BY DEF tables
<1> QED
  BY <1>1, <1>2, Quiet

LEMMA ArriveUInv ==
  ASSUME UInv, NEW r \in Requests, NEW u \in Users,
         NEW w \in Payload \cup Permissions, Arrive(r, u, w)
  PROVE  UInv'
<1> USE NoneAssumption DEF Arrive, GoTo
<1>0. TypeOK /\ PerRequest(r) /\ pc[r] = "idle"
  BY DEF UInv
<1>1. TypeOK'
  BY <1>0 DEF TypeOK, tables, Stages, Underway
<1>2. \A q \in Requests \ {r} : Same(q)
  BY <1>0 DEF TypeOK, Same
<1>3. draft'[r] = None
  BY <1>0 DEF PerRequest, Drafted
<1>4. PerRequest(r)'
  <2>1. Asked(r)' /\ Drafted(r)'
    BY <1>0, <1>3 DEF TypeOK, Asked, Drafted, Writing
  <2>2. Remembers(r)'
    BY <1>0 DEF TypeOK, Remembers, Permitted, HasPermission, tables
  <2> QED
    BY <2>1, <2>2 DEF PerRequest
<1>5. UNCHANGED tables
  OBVIOUS
<1> HIDE DEF Arrive, GoTo
<1> QED
  BY <1>1, <1>2, <1>3, <1>4, <1>5, Calm

LEMMA GetUserUInv ==
  ASSUME UInv, NEW r \in Requests, GetUser(r)
  PROVE  UInv'
<1> USE NoneAssumption DEF GetUser, Proceed, GoTo
<1>0. TypeOK /\ PerRequest(r) /\ pc[r] = "get_user"
  BY DEF UInv
<1>1. TypeOK'
  BY <1>0 DEF TypeOK, tables, request, history, Stages, Underway, Settled, PerRequest, Asked
<1>2. \A q \in Requests \ {r} : Same(q)
  BY <1>0 DEF TypeOK, Same, request, history
<1>3. draft'[r] = None
  BY <1>0 DEF PerRequest, Drafted
<1>4. PerRequest(r)'
  <2>1. Asked(r)' /\ Drafted(r)'
    BY <1>0, <1>3 DEF TypeOK, PerRequest, Asked, Drafted, Writing, request
  <2>2. Remembers(r)'
    BY <1>0 DEF TypeOK, PerRequest, Remembers, Permitted, HasPermission, tables, request,
       history, Underway
  <2> QED
    BY <2>1, <2>2 DEF PerRequest
<1>5. UNCHANGED tables
  OBVIOUS
<1> HIDE DEF GetUser, Proceed, GoTo
<1> QED
  BY <1>1, <1>2, <1>3, <1>4, <1>5, Calm

LEMMA CheckPermissionUInv ==
  ASSUME UInv, NEW r \in Requests, CheckPermission(r)
  PROVE  UInv'
<1> USE NoneAssumption DEF CheckPermission, Proceed, GoTo
<1>0. TypeOK /\ PerRequest(r) /\ pc[r] = "permission"
  BY DEF UInv
<1>1. TypeOK'
  BY <1>0 DEF TypeOK, tables, request, history, Stages, Settled
<1>2. \A q \in Requests \ {r} : Same(q)
  BY <1>0 DEF TypeOK, Same, request, history
<1>3. draft'[r] = None
  BY <1>0 DEF PerRequest, Drafted
<1>4. PerRequest(r)'
  <2>1. Asked(r)' /\ Drafted(r)'
    BY <1>0, <1>3 DEF TypeOK, PerRequest, Asked, Drafted, Writing, request
  <2>2. Remembers(r)'
    BY <1>0 DEF TypeOK, PerRequest, Remembers, Permitted, HasPermission, tables, request,
       history, Underway
  <2> QED
    BY <2>1, <2>2 DEF PerRequest
<1>5. UNCHANGED tables
  OBVIOUS
<1> HIDE DEF CheckPermission, Proceed, GoTo
<1> QED
  BY <1>1, <1>2, <1>3, <1>4, <1>5, Calm

LEMMA FlushUInv ==
  ASSUME UInv, NEW r \in Requests, Flush(r)
  PROVE  UInv'
<1> USE NoneAssumption DEF Flush, GoTo
<1>0. TypeOK /\ PerRequest(r) /\ pc[r] = "flush"
  BY DEF UInv
<1>f. /\ subject[r] \in Users /\ users[subject[r]] \in User /\ want[r] \in Payload
      /\ Flushed(r, users[subject[r]]) \in User
      /\ Flushed(r, users[subject[r]]).is_active = users[subject[r]].is_active
  <2>1. subject[r] \in Users /\ users[subject[r]] \in User /\ want[r] \in Payload
    BY <1>0 DEF TypeOK, PerRequest, Asked, Writing
  <2> QED
    BY <2>1, FlushedIsUser
<1>1. TypeOK'
  BY <1>0, <1>f DEF TypeOK, tables, request, history, Stages, Underway
<1>2. \A q \in Requests \ {r} : Same(q)
  BY <1>0 DEF TypeOK, Same, request, history
<1>3. /\ draft[r] = None
      /\ draft'[r] = None \/ (draft'[r] = Flushed(r, users[subject[r]]) /\ ~Locked(subject[r]))
  BY <1>0 DEF TypeOK, PerRequest, Drafted
<1>4. PerRequest(r)'
  <2>1. Asked(r)' /\ Drafted(r)'
    BY <1>0, <1>f, <1>3 DEF TypeOK, PerRequest, Asked, Drafted, Writing, request, tables
  <2>2. Remembers(r)'
    BY <1>0 DEF TypeOK, PerRequest, Asked, Remembers, Writing, request
  <2> QED
    BY <2>1, <2>2 DEF PerRequest
<1>5. Exclusive'
  BY <1>2, <1>3 DEF UInv, Exclusive, Same, Locked, request
<1>6. UNCHANGED <<users, user_roles, role_permissions>>
  BY DEF tables
<1> HIDE DEF Flush, GoTo
<1> QED
  BY <1>1, <1>2, <1>4, <1>5, <1>6, Quiet

LEMMA RefreshUInv ==
  ASSUME UInv, NEW r \in Requests, Refresh(r)
  PROVE  UInv'
<1> USE NoneAssumption DEF Refresh, GoTo
<1>0. TypeOK /\ PerRequest(r) /\ pc[r] = "refresh" /\ subject[r] \in Users
  BY DEF UInv, PerRequest, Asked
<1>s. /\ users[subject[r]] \in User
      /\ shown'[r] = IF draft[r] = None THEN users[subject[r]] ELSE draft[r]
  BY <1>0 DEF TypeOK
<1>1. TypeOK'
  BY <1>0 DEF TypeOK, tables, request, history, Stages, Underway
<1>2. \A q \in Requests \ {r} : Same(q)
  BY <1>0 DEF TypeOK, Same, request, history
<1>3. draft'[r] = draft[r] /\ subject'[r] = subject[r]
  BY DEF request
<1>4. PerRequest(r)'
  <2>1. Asked(r)' /\ Drafted(r)'
    BY <1>0, <1>s, <1>3 DEF TypeOK, PerRequest, Asked, Drafted, Writing, request, tables
  <2>2. Remembers(r)'
    BY <1>0 DEF TypeOK, PerRequest, Asked, Remembers, Writing, request
  <2> QED
    BY <2>1, <2>2 DEF PerRequest
<1>5. UNCHANGED tables
  OBVIOUS
<1> HIDE DEF Refresh, GoTo
<1> QED
  BY <1>1, <1>2, <1>3, <1>4, <1>5, Calm

\* What a commit does: one row, and its names only.
LEMMA CommitStep ==
  ASSUME UInv, NEW r \in Requests, Commit(r)
  PROVE  /\ pc[r] = "commit" /\ subject[r] \in Users
         /\ users' \in [Users -> User]
         /\ \A u \in Users : /\ users'[u].is_active = users[u].is_active
                             /\ u # subject[r] => users'[u] = users[u]
         /\ draft[r] # None => users'[subject[r]] = draft[r] /\ shown[r] = draft[r]
         /\ draft[r] = None => users' = users
BY DEF UInv, TypeOK, PerRequest, Asked, Drafted, Commit, Writing

LEMMA CommitUInv ==
  ASSUME UInv, NEW r \in Requests, Commit(r)
  PROVE  UInv'
<1> USE NoneAssumption DEF GoTo
<1>0. TypeOK /\ PerRequest(r) /\ pc[r] = "commit"
  BY DEF UInv, Commit
<1>c. /\ users' \in [Users -> User]
      /\ \A u \in Users : users'[u].is_active = users[u].is_active
  BY CommitStep
<1>1. TypeOK'
  BY <1>0, <1>c DEF TypeOK, Commit, request, history, Stages, Underway
<1>2. \A q \in Requests \ {r} : Same(q)
  BY <1>0 DEF TypeOK, Commit, Same, request, history
<1>3. draft'[r] = None
  BY <1>0 DEF Commit, TypeOK
<1>4. PerRequest(r)'
  <2>1. Asked(r)' /\ Drafted(r)'
    BY <1>0, <1>3 DEF Commit, TypeOK, PerRequest, Asked, Drafted, Writing, request
  <2>2. Remembers(r)'
    BY <1>0 DEF Commit, TypeOK, PerRequest, Asked, Remembers, Writing, request
  <2> QED
    BY <2>1, <2>2 DEF PerRequest
<1>5. Exclusive'
  BY <1>2, <1>3 DEF UInv, Exclusive, Same
<1>6. UNCHANGED <<user_roles, role_permissions>>
  BY DEF Commit
<1> QED
  BY <1>1, <1>2, <1>c, <1>4, <1>5, <1>6, Quiet

LEMMA AnswerUInv ==
  ASSUME UInv, NEW r \in Requests, Answer(r)
  PROVE  UInv'
<1> USE NoneAssumption DEF Answer, Proceed, GoTo
<1>0. TypeOK /\ PerRequest(r) /\ pc[r] = "answer"
  BY DEF UInv
<1>1. TypeOK'
  BY <1>0 DEF TypeOK, tables, request, history, Stages, Settled
<1>2. \A q \in Requests \ {r} : Same(q)
  BY <1>0 DEF TypeOK, Same, request, history
<1>3. draft'[r] = None
  BY <1>0 DEF PerRequest, Drafted
<1>4. PerRequest(r)'
  <2>1. Asked(r)' /\ Drafted(r)'
    BY <1>0, <1>3 DEF TypeOK, PerRequest, Asked, Drafted, Writing, request
  <2>2. Remembers(r)'
    BY <1>0 DEF TypeOK, PerRequest, Asked, Remembers, request
  <2> QED
    BY <2>1, <2>2 DEF PerRequest
<1>5. UNCHANGED tables
  OBVIOUS
<1> HIDE DEF Answer, Proceed, GoTo
<1> QED
  BY <1>1, <1>2, <1>3, <1>4, <1>5, Calm

LEMMA AbortUInv ==
  ASSUME UInv, NEW r \in Requests, Abort(r)
  PROVE  UInv'
<1> USE NoneAssumption DEF Abort, GoTo
<1>0. TypeOK /\ PerRequest(r) /\ pc[r] \in Underway
  BY DEF UInv
<1>1. TypeOK'
  BY <1>0 DEF TypeOK, tables, request, history, Stages, Settled
<1>2. \A q \in Requests \ {r} : Same(q)
  BY <1>0 DEF TypeOK, Same, request, history
<1>3. draft'[r] = None
  BY <1>0 DEF TypeOK
<1>4. PerRequest(r)'
  <2>1. Asked(r)' /\ Drafted(r)'
    BY <1>0, <1>3 DEF TypeOK, PerRequest, Asked, Drafted, Writing, Underway, request
  <2>2. Remembers(r)'
    BY <1>0 DEF TypeOK, Remembers, Underway, request
  <2> QED
    BY <2>1, <2>2 DEF PerRequest
<1>5. UNCHANGED tables
  OBVIOUS
<1> HIDE DEF Abort, GoTo
<1> QED
  BY <1>1, <1>2, <1>3, <1>4, <1>5, Calm

\* An operator changes the roles: every request under way takes note.
LEMMA RolesUInv ==
  ASSUME UInv, users' = users, Operates, Witnessed,
         user_roles' \subseteq Users \X Roles,
         role_permissions' \subseteq Roles \X Permissions
  PROVE  UInv'
<1>0. TypeOK
  BY DEF UInv
<1>1. TypeOK'
  BY <1>0 DEF TypeOK, Operates, Witnessed
<1>2. ASSUME NEW r \in Requests PROVE PerRequest(r)'
  <2>0. PerRequest(r)
    BY DEF UInv
  <2>1. Asked(r)' /\ Drafted(r)'
    BY <2>0 DEF PerRequest, Asked, Drafted, Operates
  <2>2. Remembers(r)'
    BY <1>0, <2>0 DEF PerRequest, Remembers, Operates, Witnessed
  <2> QED
    BY <2>1, <2>2 DEF PerRequest
<1>3. Exclusive'
  BY DEF UInv, Exclusive, Operates
<1> QED
  BY <1>1, <1>2, <1>3 DEF UInv

LEMMA SetActiveUInv ==
  ASSUME UInv, NEW u \in Users, SetActive(u)
  PROVE  UInv'
<1> USE DEF SetActive, Operates, history
<1>0. TypeOK
  BY DEF UInv
<1>1. TypeOK'
  <2>1. [users[u] EXCEPT !.is_active = ~@] \in User
    BY <1>0 DEF TypeOK, User
  <2> QED
    BY <1>0, <2>1 DEF TypeOK
<1>2. ASSUME NEW r \in Requests PROVE PerRequest(r)'
  <2>0. PerRequest(r)
    BY DEF UInv
  <2>1. draft[r] # None => subject[r] # u /\ subject[r] \in Users
    BY <2>0 DEF Locked, PerRequest, Drafted, Asked
  <2>2. Asked(r)' /\ Remembers(r)'
    BY <2>0 DEF PerRequest, Asked, Remembers, Permitted, HasPermission
  <2>3. Drafted(r)'
    BY <1>0, <2>0, <2>1 DEF TypeOK, PerRequest, Drafted
  <2> QED
    BY <2>2, <2>3 DEF PerRequest
<1>3. Exclusive'
  BY DEF UInv, Exclusive
<1> QED
  BY <1>1, <1>2, <1>3 DEF UInv

LEMMA NextUInv == UInv /\ [Next]_vars => UInv'
<1> SUFFICES ASSUME UInv, [Next]_vars PROVE UInv'
  OBVIOUS
<1>1. ASSUME NEW r \in Requests, Starts(r) PROVE UInv'
  BY <1>1, ArriveUInv DEF Starts, UpdateMe, RequirePermission
<1>2. ASSUME NEW r \in Requests, Advance(r) PROVE UInv'
  BY <1>2, GetUserUInv, CheckPermissionUInv, FlushUInv, RefreshUInv, CommitUInv,
     AnswerUInv DEF Advance
<1>3. ASSUME NEW u \in Users, NEW role \in Roles, Assign(u, role) PROVE UInv'
  <2>1. user_roles' \subseteq Users \X Roles /\ role_permissions' \subseteq Roles \X Permissions
    BY <1>3 DEF UInv, TypeOK, Assign
  <2> QED
    BY <1>3, <2>1, RolesUInv DEF Assign
<1>4. ASSUME NEW role \in Roles, NEW p \in Permissions, Permit(role, p) PROVE UInv'
  <2>1. user_roles' \subseteq Users \X Roles /\ role_permissions' \subseteq Roles \X Permissions
    BY <1>4 DEF UInv, TypeOK, Permit
  <2> QED
    BY <1>4, <2>1, RolesUInv DEF Permit
<1>5. CASE UNCHANGED vars
  BY <1>5 DEF vars, tables, request, history, UInv, TypeOK, PerRequest, Asked, Drafted,
     Remembers, Permitted, HasPermission, Exclusive
<1> QED
  BY <1>1, <1>2, <1>3, <1>4, <1>5, AbortUInv, SetActiveUInv DEF Next

\* UInv is inductive.
THEOREM Invariance == Spec => []UInv
BY InitUInv, NextUInv, PTL DEF Spec

-----------------------------------------------------------------------------
(* The theorems.                                                           *)

\* Every column and every local of a request keeps its type.
THEOREM TypeCorrectness == Spec => []TypeOK
<1>1. UInv => TypeOK
  BY DEF UInv
<1> QED
  BY <1>1, Invariance, PTL

\* Nobody is let in by a permission they never had while their request was
\* under way, nor turned away for one they had all the time.
THEOREM FreshPermissions == Spec => []PermissionsAreFresh
<1>1. UInv => PermissionsAreFresh
  BY DEF UInv, PerRequest, Remembers, PermissionsAreFresh
<1> QED
  BY <1>1, Invariance, PTL

\* The stage of r moves from commit to answer in its own commit only.
LEMMA CommitsIsCommit ==
  ASSUME UInv, [Next]_vars, NEW r \in Requests, Commits(r)
  PROVE  Commit(r)
<1>0. TypeOK /\ pc[r] = "commit" /\ pc'[r] = "answer"
  BY DEF UInv, Commits
<1>1. ASSUME NEW q \in Requests, Starts(q) PROVE FALSE
  BY <1>0, <1>1 DEF TypeOK, Starts, UpdateMe, RequirePermission, Arrive, GoTo
<1>2. ASSUME NEW q \in Requests, Advance(q) \/ Abort(q), q # r PROVE FALSE
  BY <1>0, <1>2 DEF TypeOK, Advance, GetUser, CheckPermission, Flush, Refresh, Commit,
     Answer, Abort, Proceed, GoTo
<1>3. CASE Advance(r) \/ Abort(r)
  BY <1>0, <1>3 DEF TypeOK, Advance, GetUser, CheckPermission, Flush, Refresh, Answer,
     Abort, Proceed, GoTo
<1>4. ASSUME \/ \E u \in Users : SetActive(u)
             \/ \E u \in Users, role \in Roles : Assign(u, role)
             \/ \E role \in Roles, p \in Permissions : Permit(role, p)
             \/ UNCHANGED vars
      PROVE  FALSE
  BY <1>0, <1>4 DEF SetActive, Assign, Permit, Operates, vars
<1> QED
  BY <1>1, <1>2, <1>3, <1>4 DEF Next

\* However updates and operators interleave, a profile update leaves is_active
\* and every other user's row as they are when it commits.
THEOREM NoReactivation == Spec => DeactivationStands
<1> DEFINE A ==
  \A r \in Requests :
     Commits(r) =>
       \A u \in Users :
         /\ users'[u].is_active = users[u].is_active
         /\ u # subject[r] => users'[u] = users[u]
<1>1. ASSUME UInv, [Next]_vars PROVE A
  BY <1>1, CommitsIsCommit, CommitStep
<1> QED
  BY <1>1, Invariance, PTL DEF Spec, DeactivationStands
-----------------------------------------------------------------------------
(* As long as nothing overlaps a request.                                  *)

\* r has taken a step, nobody else is under way: it is enough to look at r.
LEMMA TurnStep ==
  ASSUME UInv, OneAtATime, NEW r \in Requests,
         pc[r] \in Underway \/ \A q \in Requests : pc[q] \notin Underway,
         \A q \in Requests \ {r} : pc'[q] = pc[q],
         UpToDate(r)'
  PROVE  (OneAtATime /\ \A q \in Requests : UpToDate(q))'
<1>1. ASSUME NEW q \in Requests \ {r} PROVE pc'[q] \notin Underway
  BY <1>1 DEF OneAtATime
<1>2. \A q \in Requests \ {r} : UpToDate(q)'
  BY <1>1 DEF UpToDate, Underway
<1> QED
  BY <1>1, <1>2 DEF OneAtATime

LEMMA FlushNames ==
  ASSUME NEW r \in Requests, NEW row \in User, want[r] \in Payload, loaded[r] = row
  PROVE  /\ Named(Flushed(r, row), want[r])
         /\ ~Dirty(r) => Named(row, want[r])
<1>1. Named(Flushed(r, row), want[r])
  BY DEF Named, Flushed, User, Payload
<1> QED
  BY <1>1 DEF Dirty

LEMMA AdvanceTurn ==
  ASSUME UInv, OneAtATime, NEW r \in Requests, UpToDate(r), Advance(r) \/ Abort(r)
  PROVE  (OneAtATime /\ \A q \in Requests : UpToDate(q))'
<1>0. TypeOK /\ PerRequest(r)
  BY DEF UInv
<1>1. pc[r] \in Underway /\ \A q \in Requests \ {r} : pc'[q] = pc[q]
  BY <1>0 DEF TypeOK, Advance, GetUser, CheckPermission, Flush, Refresh, Commit, Answer,
     Abort, Proceed, GoTo, Underway
<1>2. UpToDate(r)'
  <2>1. CASE GetUser(r)
    BY <1>0, <2>1 DEF TypeOK, GetUser, Proceed, GoTo, UpToDate, tables, request
  <2>2. CASE Flush(r)
    <3>1. /\ pc[r] = "flush" /\ pc'[r] = "refresh" /\ draft[r] = None
          /\ subject[r] \in Users /\ users[subject[r]] \in User /\ want[r] \in Payload
          /\ loaded[r] = users[subject[r]]
      BY <1>0, <2>2 DEF TypeOK, Flush, GoTo, PerRequest, Asked, Drafted, Writing, UpToDate
    <3>2. /\ Named(Flushed(r, users[subject[r]]), want[r])
          /\ ~Dirty(r) => Named(users[subject[r]], want[r])
      BY <3>1, FlushNames
    <3>3. /\ UNCHANGED <<users, subject, want>>
          /\ draft'[r] = IF Dirty(r) THEN Flushed(r, users[subject[r]]) ELSE None
      BY <1>0, <2>2, <3>1 DEF TypeOK, Flush, tables, request
    <3>4. Dirty(r) => Flushed(r, users[subject[r]]) # None
      BY <3>1, FlushedIsUser, NoneAssumption
    <3> QED
      BY <3>1, <3>2, <3>3, <3>4 DEF UpToDate
  <2>3. CASE Refresh(r)
    BY <1>0, <2>3 DEF TypeOK, Refresh, GoTo, UpToDate, tables, request
  <2>4. CASE CheckPermission(r) \/ Commit(r) \/ Answer(r) \/ Abort(r)
    BY <1>0, <2>4 DEF TypeOK, CheckPermission, Commit, Answer, Abort, Proceed, GoTo, UpToDate
  <2> QED
    BY <2>1, <2>2, <2>3, <2>4 DEF Advance
<1> QED
  BY <1>1, <1>2, TurnStep

LEMMA ArriveTurn ==
  ASSUME UInv, OneAtATime, NEW r \in Requests, Starts(r), alone'
  PROVE  (OneAtATime /\ \A q \in Requests : UpToDate(q))'
<1>1. /\ \A q \in Requests : pc[q] \notin Underway
      /\ \A q \in Requests \ {r} : pc'[q] = pc[q]
      /\ pc'[r] = "get_user"
  BY DEF UInv, TypeOK, Starts, UpdateMe, RequirePermission, Arrive, GoTo
<1>2. UpToDate(r)'
  BY <1>1 DEF UpToDate
<1> QED
  BY <1>1, <1>2, TurnStep

LEMMA NextTurn == UInv /\ InTurn /\ [Next]_vars => InTurn'
<1> SUFFICES ASSUME UInv, InTurn, [Next]_vars, alone'
             PROVE  (OneAtATime /\ \A q \in Requests : UpToDate(q))'
  BY DEF InTurn
<1>1. CASE \E r \in Requests : Starts(r)
  BY <1>1, ArriveTurn DEF InTurn, Starts, UpdateMe, RequirePermission, Arrive
<1>2. CASE \E r \in Requests : Advance(r) \/ Abort(r)
  <2>1. alone' = alone
    BY <1>2 DEF Advance, GetUser, CheckPermission, Flush, Refresh, Commit, Answer, Abort,
       Proceed, request
  <2> QED
    BY <1>2, <2>1, AdvanceTurn DEF InTurn
<1>3. ASSUME Operates PROVE (OneAtATime /\ \A q \in Requests : UpToDate(q))'
  BY <1>3 DEF Operates, OneAtATime, UpToDate, Underway
<1>4. CASE UNCHANGED vars
  BY <1>4 DEF vars, tables, request, InTurn, OneAtATime, UpToDate
<1> QED
  BY <1>1, <1>2, <1>3, <1>4 DEF Next, SetActive, Assign, Permit

LEMMA InTurnAlways == Spec => [](UInv /\ InTurn)
<1>1. Init => InTurn
  BY DEF Init, Each, InTurn, OneAtATime, UpToDate, Underway
<1> QED
  BY <1>1, InitUInv, NextUInv, NextTurn, PTL DEF Spec

\* An update that wrote answers the row it stores; as long as nothing overlaps
\* a request, both have the names of its payload.
THEOREM TrueAnswers == Spec => AnswersTheRow
<1> DEFINE A ==
  \A r \in Requests :
     Commits(r) =>
       /\ draft[r] # None => shown[r] = users'[subject[r]]
       /\ alone => \A n \in {"first_name", "last_name"} :
                     shown[r][n] = want[r][n] /\ users'[subject[r]][n] = want[r][n]
<1>1. ASSUME UInv, InTurn, [Next]_vars PROVE A
  <2> SUFFICES ASSUME NEW r \in Requests, Commits(r)
               PROVE  /\ draft[r] # None => shown[r] = users'[subject[r]]
                      /\ alone => \A n \in {"first_name", "last_name"} :
                           shown[r][n] = want[r][n] /\ users'[subject[r]][n] = want[r][n]
    OBVIOUS
  <2>1. Commit(r)
    BY <1>1, CommitsIsCommit
  <2>2. /\ pc[r] = "commit"
        /\ draft[r] # None => users'[subject[r]] = draft[r] /\ shown[r] = draft[r]
        /\ draft[r] = None => users' = users
    BY <1>1, <2>1, CommitStep
  <2>3. alone => /\ Named(shown[r], want[r])
                 /\ Named(users'[subject[r]], want[r])
    BY <1>1, <2>2 DEF InTurn, UpToDate
  <2> QED
    BY <2>2, <2>3 DEF Named
<1> QED
  BY <1>1, InTurnAlways, PTL DEF Spec, AnswersTheRow
=============================================================================
