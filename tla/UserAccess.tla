----------------------------- MODULE UserAccess -----------------------------
(***************************************************************************)
(* Requests behind the bearer check (dependencies/auth.py) that depend on  *)
(* the stored user: PATCH /users/me (routers/user.py, services/user.py,    *)
(* repositories/user.py) and routes that require a permission              *)
(* (require_permission, UserRepository.get_user_permissions).              *)
(*                                                                         *)
(* The check, the permission and the update of one request share a session *)
(* and a transaction at READ COMMITTED: the user it has loaded is the one  *)
(* the update compares with.  Signature and expiry of the access token are *)
(* in AuthService; here a request carries the id a valid token names.      *)
(*                                                                         *)
(* No code clears is_active or writes the tables of roles: operators do,   *)
(* with statements of their own.  What a route does once it is permitted   *)
(* is not modelled, and no route requires a permission yet.                *)
(***************************************************************************)
CONSTANTS
  Requests,     \* the requests that may arrive, each at most once
  Users,
  Names,
  Roles,
  Permissions,
  None

Settled == {"ok", "unauthorized", "denied", "failed", "lost"}
Underway == {"get_user", "permission", "flush", "refresh", "commit", "answer"}
Stages == {"idle"} \cup Underway \cup Settled

Payload == [first_name : Names, last_name : Names]
User == [first_name : Names, last_name : Names, is_active : BOOLEAN]

ASSUME NoneAssumption == None \notin Users \cup User \cup Payload \cup Permissions

VARIABLES
  users,            \* users[u]: the committed row of user u
  user_roles,       \* pairs of a user and a role
  role_permissions, \* pairs of a role and a permission
  pc,               \* pc[r]: the stage request r has reached
  subject,          \* subject[r]: the user its access token names
  want,             \* want[r]: the names to store, or the permission required
  alone,            \* history: nothing arrived or changed while a request was under way
  loaded,           \* loaded[r]: the user as the session loaded it
  draft,            \* draft[r]: the row as r has written it, not committed
  shown,            \* shown[r]: the row r is going to answer
  held, lacked      \* history: whether, since r arrived, its user has had the
                    \* permission it requires, and whether it has not

tables == <<users, user_roles, role_permissions>>
request == <<subject, want, alone>>
history == <<held, lacked>>
vars == <<tables, pc, request, loaded, draft, shown, history>>

Each(x) == [r \in Requests |-> x]

Init ==
  /\ users \in [Users -> User]
  /\ user_roles \in SUBSET (Users \X Roles)
  /\ role_permissions \in SUBSET (Roles \X Permissions)
  /\ pc = Each("idle") /\ subject = Each(None) /\ want = Each(None)
  /\ alone = TRUE
  /\ loaded = Each(None) /\ draft = Each(None) /\ shown = Each(None)
  /\ held = Each(FALSE) /\ lacked = Each(FALSE)

-----------------------------------------------------------------------------
(* What a statement sees, writes and waits for.                            *)

\* The join of user_roles, roles and role_permissions.
HasPermission(u, p) ==
  \E role \in Roles : <<u, role>> \in user_roles /\ <<role, p>> \in role_permissions

\* Mutant: the permissions of all roles, whoever has them.
PermittedToSomeone(r) ==
  \E u \in Users : HasPermission(u, want[r])

\* user_has_permission.
Permitted(r) == HasPermission(subject[r], want[r])

\* Mutant: the whole row is written back.
FlushedWhole(r, row) ==
  [loaded[r] EXCEPT !.first_name = want[r].first_name, !.last_name = want[r].last_name]

\* Mutant: both names go into one column.
FlushedPayload(r, row) == [row EXCEPT !.first_name = want[r]]

\* setattr marks the names that differ from the image, and no other column.
Flushed(r, row) ==
  [row EXCEPT
    !.first_name = IF want[r].first_name # loaded[r].first_name
                     THEN want[r].first_name ELSE @,
    !.last_name = IF want[r].last_name # loaded[r].last_name
                    THEN want[r].last_name ELSE @]

Dirty(r) == Flushed(r, loaded[r]) # loaded[r]

\* The row of u is being updated by a transaction that has not ended.
Locked(u) == \E q \in Requests : draft[q] # None /\ subject[q] = u

-----------------------------------------------------------------------------
(* A request arrives, moves on, or loses its transaction.                  *)

GoTo(r, stage) == pc' = [pc EXCEPT ![r] = stage]

Arrive(r, u, w) ==
  /\ pc[r] = "idle"
  /\ alone' = (alone /\ \A q \in Requests : pc[q] \notin Underway)
  /\ subject' = [subject EXCEPT ![r] = u]
  /\ want' = [want EXCEPT ![r] = w]
  /\ held' = [held EXCEPT ![r] = w \in Permissions /\ HasPermission(u, w)]
  /\ lacked' = [lacked EXCEPT ![r] = w \in Permissions /\ ~HasPermission(u, w)]
  /\ GoTo(r, "get_user")
  /\ UNCHANGED <<tables, loaded, draft, shown>>

UpdateMe(r, u, w) == w \in Payload /\ Arrive(r, u, w)
RequirePermission(r, u, p) == p \in Permissions /\ Arrive(r, u, p)

Proceed(r, stage) ==
  /\ GoTo(r, stage)
  /\ UNCHANGED <<tables, request, loaded, draft, shown, history>>

\* get_user refuses a user that is not active.
Active(r) == users[subject[r]].is_active

\* get_current_user.
GetUser(r) ==
  /\ pc[r] = "get_user"
  /\ IF Active(r)
       THEN /\ loaded' = [loaded EXCEPT ![r] = users[subject[r]]]
            /\ GoTo(r, IF want[r] \in Permissions THEN "permission" ELSE "flush")
            /\ UNCHANGED <<tables, request, draft, shown, history>>
       ELSE Proceed(r, "unauthorized")

\* permission_dependency.
CheckPermission(r) ==
  /\ pc[r] = "permission"
  /\ Proceed(r, IF Permitted(r) THEN "ok" ELSE "denied")

\* The UPDATE waits for the row and applies to the version committed last;
\* if no name differs there is none.
Flush(r) ==
  /\ pc[r] = "flush"
  /\ IF Dirty(r)
       THEN /\ ~Locked(subject[r])
            /\ draft' = [draft EXCEPT ![r] = Flushed(r, users[subject[r]])]
       ELSE UNCHANGED draft
  /\ GoTo(r, "refresh")
  /\ UNCHANGED <<tables, request, loaded, shown, history>>

\* Mutant: the answer is made from the user loaded by the bearer check.
RefreshNothing(r) ==
  /\ pc[r] = "refresh"
  /\ shown' = [shown EXCEPT ![r] = Flushed(r, loaded[r])]
  /\ GoTo(r, "commit")
  /\ UNCHANGED <<tables, request, loaded, draft, history>>

\* The refresh reads the row again, as this transaction has written it.
Refresh(r) ==
  /\ pc[r] = "refresh"
  /\ shown' = [shown EXCEPT ![r] = IF draft[r] = None THEN users[subject[r]] ELSE draft[r]]
  /\ GoTo(r, "commit")
  /\ UNCHANGED <<tables, request, loaded, draft, history>>

Commit(r) ==
  /\ pc[r] = "commit"
  /\ users' = IF draft[r] = None THEN users
              ELSE [users EXCEPT ![subject[r]] = draft[r]]
  /\ draft' = [draft EXCEPT ![r] = None]
  /\ GoTo(r, "answer")
  /\ UNCHANGED <<user_roles, role_permissions, request, loaded, shown, history>>

Answer(r) ==
  /\ pc[r] = "answer"
  /\ Proceed(r, "ok") \/ Proceed(r, "lost")

\* A crash, a disconnect or a lost connection before the commit.
Abort(r) ==
  /\ pc[r] \in Underway \ {"answer"}
  /\ draft' = [draft EXCEPT ![r] = None]
  /\ GoTo(r, "failed")
  /\ UNCHANGED <<tables, request, loaded, shown, history>>

-----------------------------------------------------------------------------
(* Operators.                                                              *)

Operates ==
  /\ alone' = (alone /\ \A q \in Requests : pc[q] \notin Underway)
  /\ UNCHANGED <<pc, subject, want, loaded, draft, shown>>

\* The histories of the requests under way, after the tables have changed.
Witnessed ==
  /\ held' = [r \in Requests |->
       held[r] \/ (pc[r] \in Underway /\ want[r] \in Permissions /\ Permitted(r)')]
  /\ lacked' = [r \in Requests |->
       lacked[r] \/ (pc[r] \in Underway /\ want[r] \in Permissions /\ ~Permitted(r)')]

SetActive(u) ==
  /\ ~Locked(u)
  /\ users' = [users EXCEPT ![u].is_active = ~@]
  /\ Operates
  /\ UNCHANGED <<user_roles, role_permissions, history>>

\* A role is given to a user or taken away.
Assign(u, role) ==
  /\ user_roles' = IF <<u, role>> \in user_roles THEN user_roles \ {<<u, role>>}
                   ELSE user_roles \cup {<<u, role>>}
  /\ UNCHANGED <<users, role_permissions>>
  /\ Operates /\ Witnessed

\* A permission is given to a role or taken away.
Permit(role, p) ==
  /\ role_permissions' =
       IF <<role, p>> \in role_permissions THEN role_permissions \ {<<role, p>>}
       ELSE role_permissions \cup {<<role, p>>}
  /\ UNCHANGED <<users, user_roles>>
  /\ Operates /\ Witnessed

Starts(r) ==
  \E u \in Users :
    \/ \E w \in Payload : UpdateMe(r, u, w)
    \/ \E p \in Permissions : RequirePermission(r, u, p)

Advance(r) ==
  GetUser(r) \/ CheckPermission(r) \/ Flush(r) \/ Refresh(r) \/ Commit(r) \/ Answer(r)

Next ==
  \/ \E r \in Requests : Starts(r) \/ Advance(r) \/ Abort(r)
  \/ \E u \in Users : SetActive(u)
  \/ \E u \in Users, role \in Roles : Assign(u, role)
  \/ \E role \in Roles, p \in Permissions : Permit(role, p)

Spec == Init /\ [][Next]_vars
-----------------------------------------------------------------------------
(* Properties.                                                             *)

\* Every column and every local of a request keeps its type.
TypeOK ==
  /\ users \in [Users -> User]
  /\ user_roles \subseteq Users \X Roles
  /\ role_permissions \subseteq Roles \X Permissions
  /\ pc \in [Requests -> Stages]
  /\ subject \in [Requests -> Users \cup {None}]
  /\ want \in [Requests -> Payload \cup Permissions \cup {None}]
  /\ alone \in BOOLEAN
  /\ loaded \in [Requests -> User \cup {None}]
  /\ draft \in [Requests -> User \cup {None}]
  /\ shown \in [Requests -> User \cup {None}]
  /\ held \in [Requests -> BOOLEAN] /\ lacked \in [Requests -> BOOLEAN]

Commits(r) == pc[r] = "commit" /\ pc'[r] = "answer"

\* An update that wrote answers the row it stores, other requests' names
\* included; as long as requests take turns, that row has the names of the
\* payload.
AnswersTheRow ==
  [][\A r \in Requests :
       Commits(r) =>
         /\ draft[r] # None => shown[r] = users'[subject[r]]
         /\ alone => \A n \in {"first_name", "last_name"} :
                       shown[r][n] = want[r][n] /\ users'[subject[r]][n] = want[r][n]]_vars

\* A profile update never undoes a deactivation, although the user it has
\* loaded may be older, and touches no row but that of its token.
DeactivationStands ==
  [][\A r \in Requests :
       Commits(r) =>
         \A u \in Users :
           /\ users'[u].is_active = users[u].is_active
           /\ u # subject[r] => users'[u] = users[u]]_vars

\* A route that requires a permission lets in only users that have held it at
\* a moment of the request, and turns away only users that have lacked it:
\* roles given or taken before a request arrives count for it.
PermissionsAreFresh ==
  \A r \in Requests :
    want[r] \in Permissions =>
      /\ pc[r] = "ok" => held[r]
      /\ pc[r] = "denied" => lacked[r]
=============================================================================
