---------------------------- MODULE AuthService ----------------------------
(***************************************************************************)
(* Registration, login, refresh-token rotation, logout and the bearer      *)
(* check (services/auth.py, repositories/users.py, security/tokens.py,     *)
(* dependencies/auth.py) over the tables users and refresh_tokens.         *)
(*                                                                         *)
(* One HTTP request is one handler coroutine with one database session,    *)
(* that is one READ COMMITTED transaction.  A step of this module is what  *)
(* a request does between two awaits on the database, so the steps of      *)
(* different requests interleave:                                          *)
(*   - users and tokens hold the committed rows, all that a SELECT of      *)
(*     another request sees;                                               *)
(*   - newUser, newToken and edit hold the rows a request has flushed and  *)
(*     not committed.  A flushed UPDATE keeps its row locked and a flushed *)
(*     INSERT makes rivals for its unique key wait; both end with the      *)
(*     transaction;                                                        *)
(*   - loaded is the ORM's image of a row.  A flush writes the columns     *)
(*     that differ from this image, however old it is.                     *)
(*                                                                         *)
(* Ids and tokens are random and never repeat: the account a register      *)
(* creates and the refresh token a register, login or refresh mints are    *)
(* named by the request that makes them.  The hash that is stored instead  *)
(* of the token is injective for every purpose here, so a token and its    *)
(* hash share that name.                                                   *)
(***************************************************************************)
EXTENDS Naturals

CONSTANTS
  Requests,    \* the requests that may arrive, each at most once
  Spellings,   \* e-mail addresses as clients spell them
  Lower,       \* Lower[m]: the lower-case spelling of m
  AccessTTL,   \* life of an access token, in ticks
  RefreshTTL,  \* life of a refresh token, in ticks
  MaxNow,      \* bound on the clock
  None         \* NULL in a column, or a client without a usable credential

Issuers == {"register", "login", "refresh"}
Operations == Issuers \cup {"logout", "me", "none"}

\* How a request ends: a 2xx answer reached the client, a 4xx refusal, a
\* rollback (5xx, crash or disconnect), or an answer lost after the commit.
Settled == {"ok", "rejected", "failed", "lost"}
Underway == {"select_email", "insert_user", "insert_token", "select_token",
             "select_owner", "update_token", "commit", "select_user", "answer"}
Stages == {"idle"} \cup Underway \cup Settled

UserRow == [mail : Spellings, active : BOOLEAN]
TokenRow == [owner : Requests, active : BOOLEAN, revoked : BOOLEAN,
             replaced : Requests \cup {None}, expires : Nat]
LedgerEntry == [holder : Requests, origin : Requests \cup {None}]

ASSUME LowerAssumption ==
  /\ Lower \in [Spellings -> Spellings]
  /\ \A m \in Spellings : Lower[Lower[m]] = Lower[m]
ASSUME LifetimeAssumption ==
  AccessTTL \in Nat /\ RefreshTTL \in Nat /\ MaxNow \in Nat
ASSUME NoneAssumption ==
  None \notin Requests \cup UserRow \cup TokenRow \cup Spellings \cup LedgerEntry

VARIABLES
  now,        \* the wall clock all processes share
  users,      \* users[u]: the committed account u, or None
  tokens,     \* tokens[t]: the committed refresh token t, or None
  pc,         \* pc[r]: the stage request r has reached
  op,         \* op[r]: what r was asked to do
  given,      \* given[r]: the request whose answer held the token r presents
  mail,       \* mail[r]: the address in r's payload
  who,        \* who[r]: the account r has resolved
  loaded,     \* loaded[r]: the refresh token row in r's session
  newUser,    \* newUser[r]: the account r has inserted and not committed
  newToken,   \* newToken[r]: the token row r has inserted and not committed
  edit,       \* edit[r]: the row of token given[r] as r has updated it
  accessExp,  \* accessExp[r]: when the access token r answers with expires
  before,     \* before[r]: history, what was settled when r arrived
  alone       \* history: no request arrived while another was under way

payload == <<op, given, mail, before, alone>>
staged == <<newUser, newToken, edit>>
database == <<users, tokens>>
session == <<who, loaded, accessExp>>
vars == <<now, database, pc, payload, session, staged>>

History == [spent : BOOLEAN, expired : BOOLEAN, barred : SUBSET Requests]
NoHistory == [spent |-> FALSE, expired |-> FALSE, barred |-> {}]

Each(x) == [r \in Requests |-> x]

Init ==
  /\ now = 0
  /\ users = Each(None) /\ tokens = Each(None)
  /\ pc = Each("idle") /\ op = Each("none")
  /\ given = Each(None) /\ mail = Each(None)
  /\ before = Each(NoHistory) /\ alone = TRUE
  /\ who = Each(None) /\ loaded = Each(None) /\ accessExp = Each(0)
  /\ newUser = Each(None) /\ newToken = Each(None) /\ edit = Each(None)

-----------------------------------------------------------------------------
(* What the handlers and the database ask of the rows.                     *)

\* get_by_email compares the stored address with the lowered one.
AccountsFor(m) == {u \in Requests : users[u] # None /\ users[u].mail = Lower[m]}

\* The two unique indexes of users, on email and on lower(email).
SameKey(row, m) == row # None /\ Lower[row.mail] = Lower[m]
\* Mutant: neither unique index exists.
KeyNeverTaken(m) == FALSE

KeyTaken(m) == \E u \in Requests : SameKey(users[u], m)
KeyContested(r, m) == \E q \in Requests \ {r} : SameKey(newUser[q], m)

NewAccount(m) == [mail |-> Lower[m], active |-> TRUE]

\* Mutant: the token is stored without its user_id.
NewTokenRowWithoutOwner(u) ==
  [owner |-> None, active |-> TRUE, revoked |-> FALSE, replaced |-> None,
   expires |-> now + RefreshTTL]

NewTokenRow(u) ==
  [owner |-> u, active |-> TRUE, revoked |-> FALSE, replaced |-> None,
   expires |-> now + RefreshTTL]

\* Mutant: refresh looks at the expiry only.
RedeemableUntilExpired(row) == row.expires > now

Redeemable(row) == row.active /\ ~row.revoked /\ row.expires > now

\* Mutant: revocation writes the replacing token and nothing else.
RevokedRowOnlyLinked(row, image, by) == [row EXCEPT !.replaced = by]

\* The UPDATE of revoke_refresh_token on the latest committed row: the
\* replacing token is written only where it differs from the loaded image.
RevokedRow(row, image, by) ==
  [row EXCEPT !.active = FALSE, !.revoked = TRUE,
              !.replaced = IF by = image.replaced THEN @ ELSE by]

RowLocked(r) == \E q \in Requests \ {r} : given[q] = given[r] /\ edit[q] # None

\* Clients whose token pair arrived, and can be presented again.
Holds(h) == pc[h] = "ok" /\ op[h] \in Issuers

-----------------------------------------------------------------------------
(* A request arrives, moves on, is refused, or loses its transaction.      *)

HistoryFor(g, expired) ==
  [spent |-> g # None /\ tokens[g].revoked,
   expired |-> expired,
   barred |-> {u \in Requests : users[u] # None /\ ~users[u].active}]

Arrive(r, o, g, m, expired, stage) ==
  /\ pc[r] = "idle"
  /\ alone' = (alone /\ \A q \in Requests : pc[q] \notin Underway)
  /\ pc' = [pc EXCEPT ![r] = stage]
  /\ op' = [op EXCEPT ![r] = o]
  /\ given' = [given EXCEPT ![r] = g]
  /\ mail' = [mail EXCEPT ![r] = m]
  /\ before' = [before EXCEPT ![r] = HistoryFor(g, expired)]
  /\ UNCHANGED <<now, database, session, staged>>

GoTo(r, stage) == pc' = [pc EXCEPT ![r] = stage]

Refuse(r) ==
  /\ GoTo(r, "rejected")
  /\ UNCHANGED <<now, database, payload, session, staged>>

\* The session is closed without a commit: the transaction rolls back.
RollBack(r) ==
  /\ GoTo(r, "failed")
  /\ newUser' = [newUser EXCEPT ![r] = None]
  /\ newToken' = [newToken EXCEPT ![r] = None]
  /\ edit' = [edit EXCEPT ![r] = None]
  /\ UNCHANGED <<now, database, payload, session>>

StartRegister(r, m) == Arrive(r, "register", None, m, FALSE, "select_email")
StartLogin(r, m) == Arrive(r, "login", None, m, FALSE, "select_email")

\* g is the holder of a refresh token, or None for one nobody issued.
StartRefresh(r, g) ==
  Arrive(r, "refresh", g, None, g # None /\ tokens[g].expires <= now,
         "select_token")
StartLogout(r, g) == Arrive(r, "logout", g, None, FALSE, "select_token")

\* decode_access_token runs before the first await of the bearer check.
StartMe(r, g) ==
  LET expired == g # None /\ accessExp[g] <= now
  IN  Arrive(r, "me", g, None, expired,
             IF g = None \/ expired THEN "rejected" ELSE "select_user")

-----------------------------------------------------------------------------
(* register and login.                                                     *)

RegisterLookup(r) ==
  /\ pc[r] = "select_email" /\ op[r] = "register"
  /\ IF AccountsFor(mail[r]) # {}
       THEN Refuse(r)
       ELSE /\ GoTo(r, "insert_user")
            /\ UNCHANGED <<now, database, payload, session, staged>>

\* Mutant: create_user commits instead of flushing.
InsertUserAndCommit(r) ==
  /\ pc[r] = "insert_user"
  /\ ~KeyContested(r, mail[r])
  /\ ~KeyTaken(mail[r])
  /\ users' = [users EXCEPT ![r] = NewAccount(mail[r])]
  /\ who' = [who EXCEPT ![r] = r]
  /\ GoTo(r, "insert_token")
  /\ UNCHANGED <<now, tokens, payload, loaded, accessExp, staged>>

\* The INSERT of create_user waits for a rival's transaction, then fails if
\* the key is taken; the IntegrityError is not translated by any handler.
InsertUser(r) ==
  /\ pc[r] = "insert_user"
  /\ ~KeyContested(r, mail[r])
  /\ IF KeyTaken(mail[r])
       THEN RollBack(r)
       ELSE /\ newUser' = [newUser EXCEPT ![r] = NewAccount(mail[r])]
            /\ who' = [who EXCEPT ![r] = r]
            /\ GoTo(r, "insert_token")
            /\ UNCHANGED <<now, database, payload, loaded, accessExp,
                           newToken, edit>>

\* Mutant: login does not look at is_active.
LoginLookupAnyAccount(r) ==
  /\ pc[r] = "select_email" /\ op[r] = "login"
  /\ \E u \in AccountsFor(mail[r]) : who' = [who EXCEPT ![r] = u]
  /\ GoTo(r, "insert_token")
  /\ UNCHANGED <<now, database, payload, loaded, accessExp, staged>>

\* The password in the payload may be wrong, whoever the account is.
LoginLookup(r) ==
  /\ pc[r] = "select_email" /\ op[r] = "login"
  /\ \/ Refuse(r)
     \/ \E u \in AccountsFor(mail[r]) :
          /\ users[u].active
          /\ who' = [who EXCEPT ![r] = u]
          /\ GoTo(r, "insert_token")
          /\ UNCHANGED <<now, database, payload, loaded, accessExp, staged>>

\* create_refresh_token of register, login and refresh.  The first two have
\* made the access token when they commit, a refresh has not.
InsertToken(r) ==
  /\ pc[r] = "insert_token"
  /\ newToken' = [newToken EXCEPT ![r] = NewTokenRow(who[r])]
  /\ accessExp' = IF op[r] = "refresh" THEN accessExp
                  ELSE [accessExp EXCEPT ![r] = now + AccessTTL]
  /\ GoTo(r, "commit")
  /\ UNCHANGED <<now, database, payload, who, loaded, newUser, edit>>

-----------------------------------------------------------------------------
(* refresh and logout.                                                     *)

\* The first SELECT of get_refresh_token.  Without a row a refresh is
\* refused and a logout is done.
SelectToken(r) ==
  /\ pc[r] = "select_token"
  /\ IF given[r] = None
       THEN /\ GoTo(r, IF op[r] = "logout" THEN "answer" ELSE "rejected")
            /\ UNCHANGED loaded
       ELSE /\ loaded' = [loaded EXCEPT ![r] = tokens[given[r]]]
            /\ GoTo(r, "select_owner")
  /\ UNCHANGED <<now, database, payload, who, accessExp, staged>>

\* Its second SELECT, for the owner, and for a refresh the clock reading and
\* the checks on the two images.
SelectOwner(r) ==
  /\ pc[r] = "select_owner"
  /\ LET row == loaded[r]
     IN  IF op[r] = "refresh" /\ ~(Redeemable(row) /\ users[row.owner].active)
           THEN Refuse(r)
           ELSE /\ who' = [who EXCEPT ![r] = row.owner]
                /\ GoTo(r, "update_token")
                /\ UNCHANGED <<now, database, payload, loaded, accessExp,
                               staged>>

\* Mutant: the revocation is committed before the new token is stored.
UpdateTokenAndCommit(r) ==
  /\ pc[r] = "update_token"
  /\ ~RowLocked(r)
  /\ tokens' = [tokens EXCEPT ![given[r]] =
                  RevokedRow(@, loaded[r],
                             IF op[r] = "refresh" THEN r ELSE None)]
  /\ GoTo(r, IF op[r] = "refresh" THEN "insert_token" ELSE "answer")
  /\ UNCHANGED <<now, users, payload, session, staged>>

\* revoke_refresh_token: the UPDATE waits for the row lock and applies to
\* the row committed last, without looking at it again.
UpdateToken(r) ==
  /\ pc[r] = "update_token"
  /\ ~RowLocked(r)
  /\ edit' = [edit EXCEPT ![r] =
                RevokedRow(tokens[given[r]], loaded[r],
                           IF op[r] = "refresh" THEN r ELSE None)]
  /\ loaded' = [loaded EXCEPT ![r] = None]
  /\ GoTo(r, IF op[r] = "refresh" THEN "insert_token" ELSE "commit")
  /\ UNCHANGED <<now, database, payload, who, accessExp, newUser, newToken>>

-----------------------------------------------------------------------------
(* The end of a request.                                                   *)

Committed(table, r, row) == IF row = None THEN table
                            ELSE [table EXCEPT ![r] = row]

\* Mutant: the handler returns without session.commit().
ReturnWithoutCommit(r) ==
  /\ pc[r] = "commit"
  /\ newUser' = [newUser EXCEPT ![r] = None]
  /\ newToken' = [newToken EXCEPT ![r] = None]
  /\ edit' = [edit EXCEPT ![r] = None]
  /\ GoTo(r, "answer")
  /\ UNCHANGED <<now, database, payload, session>>

\* Mutant: the transaction is left open when the handler returns.
CommitKeepingLocks(r) ==
  /\ pc[r] = "commit"
  /\ users' = Committed(users, r, newUser[r])
  /\ tokens' = Committed(Committed(tokens, given[r], edit[r]), r, newToken[r])
  /\ GoTo(r, "answer")
  /\ UNCHANGED <<now, payload, session, staged>>

Commit(r) ==
  /\ pc[r] = "commit"
  /\ users' = Committed(users, r, newUser[r])
  /\ tokens' = Committed(Committed(tokens, given[r], edit[r]), r, newToken[r])
  /\ newUser' = [newUser EXCEPT ![r] = None]
  /\ newToken' = [newToken EXCEPT ![r] = None]
  /\ edit' = [edit EXCEPT ![r] = None]
  /\ GoTo(r, "answer")
  /\ UNCHANGED <<now, payload, session>>

\* A refresh makes its access token here, after the commit.
Answer(r) ==
  /\ pc[r] = "answer"
  /\ accessExp' = IF op[r] = "refresh"
                    THEN [accessExp EXCEPT ![r] = now + AccessTTL]
                    ELSE accessExp
  /\ GoTo(r, "ok")
  /\ UNCHANGED <<now, database, payload, who, loaded, staged>>

\* The process or the connection dies after the commit.
LoseAnswer(r) ==
  /\ pc[r] = "answer"
  /\ GoTo(r, "lost")
  /\ UNCHANGED <<now, database, payload, session, staged>>

\* get_user behind get_current_user.
SelectUser(r) ==
  /\ pc[r] = "select_user"
  /\ LET u == who[given[r]]
     IN  IF users[u].active
           THEN /\ who' = [who EXCEPT ![r] = u]
                /\ GoTo(r, "ok")
                /\ UNCHANGED <<now, database, payload, loaded, accessExp,
                               staged>>
           ELSE Refuse(r)

\* A crash, a disconnect or a lost database connection before the commit.
Abort(r) ==
  /\ pc[r] \in Underway \ {"answer"}
  /\ RollBack(r)

-----------------------------------------------------------------------------
(* The world around the service.                                           *)

\* No code clears users.is_active: an operator does, in a statement of its own.
Deactivate(u) ==
  /\ users[u] # None /\ users[u].active
  /\ users' = [users EXCEPT ![u].active = FALSE]
  /\ UNCHANGED <<now, tokens, pc, payload, session, staged>>

Tick ==
  /\ now < MaxNow
  /\ now' = now + 1
  /\ UNCHANGED <<database, pc, payload, session, staged>>

AllSettled ==
  /\ \A r \in Requests : pc[r] \in Settled
  /\ UNCHANGED vars

Starts(r) ==
  \/ \E m \in Spellings : StartRegister(r, m) \/ StartLogin(r, m)
  \/ \E g \in {h \in Requests : Holds(h)} \cup {None} :
       StartRefresh(r, g) \/ StartLogout(r, g) \/ StartMe(r, g)

\* What the event loop and the database drive, once r is under way.
Advance(r) ==
  \/ RegisterLookup(r) \/ LoginLookup(r) \/ InsertUser(r) \/ InsertToken(r)
  \/ SelectToken(r) \/ SelectOwner(r) \/ UpdateToken(r)
  \/ Commit(r) \/ Answer(r) \/ LoseAnswer(r) \/ SelectUser(r)

Next ==
  \/ \E r \in Requests : Starts(r) \/ Advance(r) \/ Abort(r) \/ Deactivate(r)
  \/ Tick
  \/ AllSettled

Spec == Init /\ [][Next]_vars

\* A request under way is scheduled again and again, and every statement it
\* may execute is answered by the database.
FairSpec == Spec /\ \A r \in Requests : WF_vars(Advance(r))

-----------------------------------------------------------------------------
(* Properties.                                                             *)

\* Every column and every local of a request keeps its type.
TypeOK ==
  /\ now \in 0 .. MaxNow
  /\ users \in [Requests -> UserRow \cup {None}]
  /\ tokens \in [Requests -> TokenRow \cup {None}]
  /\ pc \in [Requests -> Stages]
  /\ op \in [Requests -> Operations]
  /\ given \in [Requests -> Requests \cup {None}]
  /\ mail \in [Requests -> Spellings \cup {None}]
  /\ before \in [Requests -> History] /\ alone \in BOOLEAN
  /\ who \in [Requests -> Requests \cup {None}]
  /\ loaded \in [Requests -> TokenRow \cup {None}]
  /\ accessExp \in [Requests -> Nat]
  /\ newUser \in [Requests -> UserRow \cup {None}]
  /\ newToken \in [Requests -> TokenRow \cup {None}]
  /\ edit \in [Requests -> TokenRow \cup {None}]

\* However registrations race between the lookup and the INSERT, and however
\* the address is capitalised, one mailbox has one account.
OneAccountPerEmail ==
  \A u, v \in Requests :
    users[u] # None /\ users[v] # None /\ Lower[users[u].mail] = Lower[users[v].mail]
      => u = v

\* "Registration should hash passwords and issue tokens in one transaction":
\* no account without its first token, no token without its account, and a
\* request that was refused or rolled back leaves no row.
AllOrNothing ==
  \A r \in Requests :
    /\ users[r] # None => tokens[r] # None /\ tokens[r].owner = r
    /\ tokens[r] # None => users[tokens[r].owner] # None
    /\ pc[r] \in {"rejected", "failed"} => users[r] = None /\ tokens[r] = None

\* A replacing token named by a row was issued by a refresh that presented
\* that row's token, to the same account.
RotationLinked ==
  \A t \in Requests :
    tokens[t] # None /\ tokens[t].replaced # None =>
      LET s == tokens[t].replaced
      IN  /\ tokens[s] # None /\ tokens[s].owner = tokens[t].owner
          /\ op[s] = "refresh" /\ given[s] = t

\* Whatever was revoked by racing requests with stale images, is_active and
\* revoked_at agree, and only revoked tokens were replaced.
ColumnsAgree ==
  \A t \in Requests :
    tokens[t] # None =>
      /\ tokens[t].active = ~tokens[t].revoked
      /\ tokens[t].replaced # None => tokens[t].revoked

\* Together: whatever requests race with whatever images, and wherever they die,
\* the three columns of a revocation agree, and its replacement is a stored
\* token that a refresh of this one minted.
RotationsConsistent == ColumnsAgree /\ RotationLinked

\* A client never holds a token pair that a rollback took back: the token
\* of a 2xx answer is stored, for the account the request resolved.
AnswerIsDurable ==
  \A r \in Requests :
    Holds(r) => tokens[r] # None /\ tokens[r].owner = who[r]

\* A refresh that arrived after the revocation of its token had committed is
\* never honoured, and neither is one whose token had expired by then.
RevokedNotHonoured ==
  \A r \in Requests :
    op[r] = "refresh" /\ tokens[r] # None =>
      ~before[r].spent /\ ~before[r].expired

\* Whoever was deactivated before a request arrived gets nothing from it:
\* no token pair by login or refresh, no profile by an old access token.
DeactivatedShutOut ==
  \A r \in Requests :
    /\ op[r] \in {"login", "refresh"} /\ tokens[r] # None
         => tokens[r].owner \notin before[r].barred
    /\ op[r] = "me" /\ pc[r] = "ok" => who[r] \notin before[r].barred

\* "Refresh should rotate tokens so replaying the old token becomes invalid":
\* two refreshes never both succeed on one token.
SingleUse ==
  \A r, s \in Requests :
    /\ op[r] = "refresh" /\ tokens[r] # None
    /\ op[s] = "refresh" /\ tokens[s] # None
    /\ given[r] = given[s]
    => r = s

\* It is so as long as requests take turns: a refresh that arrives after the
\* last one has ended finds its token revoked.
SingleUseInTurn == alone => SingleUse

\* The two tables, read as a ledger of issued and dead tokens.
EntryOf(t) ==
  [holder |-> tokens[t].owner,
   origin |-> IF op[t] = "refresh" THEN given[t] ELSE None]

Ledger == INSTANCE TokenLedger WITH
  Tokens <- Requests, Accounts <- Requests, exclusive <- alone,
  issued <- [t \in Requests |-> IF tokens[t] = None THEN None ELSE EntryOf(t)],
  dead <- {t \in Requests : tokens[t] # None /\ tokens[t].revoked}

\* Every step of the service is one step of the ledger, or none, and as long
\* as requests take turns only live tokens are rotated.
RefinesLedger == Ledger!Spec

\* Row locks and contested keys never strand a request: whatever has arrived
\* ends, for the holder of what it waits for ends too.
EveryRequestSettles ==
  \A r \in Requests : pc[r] \in Underway ~> pc[r] \in Settled
=============================================================================
