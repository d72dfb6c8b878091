------------------------- MODULE AuthServiceProofs -------------------------
(***************************************************************************)
(* Proofs about AuthService.  IInv says what each stage of a request knows *)
(* of the rows it has loaded, staged and stored, and that row locks and    *)
(* contested keys exclude each other.  It is inductive; the safety         *)
(* properties follow from it.                                              *)
(***************************************************************************)
EXTENDS AuthService, TLAPS

Stored == {"answer", "ok", "lost"}   \* the stages after the commit

\* Which request reaches which stage, and with what.
Flow(r) ==
  /\ pc[r] = "idle" => op[r] = "none"
  /\ pc[r] = "select_email" => op[r] \in {"register", "login"}
  /\ pc[r] = "insert_user" => op[r] = "register"
  /\ pc[r] \in {"select_email", "insert_user"} => mail[r] \in Spellings
  /\ pc[r] \in {"select_token", "select_owner", "update_token"}
       => op[r] \in {"refresh", "logout"}
  /\ pc[r] = "insert_token" => op[r] \in Issuers
  /\ pc[r] \in {"commit", "answer"} => op[r] \in Issuers \cup {"logout"}
  /\ pc[r] = "select_user" => op[r] = "me" /\ given[r] # None

\* A presented token is stored, and its image names the same owner.
Presented(r) ==
  /\ given[r] # None => tokens[given[r]] # None
  /\ pc[r] \in {"select_owner", "update_token"} =>
       /\ given[r] # None /\ loaded[r] # None
       /\ loaded[r].owner = tokens[given[r]].owner
       /\ loaded[r].replaced # None => tokens[loaded[r].replaced] # None

\* The account a request acts for.
Resolved(r) ==
  /\ pc[r] \in {"insert_token", "commit"} /\ op[r] = "login"
       => who[r] # None /\ users[who[r]] # None
  /\ pc[r] \in {"update_token", "insert_token", "commit"}
     /\ op[r] \in {"refresh", "logout"}
       => given[r] # None /\ who[r] = tokens[given[r]].owner
  /\ pc[r] \in {"insert_token", "commit"} \cup Stored /\ op[r] = "register"
       => who[r] = r

\* The rows of a request are committed together, and only by a commit.
Written(r) ==
  /\ tokens[r] # None <=> pc[r] \in Stored /\ op[r] \in Issuers
  /\ tokens[r] # None => tokens[r].owner = who[r] /\ users[who[r]] # None
  /\ users[r] # None <=> pc[r] \in Stored /\ op[r] = "register"

\* What is flushed and not committed.
StagedUser(r) ==
  newUser[r] # None <=> pc[r] \in {"insert_token", "commit"} /\ op[r] = "register"

StagedToken(r) ==
  /\ newToken[r] # None <=> pc[r] = "commit" /\ op[r] \in Issuers
  /\ newToken[r] # None =>
       /\ newToken[r].owner = who[r] /\ newToken[r].active
       /\ ~newToken[r].revoked /\ newToken[r].replaced = None

StagedEdit(r) ==
  /\ edit[r] # None <=> \/ pc[r] = "insert_token" /\ op[r] = "refresh"
                        \/ pc[r] = "commit" /\ op[r] \in {"refresh", "logout"}
  /\ edit[r] # None =>
       /\ edit[r].owner = tokens[given[r]].owner
       /\ edit[r].expires = tokens[given[r]].expires
       /\ ~edit[r].active /\ edit[r].revoked
       /\ op[r] = "refresh" => edit[r].replaced = r
       /\ op[r] = "logout" => edit[r].replaced \in {None, tokens[given[r]].replaced}

\* Row locks and contested keys exclude each other.
Exclusion ==
  \A r, q \in Requests :
    /\ edit[r] # None /\ edit[q] # None /\ given[r] = given[q] => r = q
    /\ newUser[r] # None /\ newUser[q] # None
       /\ Lower[newUser[r].mail] = Lower[newUser[q].mail] => r = q
    /\ newUser[r] # None /\ users[q] # None
         => Lower[newUser[r].mail] # Lower[users[q].mail]

PerRequest(r) ==
  Flow(r) /\ Presented(r) /\ Resolved(r) /\ Written(r)
    /\ StagedUser(r) /\ StagedToken(r) /\ StagedEdit(r)

IInv ==
  /\ TypeOK
  /\ \A r \in Requests : PerRequest(r)
  /\ Exclusion
  /\ OneAccountPerEmail
  /\ ColumnsAgree
  /\ RotationLinked

LEMMA NoneIsFresh ==
  /\ None \notin Requests
  /\ \A row \in UserRow \cup TokenRow : row # None
  /\ \A m \in Spellings : m # None
BY NoneAssumption

LEMMA Initially == Init => IInv
<1> SUFFICES ASSUME Init PROVE IInv
  OBVIOUS
<1> USE NoneIsFresh
<1>1. TypeOK
  BY LifetimeAssumption DEF Init, Each, TypeOK, Stages, Operations, History,
     NoHistory
<1>2. ASSUME NEW r \in Requests PROVE PerRequest(r)
  BY DEF Init, Each, PerRequest, Flow, Presented, Resolved, Written,
     StagedUser, StagedToken, StagedEdit, Stored
<1>3. Exclusion /\ OneAccountPerEmail /\ ColumnsAgree /\ RotationLinked
  BY DEF Init, Each, Exclusion, OneAccountPerEmail, ColumnsAgree,
     RotationLinked
<1> QED
  BY <1>1, <1>2, <1>3 DEF IInv

LEMMA RefuseStep ==
  ASSUME IInv, NEW r \in Requests, Refuse(r),
         pc[r] \in Underway \ {"answer", "insert_token", "commit"}
  PROVE  IInv'
<1> USE DEF Refuse, GoTo, database, session, staged, payload
<1>1. TypeOK'
  BY DEF IInv, TypeOK, Stages, Settled
<1>2. ASSUME NEW q \in Requests PROVE PerRequest(q)'
  BY DEF IInv, TypeOK, PerRequest, Flow, Presented, Resolved, Written,
     StagedUser, StagedToken, StagedEdit, Stored, Underway
<1>3. (Exclusion /\ OneAccountPerEmail /\ ColumnsAgree /\ RotationLinked)'
  BY DEF IInv, Exclusion, OneAccountPerEmail, ColumnsAgree, RotationLinked
<1> QED
  BY <1>1, <1>2, <1>3 DEF IInv

\* What r knows when it commits.
CommitPoint(r) ==
  /\ pc[r] = "commit" /\ op[r] \in Issuers \cup {"logout"}
  /\ tokens[r] = None /\ users[r] = None
  /\ newToken[r] # None <=> op[r] \in Issuers
  /\ edit[r] # None <=> op[r] \in {"refresh", "logout"}
  /\ newUser[r] # None <=> op[r] = "register"
  /\ op[r] \in {"refresh", "logout"} =>
       /\ given[r] \in Requests \ {r} /\ tokens[given[r]] # None
       /\ who[r] = tokens[given[r]].owner /\ edit[r].owner = who[r]
       /\ edit[r].expires = tokens[given[r]].expires
       /\ users[who[r]] # None /\ who[r] \in Requests

\* The row x of each table after r has committed.
CommittedRow(r, x) ==
  /\ tokens'[x] = IF x = r /\ newToken[r] # None THEN newToken[r]
                  ELSE IF edit[r] # None /\ x = given[r] THEN edit[r]
                  ELSE tokens[x]
  /\ users'[x] = IF x = r /\ newUser[r] # None THEN newUser[r] ELSE users[x]
  /\ tokens[x] # None => tokens'[x] # None
                         /\ tokens'[x].owner = tokens[x].owner
                         /\ tokens'[x].expires = tokens[x].expires
  /\ users[x] # None => users'[x] # None
  /\ x # r => (tokens'[x] # None <=> tokens[x] # None) /\ users'[x] = users[x]

\* The request x once r has committed: only r has moved, its staged rows gone.
OnlyMovesOn(r, x) ==
  /\ pc'[x] = IF x = r THEN "answer" ELSE pc[x]
  /\ newUser'[x] = IF x = r THEN None ELSE newUser[x]
  /\ newToken'[x] = IF x = r THEN None ELSE newToken[x]
  /\ edit'[x] = IF x = r THEN None ELSE edit[x]

\* What the tables and the staged rows are after a commit.
LEMMA CommitTables ==
  ASSUME IInv, NEW r \in Requests, Commit(r)
  PROVE  /\ CommitPoint(r)
         /\ \A x \in Requests : CommittedRow(r, x)
         /\ \A x \in Requests : OnlyMovesOn(r, x)
         /\ UNCHANGED <<now, op, given, mail, before, alone, who, loaded, accessExp>>
<1> USE NoneIsFresh DEF GoTo, database, session, staged, payload
<1>0. TypeOK
  BY DEF IInv
<1>a. CommitPoint(r)
  BY DEF CommitPoint, IInv, TypeOK, PerRequest, Commit, Flow, Written,
     Presented, Resolved, StagedUser, StagedToken, StagedEdit, Stored,
     Issuers, TokenRow
<1>b. \A x \in Requests :
        tokens'[x] = IF x = r /\ newToken[r] # None THEN newToken[r]
                     ELSE IF edit[r] # None /\ x = given[r] THEN edit[r]
                     ELSE tokens[x]
  BY <1>a DEF CommitPoint, IInv, TypeOK, Commit, Committed
<1>c. \A x \in Requests :
        users'[x] = IF x = r /\ newUser[r] # None THEN newUser[r] ELSE users[x]
  BY <1>a DEF CommitPoint, IInv, TypeOK, Commit, Committed
<1>d. \A x \in Requests : CommittedRow(r, x)
  BY <1>a, <1>b, <1>c DEF CommitPoint, CommittedRow
<1>e. \A x \in Requests : OnlyMovesOn(r, x)
  BY <1>a DEF CommitPoint, IInv, TypeOK, Commit, OnlyMovesOn
<1>f. UNCHANGED <<now, op, given, mail, before, alone, who, loaded, accessExp>>
  BY DEF Commit
<1> QED
  BY <1>a, <1>d, <1>e, <1>f

LEMMA CommitStep ==
  ASSUME IInv, NEW r \in Requests, Commit(r)
  PROVE  IInv'
<1> USE NoneIsFresh
<1>1. TypeOK /\ PerRequest(r)
  BY DEF IInv
<1>2. TypeOK'
  BY DEF IInv, TypeOK, Stages, Settled, Underway, Commit, Committed, GoTo,
     session, payload
<1>3. /\ CommitPoint(r)
      /\ \A x \in Requests : CommittedRow(r, x)
      /\ \A x \in Requests : OnlyMovesOn(r, x)
      /\ UNCHANGED <<now, op, given, mail, before, alone, who, loaded, accessExp>>
  BY CommitTables
<1>4. ASSUME NEW q \in Requests PROVE PerRequest(q)'
  <2>1. PerRequest(q)
    BY DEF IInv
  <2>2. Flow(q)'
    BY <1>3, <2>1 DEF PerRequest, Flow, CommitPoint, OnlyMovesOn
  <2>3. Presented(q)'
    BY <1>2, <1>3, <2>1 DEF TypeOK, TokenRow, PerRequest, Presented,
       CommittedRow, OnlyMovesOn
  <2>4. Resolved(q)'
    <3>1. given[q] # None => tokens'[given[q]].owner = tokens[given[q]].owner
      BY <1>1, <1>3, <2>1 DEF TypeOK, PerRequest, Presented, StagedEdit,
         CommitPoint, CommittedRow
    <3>2. who[q] \in Requests /\ users[who[q]] # None => users'[who[q]] # None
      BY <1>1, <1>3 DEF TypeOK, CommitPoint, CommittedRow
    <3>3. CASE q = r
      BY <1>1, <1>3, <2>1, <3>1, <3>3 DEF TypeOK, PerRequest, Resolved,
         Stored, CommitPoint, OnlyMovesOn
    <3>4. CASE q # r
      BY <1>1, <1>3, <2>1, <3>1, <3>2, <3>4 DEF TypeOK, PerRequest, Resolved,
         Stored, OnlyMovesOn
    <3> QED
      BY <3>3, <3>4
  <2>5. Written(q)'
    <3>1. CASE q = r
      BY <1>2, <1>3, <2>1, <3>1 DEF TypeOK, PerRequest, Written, Resolved,
         StagedToken, Stored, Issuers, CommitPoint, CommittedRow, OnlyMovesOn
    <3>2. CASE q # r
      BY <1>1, <1>3, <2>1, <3>2 DEF TypeOK, TokenRow, PerRequest, Written,
         Stored, CommittedRow, OnlyMovesOn
    <3> QED
      BY <3>1, <3>2
  <2>6. (StagedUser(q) /\ StagedToken(q))'
    BY <1>2, <1>3, <2>1 DEF TypeOK, PerRequest, StagedUser, StagedToken,
       OnlyMovesOn
  <2>7. StagedEdit(q)'
    <3>1. CASE q = r
      BY <1>3, <3>1 DEF StagedEdit, OnlyMovesOn
    <3>2. CASE q # r /\ edit[q] # None
      <4>1. /\ given[q] \in Requests /\ tokens[given[q]] # None
            /\ edit[r] # None => given[q] # given[r]
        BY <1>1, <2>1, <3>2 DEF TypeOK, IInv, PerRequest, Presented,
           Resolved, StagedEdit, Exclusion
      <4>2. tokens'[given[q]] = tokens[given[q]]
        BY <1>3, <4>1 DEF CommitPoint, CommittedRow
      <4> QED
        BY <1>3, <2>1, <3>2, <4>2 DEF PerRequest, StagedEdit, OnlyMovesOn
    <3>3. CASE q # r /\ edit[q] = None
      BY <1>3, <2>1, <3>3 DEF PerRequest, StagedEdit, OnlyMovesOn
    <3> QED
      BY <3>1, <3>2, <3>3
  <2> QED
    BY <2>2, <2>3, <2>4, <2>5, <2>6, <2>7 DEF PerRequest
<1>5. Exclusion'
  BY <1>3 DEF IInv, Exclusion, CommittedRow, OnlyMovesOn
<1>6. OneAccountPerEmail'
  BY <1>3 DEF IInv, Exclusion, OneAccountPerEmail, CommittedRow
<1>7. ColumnsAgree'
  BY <1>1, <1>3 DEF TypeOK, TokenRow, IInv, PerRequest, StagedEdit,
     StagedToken, ColumnsAgree, CommitPoint, CommittedRow
<1>8. RotationLinked'
  BY <1>1, <1>2, <1>3 DEF IInv, TypeOK, TokenRow, PerRequest, StagedEdit,
     StagedToken, RotationLinked, CommitPoint, CommittedRow, OnlyMovesOn
<1> QED
  BY <1>2, <1>4, <1>5, <1>6, <1>7, <1>8 DEF IInv

LEMMA ArriveStep ==
  ASSUME IInv, NEW r \in Requests,
         NEW o \in Operations, NEW g \in Requests \cup {None},
         NEW m \in Spellings \cup {None}, NEW expired \in BOOLEAN,
         NEW stage \in {"select_email", "select_token", "select_user", "rejected"},
         Arrive(r, o, g, m, expired, stage),
         g # None => Holds(g),
         stage = "select_email" => o \in {"register", "login"} /\ m \in Spellings,
         stage = "select_token" => o \in {"refresh", "logout"},
         stage = "select_user" => o = "me" /\ g # None
  PROVE  IInv'
<1> USE NoneIsFresh DEF Arrive, database, session, staged
<1>1. TypeOK'
  BY DEF IInv, TypeOK, Stages, Settled, Underway, History, HistoryFor
<1>2. ASSUME NEW q \in Requests PROVE PerRequest(q)'
  BY DEF IInv, TypeOK, PerRequest, Flow, Presented, Resolved, Written,
     StagedUser, StagedToken, StagedEdit, Stored, Underway, Holds
<1>3. (OneAccountPerEmail /\ ColumnsAgree)'
  BY DEF IInv, OneAccountPerEmail, ColumnsAgree
<1>4. Exclusion'
  BY DEF IInv, TypeOK, PerRequest, StagedEdit, Exclusion
<1>5. RotationLinked'
  BY DEF IInv, TypeOK, TokenRow, PerRequest, Written, Stored, RotationLinked
<1> QED
  BY <1>1, <1>2, <1>3, <1>4, <1>5 DEF IInv

LEMMA RollBackStep ==
  ASSUME IInv, NEW r \in Requests, pc[r] \in Underway \ {"answer"}, RollBack(r)
  PROVE  IInv'
<1> USE NoneIsFresh DEF RollBack, GoTo, database, session, payload
<1>1. TypeOK'
  BY DEF IInv, TypeOK, Stages, Settled
<1>2. ASSUME NEW q \in Requests PROVE PerRequest(q)'
  BY DEF IInv, TypeOK, PerRequest, Flow, Presented, Resolved, Written,
     StagedUser, StagedToken, StagedEdit, Stored, Underway
<1>3. (Exclusion /\ OneAccountPerEmail /\ ColumnsAgree /\ RotationLinked)'
  BY DEF IInv, TypeOK, Exclusion, OneAccountPerEmail, ColumnsAgree,
     RotationLinked
<1> QED
  BY <1>1, <1>2, <1>3 DEF IInv

LEMMA RegisterLookupStep ==
  ASSUME IInv, NEW r \in Requests, RegisterLookup(r)
  PROVE  IInv'
<1> USE NoneIsFresh DEF RegisterLookup, GoTo, database, session, payload,
   staged
<1>1. CASE Refuse(r)
  BY <1>1, RefuseStep DEF Underway
<1>2. CASE ~Refuse(r)
  <2>1. TypeOK'
    BY <1>2 DEF IInv, TypeOK, Stages, Underway
  <2>2. ASSUME NEW q \in Requests PROVE PerRequest(q)'
    BY <1>2 DEF IInv, TypeOK, PerRequest, Flow, Presented, Resolved, Written,
       StagedUser, StagedToken, StagedEdit, Stored
  <2>3. (Exclusion /\ OneAccountPerEmail /\ ColumnsAgree /\ RotationLinked)'
    BY <1>2 DEF IInv, Exclusion, OneAccountPerEmail, ColumnsAgree,
       RotationLinked
  <2> QED
    BY <2>1, <2>2, <2>3 DEF IInv
<1> QED
  BY <1>1, <1>2

LEMMA InsertUserStep ==
  ASSUME IInv, NEW r \in Requests, InsertUser(r)
  PROVE  IInv'
<1> USE NoneIsFresh DEF InsertUser, GoTo, database, session, payload, staged
<1>1. CASE RollBack(r)
  BY <1>1, RollBackStep DEF Underway
<1>2. CASE ~RollBack(r)
  <2>0. /\ op[r] = "register" /\ mail[r] \in Spellings
        /\ NewAccount(mail[r]) \in UserRow
        /\ Lower[NewAccount(mail[r]).mail] = Lower[mail[r]]
    BY LowerAssumption DEF IInv, PerRequest, Flow, NewAccount, UserRow
  <2>a. NewAccount(mail[r]) # None
    BY <2>0
  <2>1. TypeOK'
    BY <1>2, <2>0 DEF IInv, TypeOK, Stages, Underway
  <2>2. ASSUME NEW q \in Requests PROVE PerRequest(q)'
    <3>1. (Flow(q) /\ Presented(q))'
      BY <1>2, <2>0 DEF IInv, TypeOK, PerRequest, Flow, Presented, Issuers
    <3>4. StagedUser(q)'
      BY <1>2, <2>0, <2>a DEF IInv, TypeOK, PerRequest, StagedUser
    <3>2. (Resolved(q) /\ Written(q))'
      BY <1>2, <2>0 DEF IInv, TypeOK, PerRequest, Flow, Presented, Resolved,
         Written, Stored
    <3>3. (StagedToken(q) /\ StagedEdit(q))'
      BY <1>2, <2>0 DEF IInv, TypeOK, PerRequest, StagedToken, StagedEdit
    <3> QED
      BY <3>1, <3>2, <3>3, <3>4 DEF PerRequest
  <2>3. (OneAccountPerEmail /\ ColumnsAgree /\ RotationLinked)'
    BY <1>2 DEF IInv, OneAccountPerEmail, ColumnsAgree, RotationLinked
  <2>4. Exclusion'
    BY <1>2, <2>0 DEF IInv, TypeOK, Exclusion, KeyContested, KeyTaken, SameKey
  <2> QED
    BY <2>1, <2>2, <2>3, <2>4 DEF IInv
<1> QED
  BY <1>1, <1>2

LEMMA LoginLookupStep ==
  ASSUME IInv, NEW r \in Requests, LoginLookup(r)
  PROVE  IInv'
<1> USE NoneIsFresh DEF LoginLookup, GoTo, database, session, payload, staged
<1>1. CASE Refuse(r)
  BY <1>1, RefuseStep DEF Underway
<1>2. ASSUME NEW u \in AccountsFor(mail[r]),
             who' = [who EXCEPT ![r] = u], GoTo(r, "insert_token"),
             UNCHANGED <<now, database, payload, loaded, accessExp, staged>>
      PROVE  IInv'
  <2>0. u \in Requests /\ users[u] # None
    BY DEF AccountsFor
  <2>1. TypeOK'
    BY <1>2, <2>0 DEF IInv, TypeOK, Stages, Underway
  <2>2. ASSUME NEW q \in Requests PROVE PerRequest(q)'
    BY <1>2, <2>0 DEF IInv, TypeOK, PerRequest, Flow, Presented, Resolved,
       Written, StagedUser, StagedToken, StagedEdit, Stored, Issuers
  <2>3. (Exclusion /\ OneAccountPerEmail /\ ColumnsAgree /\ RotationLinked)'
    BY <1>2 DEF IInv, Exclusion, OneAccountPerEmail, ColumnsAgree,
       RotationLinked
  <2> QED
    BY <2>1, <2>2, <2>3 DEF IInv
<1> QED
  BY <1>1, <1>2

LEMMA InsertTokenStep ==
  ASSUME IInv, NEW r \in Requests, InsertToken(r)
  PROVE  IInv'
<1> USE NoneIsFresh DEF InsertToken, GoTo, database, session, payload, staged
<1>0. /\ op[r] \in Issuers /\ who[r] \in Requests
      /\ NewTokenRow(who[r]) \in TokenRow
  BY LifetimeAssumption DEF IInv, TypeOK, TokenRow, PerRequest, Flow,
     Presented, Resolved, Issuers, NewTokenRow
<1>a. NewTokenRow(who[r]) # None
  BY <1>0
<1>1. TypeOK'
  BY <1>0, LifetimeAssumption DEF IInv, TypeOK, Stages, Underway
<1>2. ASSUME NEW q \in Requests PROVE PerRequest(q)'
  BY <1>0, <1>a DEF IInv, TypeOK, PerRequest, Flow, Presented, Resolved,
     Written, StagedUser, StagedToken, StagedEdit, Stored, Issuers,
     NewTokenRow
<1>3. (Exclusion /\ OneAccountPerEmail /\ ColumnsAgree /\ RotationLinked)'
  BY DEF IInv, Exclusion, OneAccountPerEmail, ColumnsAgree, RotationLinked
<1> QED
  BY <1>1, <1>2, <1>3 DEF IInv

LEMMA SelectTokenStep ==
  ASSUME IInv, NEW r \in Requests, SelectToken(r)
  PROVE  IInv'
<1> USE NoneIsFresh DEF SelectToken, GoTo, database, session, payload, staged
<1>1. TypeOK'
  BY DEF IInv, TypeOK, Stages, Settled, Underway
<1>2. ASSUME NEW q \in Requests PROVE PerRequest(q)'
  BY DEF IInv, TypeOK, PerRequest, Flow, Presented, Resolved, Written,
     StagedUser, StagedToken, StagedEdit, Stored, Issuers, RotationLinked
<1>3. (Exclusion /\ OneAccountPerEmail /\ ColumnsAgree /\ RotationLinked)'
  BY DEF IInv, Exclusion, OneAccountPerEmail, ColumnsAgree, RotationLinked
<1> QED
  BY <1>1, <1>2, <1>3 DEF IInv

LEMMA SelectOwnerStep ==
  ASSUME IInv, NEW r \in Requests, SelectOwner(r)
  PROVE  IInv'
<1> USE NoneIsFresh DEF SelectOwner, GoTo, database, session, payload, staged
<1>1. CASE Refuse(r)
  BY <1>1, RefuseStep DEF Underway
<1>2. CASE ~Refuse(r)
  <2>0. loaded[r] \in TokenRow /\ loaded[r].owner \in Requests
    BY DEF IInv, TypeOK, TokenRow, PerRequest, Presented
  <2>1. TypeOK'
    BY <1>2, <2>0 DEF IInv, TypeOK, Stages, Underway
  <2>2. ASSUME NEW q \in Requests PROVE PerRequest(q)'
    BY <1>2, <2>0 DEF IInv, TypeOK, PerRequest, Flow, Presented, Resolved,
       Written, StagedUser, StagedToken, StagedEdit, Stored
  <2>3. (Exclusion /\ OneAccountPerEmail /\ ColumnsAgree /\ RotationLinked)'
    BY <1>2 DEF IInv, Exclusion, OneAccountPerEmail, ColumnsAgree,
       RotationLinked
  <2> QED
    BY <2>1, <2>2, <2>3 DEF IInv
<1> QED
  BY <1>1, <1>2

LEMMA UpdateTokenStep ==
  ASSUME IInv, NEW r \in Requests, UpdateToken(r)
  PROVE  IInv'
<1> USE NoneIsFresh DEF UpdateToken, GoTo, database, session, payload, staged
<1> DEFINE row == tokens[given[r]]
           by == IF op[r] = "refresh" THEN r ELSE None
           new == RevokedRow(row, loaded[r], by)
<1>0. /\ op[r] \in {"refresh", "logout"} /\ given[r] \in Requests
      /\ row \in TokenRow /\ loaded[r] \in TokenRow
      /\ op[r] = "refresh" => loaded[r].replaced # r
      /\ edit[r] = None
  BY DEF IInv, TypeOK, TokenRow, PerRequest, Flow, Presented, Written,
     StagedEdit, Stored
<1>a. /\ new \in TokenRow /\ new.owner = row.owner /\ new.expires = row.expires
      /\ ~new.active /\ new.revoked
      /\ op[r] = "refresh" => new.replaced = r
      /\ op[r] = "logout" => new.replaced \in {None, row.replaced}
  BY <1>0 DEF RevokedRow, TokenRow
<1>1. TypeOK'
  BY <1>0, <1>a DEF IInv, TypeOK, Stages, Underway
<1>2. ASSUME NEW q \in Requests PROVE PerRequest(q)'
  BY <1>0, <1>a DEF IInv, TypeOK, PerRequest, Flow, Presented, Resolved,
     Written, StagedUser, StagedToken, StagedEdit, Stored, Issuers
<1>3. (OneAccountPerEmail /\ ColumnsAgree /\ RotationLinked)'
  BY DEF IInv, OneAccountPerEmail, ColumnsAgree, RotationLinked
<1>4. Exclusion'
  BY <1>0 DEF IInv, TypeOK, Exclusion, RowLocked
<1> QED
  BY <1>1, <1>2, <1>3, <1>4 DEF IInv

LEMMA EndStep ==
  ASSUME IInv, NEW r \in Requests, Answer(r) \/ LoseAnswer(r)
  PROVE  IInv'
<1> USE NoneIsFresh DEF Answer, LoseAnswer, GoTo, database, session, payload,
   staged
<1>1. TypeOK'
  BY LifetimeAssumption DEF IInv, TypeOK, Stages, Settled
<1>2. ASSUME NEW q \in Requests PROVE PerRequest(q)'
  BY DEF IInv, TypeOK, PerRequest, Flow, Presented, Resolved, Written,
     StagedUser, StagedToken, StagedEdit, Stored
<1>3. (Exclusion /\ OneAccountPerEmail /\ ColumnsAgree /\ RotationLinked)'
  BY DEF IInv, Exclusion, OneAccountPerEmail, ColumnsAgree, RotationLinked
<1> QED
  BY <1>1, <1>2, <1>3 DEF IInv

LEMMA SelectUserStep ==
  ASSUME IInv, NEW r \in Requests, SelectUser(r)
  PROVE  IInv'
<1> USE NoneIsFresh DEF SelectUser, GoTo, database, session, payload, staged
<1>1. CASE Refuse(r)
  BY <1>1, RefuseStep DEF Underway
<1>2. CASE ~Refuse(r)
  <2>0. op[r] = "me" /\ who[given[r]] \in Requests
    BY DEF IInv, TypeOK, TokenRow, PerRequest, Flow, Presented, Written
  <2>1. TypeOK'
    BY <1>2, <2>0 DEF IInv, TypeOK, Stages, Settled
  <2>2. ASSUME NEW q \in Requests PROVE PerRequest(q)'
    BY <1>2, <2>0 DEF IInv, TypeOK, PerRequest, Flow, Presented, Resolved,
       Written, StagedUser, StagedToken, StagedEdit, Stored, Issuers
  <2>3. (Exclusion /\ OneAccountPerEmail /\ ColumnsAgree /\ RotationLinked)'
    BY <1>2 DEF IInv, Exclusion, OneAccountPerEmail, ColumnsAgree,
       RotationLinked
  <2> QED
    BY <2>1, <2>2, <2>3 DEF IInv
<1> QED
  BY <1>1, <1>2

LEMMA DeactivateStep ==
  ASSUME IInv, NEW u \in Requests, Deactivate(u)
  PROVE  IInv'
<1> USE NoneIsFresh DEF Deactivate, session, payload, staged
<1>a. users'[u] \in UserRow /\ users'[u].mail = users[u].mail
  BY DEF IInv, TypeOK, UserRow
<1>b. users'[u] # None
  BY <1>a
<1>0. /\ users'[u] \in UserRow /\ users'[u].mail = users[u].mail
      /\ \A x \in Requests : users'[x] # None <=> users[x] # None
  BY <1>a, <1>b DEF IInv, TypeOK
<1>1. TypeOK'
  BY <1>0 DEF IInv, TypeOK
<1>2. ASSUME NEW q \in Requests PROVE PerRequest(q)'
  BY <1>0 DEF IInv, TypeOK, TokenRow, PerRequest, Flow, Presented, Resolved,
     Written, StagedUser, StagedToken, StagedEdit, Stored
<1>3. (ColumnsAgree /\ RotationLinked)'
  BY DEF IInv, ColumnsAgree, RotationLinked
<1>4. (Exclusion /\ OneAccountPerEmail)'
  BY <1>0 DEF IInv, TypeOK, Exclusion, OneAccountPerEmail
<1> QED
  BY <1>1, <1>2, <1>3, <1>4 DEF IInv

LEMMA StutterStep ==
  ASSUME IInv, Tick \/ UNCHANGED vars
  PROVE  IInv'
<1> USE DEF Tick, vars, database, session, payload, staged
<1>1. TypeOK'
  BY LifetimeAssumption DEF IInv, TypeOK
<1>2. ASSUME NEW q \in Requests PROVE PerRequest(q)'
  BY DEF IInv, PerRequest, Flow, Presented, Resolved, Written, StagedUser,
     StagedToken, StagedEdit
<1>3. (Exclusion /\ OneAccountPerEmail /\ ColumnsAgree /\ RotationLinked)'
  BY DEF IInv, Exclusion, OneAccountPerEmail, ColumnsAgree, RotationLinked
<1> QED
  BY <1>1, <1>2, <1>3 DEF IInv

LEMMA StartStep ==
  ASSUME IInv, NEW r \in Requests, Starts(r)
  PROVE  IInv'
<1>1. ASSUME NEW m \in Spellings, StartRegister(r, m) \/ StartLogin(r, m)
      PROVE  IInv'
  BY <1>1, ArriveStep DEF StartRegister, StartLogin, Operations, Issuers
<1>2. ASSUME NEW g \in {h \in Requests : Holds(h)} \cup {None},
             StartRefresh(r, g) \/ StartLogout(r, g)
      PROVE  IInv'
  <2>1. (g # None /\ tokens[g].expires <= now) \in BOOLEAN
    OBVIOUS
  <2> QED
    BY <1>2, <2>1, NoneIsFresh, ArriveStep DEF StartRefresh, StartLogout,
       Operations, Issuers
<1>3. ASSUME NEW g \in {h \in Requests : Holds(h)} \cup {None}, StartMe(r, g)
      PROVE  IInv'
  <2> DEFINE expired == g # None /\ accessExp[g] <= now
             stage == IF g = None \/ expired THEN "rejected" ELSE "select_user"
  <2>1. expired \in BOOLEAN /\ Arrive(r, "me", g, None, expired, stage)
    BY <1>3 DEF StartMe
  <2> HIDE DEF expired
  <2> QED
    BY <1>3, <2>1, NoneIsFresh, ArriveStep DEF Operations, Issuers
<1> QED
  BY <1>1, <1>2, <1>3 DEF Starts

LEMMA Inductive == IInv /\ [Next]_vars => IInv'
<1> SUFFICES ASSUME IInv, [Next]_vars PROVE IInv'
  OBVIOUS
<1>1. ASSUME NEW r \in Requests, Advance(r) PROVE IInv'
  BY <1>1, RegisterLookupStep, LoginLookupStep, InsertUserStep,
     InsertTokenStep,
     SelectTokenStep, SelectOwnerStep, UpdateTokenStep, CommitStep, EndStep,
     SelectUserStep DEF Advance
<1>2. ASSUME NEW r \in Requests, Abort(r) PROVE IInv'
  BY <1>2, RollBackStep DEF Abort
<1> QED
  BY <1>1, <1>2, StartStep, DeactivateStep, StutterStep DEF Next, AllSettled

THEOREM Invariance == Spec => []IInv
BY Initially, Inductive, PTL DEF Spec

\* Every column and every local of a request keeps its type, whatever the
\* number of requests.
THEOREM TypeCorrectness == Spec => []TypeOK
<1>1. IInv => TypeOK
  BY DEF IInv
<1> QED
  BY <1>1, Invariance, PTL

\* Registrations that race between get_by_email and the INSERT never store
\* two accounts for one mailbox.
THEOREM UniqueAccounts == Spec => []OneAccountPerEmail
<1>1. IInv => OneAccountPerEmail
  BY DEF IInv
<1> QED
  BY <1>1, Invariance, PTL

\* A registration stores its account and its first token or neither, and a
\* request that was refused or rolled back has stored nothing.
THEOREM AtomicRequests == Spec => []AllOrNothing
<1>1. IInv => AllOrNothing
  BY DEF IInv, AllOrNothing, PerRequest, Written, Resolved, Stored, Issuers
<1> QED
  BY <1>1, Invariance, PTL

\* The refresh token of a 2xx answer is stored, for the account it names.
THEOREM DurableAnswers == Spec => []AnswerIsDurable
<1>1. IInv => AnswerIsDurable
  BY DEF IInv, AnswerIsDurable, Holds, PerRequest, Written, Stored
<1> QED
  BY <1>1, Invariance, PTL

\* Revocations written through stale images leave is_active, revoked_at and
\* replaced_by_token_hash consistent with each other, and the last of them leads
\* to a stored token of the same account that a refresh with this very token has
\* minted.
THEOREM ConsistentRotations == Spec => []RotationsConsistent
<1>1. IInv => RotationsConsistent
  BY DEF IInv, RotationsConsistent
<1> QED
  BY <1>1, Invariance, PTL
=============================================================================
