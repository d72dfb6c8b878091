------------------------- MODULE AuthHistoryProofs -------------------------
(***************************************************************************)
(* Proofs about what AuthService remembers: rows only ever get revoked or  *)
(* deactivated, so a request cannot be honoured on what was settled before *)
(* it arrived; and the tables refine TokenLedger, exclusively so as long   *)
(* as requests take turns.                                                 *)
(***************************************************************************)
EXTENDS AuthServiceProofs

Honoured == {"update_token", "insert_token", "commit"} \cup Stored

\* What was settled when q arrived is still so, and q's images show it.
Remembers(q) ==
  /\ given[q] # None /\ before[q].spent => tokens[given[q]].revoked
  /\ pc[q] = "select_token" /\ op[q] = "refresh" /\ given[q] # None
       => (before[q].expired => tokens[given[q]].expires <= now)
  /\ pc[q] = "select_owner" /\ op[q] = "refresh" =>
       /\ before[q].spent => loaded[q].revoked
       /\ before[q].expired => loaded[q].expires <= now
  /\ pc[q] \in Honoured /\ op[q] = "refresh"
       => ~before[q].spent /\ ~before[q].expired
  /\ \A u \in before[q].barred : users[u] # None /\ ~users[u].active
  /\ \/ pc[q] \in {"insert_token", "commit"} \cup Stored /\ op[q] = "login"
     \/ pc[q] \in Honoured /\ op[q] = "refresh"
     \/ pc[q] = "ok" /\ op[q] = "me"
     => who[q] \notin before[q].barred

\* A token a refresh has minted left the presented one revoked.
Minted(q) ==
  tokens[q] # None /\ op[q] = "refresh"
    => given[q] # None /\ tokens[given[q]].revoked

\* In turn, an image is never stale, and what it allowed still holds.
Fresh(q) ==
  alone /\ op[q] = "refresh" =>
    /\ pc[q] = "select_owner" => loaded[q] = tokens[given[q]]
    /\ pc[q] \in {"update_token", "insert_token", "commit"}
         => ~tokens[given[q]].revoked

OneAtATime ==
  alone => \A r, q \in Requests :
             pc[r] \in Underway /\ pc[q] \in Underway => r = q

HInv ==
  /\ \A q \in Requests : Remembers(q) /\ Minted(q) /\ Fresh(q)
  /\ OneAtATime
  /\ SingleUseInTurn

\* Rows are only ever added, revoked or deactivated, and time goes on.
Evolves ==
  /\ now <= now'
  /\ \A t \in Requests :
       tokens[t] # None =>
         /\ tokens'[t] # None /\ tokens'[t].owner = tokens[t].owner
         /\ tokens'[t].expires = tokens[t].expires
         /\ tokens[t].revoked => tokens'[t].revoked
  /\ \A u \in Requests :
       users[u] # None =>
         users'[u] # None /\ (~users[u].active => ~users'[u].active)

Still(q) ==
  /\ pc'[q] = pc[q] /\ op'[q] = op[q] /\ given'[q] = given[q]
  /\ before'[q] = before[q] /\ who'[q] = who[q] /\ loaded'[q] = loaded[q]

LEMMA CommitEvolves ==
  ASSUME IInv, NEW r \in Requests, Commit(r)
  PROVE  Evolves
<1>1. TypeOK /\ PerRequest(r)
  BY DEF IInv
<1>2. /\ CommitPoint(r) /\ now' = now
      /\ \A x \in Requests : CommittedRow(r, x)
  BY CommitTables
<1>3. edit[r] # None => edit[r].revoked
  BY <1>1 DEF PerRequest, StagedEdit
<1>4. ASSUME NEW t \in Requests, tokens[t] # None
      PROVE  tokens[t].revoked => tokens'[t].revoked
  BY <1>2, <1>3, <1>4 DEF CommitPoint, CommittedRow
<1>5. ASSUME NEW u \in Requests, users[u] # None
      PROVE  users'[u] = users[u]
  BY <1>2, <1>5 DEF CommitPoint, CommittedRow
<1> QED
  BY <1>1, <1>2, <1>4, <1>5 DEF Evolves, CommittedRow, TypeOK

LEMMA DeactivateEvolves ==
  ASSUME IInv, NEW u \in Requests, Deactivate(u)
  PROVE  Evolves
<1>1. users'[u] \in UserRow /\ ~users'[u].active
  BY DEF IInv, TypeOK, UserRow, Deactivate
<1>2. users'[u] # None
  BY <1>1, NoneIsFresh
<1> QED
  BY <1>1, <1>2 DEF IInv, TypeOK, Deactivate, Evolves

LEMMA StepEvolves ==
  ASSUME IInv, [Next]_vars
  PROVE  Evolves
<1> USE DEF Evolves, database
<1>0. TypeOK
  BY DEF IInv
<1>1. ASSUME UNCHANGED <<now, database>> PROVE Evolves
  BY <1>0, <1>1 DEF TypeOK
<1>2. ASSUME NEW r \in Requests, Starts(r) PROVE Evolves
  BY <1>1, <1>2 DEF Starts, StartRegister, StartLogin, StartRefresh,
     StartLogout, StartMe, Arrive
<1>3. ASSUME NEW r \in Requests, Advance(r) PROVE Evolves
  <2>1. CASE Commit(r)
    BY <2>1, CommitEvolves
  <2>2. CASE RegisterLookup(r) \/ LoginLookup(r) \/ InsertUser(r)
             \/ InsertToken(r) \/ SelectToken(r)
    BY <1>1, <2>2 DEF RegisterLookup, LoginLookup, InsertUser, InsertToken,
       SelectToken, Refuse, RollBack
  <2>3. CASE SelectOwner(r) \/ UpdateToken(r) \/ Answer(r) \/ LoseAnswer(r)
             \/ SelectUser(r)
    BY <1>1, <2>3 DEF SelectOwner, UpdateToken, Answer, LoseAnswer,
       SelectUser, Refuse
  <2> QED
    BY <1>3, <2>1, <2>2, <2>3 DEF Advance
<1>4. ASSUME NEW r \in Requests, Abort(r) PROVE Evolves
  BY <1>1, <1>4 DEF Abort, RollBack
<1>5. CASE Tick
  BY <1>0, <1>5 DEF TypeOK, Tick
<1>6. CASE AllSettled \/ UNCHANGED vars
  BY <1>1, <1>6 DEF AllSettled, vars
<1> QED
  BY <1>2, <1>3, <1>4, <1>5, <1>6, DeactivateEvolves DEF Next

LEMMA InitHistory == Init => HInv
BY NoneIsFresh DEF Init, Each, NoHistory, HInv, Remembers, Minted, Fresh,
   OneAtATime,
   Underway, SingleUseInTurn,
   SingleUse, Honoured, Stored

\* What a request has to remember survives the steps of the others.
LEMMA StillRemembers ==
  ASSUME IInv, IInv', Evolves, NEW q \in Requests, Still(q),
         Remembers(q), Minted(q)
  PROVE  (Remembers(q) /\ Minted(q))'
<1> USE NoneIsFresh DEF Still
<1>0. TypeOK /\ TypeOK' /\ PerRequest(q) /\ PerRequest(q)'
  BY DEF IInv
<1>1. Minted(q)'
  <2>1. tokens'[q] # None => tokens[q] # None
    BY <1>0 DEF PerRequest, Written
  <2> QED
    BY <1>0, <2>1 DEF TypeOK, PerRequest, Presented, Minted, Evolves
<1>2. given[q] # None => tokens[given[q]] # None /\ given[q] \in Requests
  BY <1>0 DEF TypeOK, PerRequest, Presented
<1>3. \A u \in before[q].barred : u \in Requests
  BY <1>0 DEF TypeOK, History
<1>4. given[q] # None => tokens[given[q]].expires \in Nat
  BY <1>0, <1>2 DEF TypeOK, TokenRow
<1>5. pc[q] = "select_owner" => loaded[q].expires \in Nat
  BY <1>0 DEF TypeOK, TokenRow, PerRequest, Presented
<1>6. now \in Nat /\ now' \in Nat
  BY <1>0, LifetimeAssumption DEF TypeOK
<1>7. Remembers(q)'
  BY <1>2, <1>3, <1>4, <1>5, <1>6 DEF Remembers, Evolves
<1> QED
  BY <1>1, <1>7

\* r has taken a step, and nobody else has: it is enough to look at r.
LEMMA Alone ==
  ASSUME IInv, IInv', Evolves, HInv, NEW r \in Requests,
         \A q \in Requests \ {r} : Still(q),
         alone' => alone,
         alone' => \/ pc[r] \in Underway
                   \/ \A q \in Requests : pc[q] \notin Underway,
         (Remembers(r) /\ Minted(r) /\ Fresh(r))',
         SingleUseInTurn'
  PROVE  HInv'
<1>1. ASSUME NEW q \in Requests \ {r} PROVE (Remembers(q) /\ Minted(q))'
  BY <1>1, StillRemembers DEF HInv
<1>2. ASSUME NEW q \in Requests \ {r}, alone' PROVE pc'[q] \notin Underway
  BY <1>2 DEF HInv, OneAtATime, Still
<1>3. ASSUME NEW q \in Requests \ {r} PROVE Fresh(q)'
  BY <1>2, <1>3 DEF Fresh, Underway
<1>4. OneAtATime'
  BY <1>2 DEF OneAtATime
<1> QED
  BY <1>1, <1>3, <1>4 DEF HInv

\* No token has been minted: whatever r did, SingleUse stands.
LEMMA NothingMinted ==
  ASSUME SingleUse, NEW r \in Requests, tokens' = tokens, tokens[r] = None,
         \A q \in Requests \ {r} : op'[q] = op[q] /\ given'[q] = given[q]
  PROVE  SingleUse'
BY DEF SingleUse

LEMMA CommitHistory ==
  ASSUME IInv, IInv', HInv, Evolves, NEW r \in Requests, Commit(r)
  PROVE  HInv'
<1> USE NoneIsFresh
<1>0. TypeOK /\ TypeOK' /\ PerRequest(r) /\ PerRequest(r)'
  BY DEF IInv
<1>1. /\ CommitPoint(r)
      /\ \A x \in Requests : CommittedRow(r, x)
      /\ \A x \in Requests : OnlyMovesOn(r, x)
      /\ UNCHANGED <<now, op, given, mail, before, alone, who, loaded, accessExp>>
  BY CommitTables
<1>2. Remembers(r) /\ Fresh(r)
  BY DEF HInv
<1>3. pc[r] \in Underway /\ \A q \in Requests \ {r} : Still(q)
  BY <1>1 DEF CommitPoint, OnlyMovesOn, Still, Underway
<1>4. op[r] = "refresh" =>
        given[r] \in Requests \ {r} /\ tokens'[given[r]].revoked
  BY <1>0, <1>1 DEF CommitPoint, CommittedRow, PerRequest, StagedEdit
<1>5. Remembers(r)'
  <2>1. pc[r] = "commit" /\ pc'[r] = "answer" /\ op[r] # "me"
    BY <1>1 DEF CommitPoint, OnlyMovesOn, Issuers
  <2>2. given[r] # None /\ before[r].spent => tokens'[given[r]].revoked
    BY <1>0, <1>2 DEF PerRequest, Presented, TypeOK, Remembers, Evolves
  <2>3. \A u \in before[r].barred : users'[u] # None /\ ~users'[u].active
    BY <1>0, <1>2 DEF TypeOK, History, Remembers, Evolves
  <2> QED
    BY <1>1, <1>2, <2>1, <2>2, <2>3 DEF Remembers, Honoured, Stored
<1>6. Minted(r)' /\ Fresh(r)'
  BY <1>1, <1>4 DEF Minted, Fresh, OnlyMovesOn
<1>7. ASSUME alone PROVE SingleUse'
  <2>1. SingleUse /\ \A s \in Requests : Minted(s)
    BY <1>7 DEF HInv, SingleUseInTurn
  <2>2. op[r] = "refresh" => ~tokens[given[r]].revoked
    BY <1>1, <1>2, <1>7 DEF CommitPoint, Fresh
  <2>3. \A s \in Requests \ {r} : tokens'[s] # None => tokens[s] # None
    BY <1>1 DEF CommittedRow
  <2>4. ASSUME NEW s \in Requests \ {r}, tokens'[s] # None, op[s] = "refresh",
               op[r] = "refresh"
        PROVE  given[s] # given[r]
    BY <2>1, <2>2, <2>3, <2>4 DEF Minted
  <2> QED
    BY <1>1, <2>1, <2>3, <2>4 DEF SingleUse
<1> QED
  BY <1>1, <1>3, <1>5, <1>6, <1>7, Alone DEF SingleUseInTurn

LEMMA ArriveHistory ==
  ASSUME IInv, IInv', HInv, Evolves, NEW r \in Requests,
         NEW o \in Operations, NEW g \in Requests \cup {None},
         NEW m \in Spellings \cup {None}, NEW expired \in BOOLEAN,
         NEW stage \in {"select_email", "select_token", "select_user", "rejected"},
         Arrive(r, o, g, m, expired, stage),
         o = "refresh" => expired = (g # None /\ tokens[g].expires <= now)
  PROVE  HInv'
<1> USE NoneIsFresh DEF Arrive, database, session, staged
<1>0. TypeOK /\ TypeOK' /\ PerRequest(r)
  BY DEF IInv
<1>1. tokens[r] = None
  BY <1>0 DEF PerRequest, Written, Stored
<1>2. \A q \in Requests \ {r} : Still(q)
  BY <1>0 DEF TypeOK, Still
<1>3. (Remembers(r) /\ Minted(r) /\ Fresh(r))'
  BY <1>0, <1>1 DEF TypeOK, Remembers, Minted, Fresh, Honoured, Stored,
     HistoryFor
<1>4. SingleUseInTurn'
  BY <1>1, <1>2, NothingMinted DEF HInv, SingleUseInTurn, Still
<1> QED
  BY <1>2, <1>3, <1>4, Alone

LEMMA StartHistory ==
  ASSUME IInv, IInv', HInv, Evolves, NEW r \in Requests, Starts(r)
  PROVE  HInv'
<1>1. ASSUME NEW m \in Spellings, StartRegister(r, m) \/ StartLogin(r, m)
      PROVE  HInv'
  BY <1>1, ArriveHistory DEF StartRegister, StartLogin, Operations, Issuers
<1>2. ASSUME NEW g \in {h \in Requests : Holds(h)} \cup {None},
             StartRefresh(r, g) \/ StartLogout(r, g)
      PROVE  HInv'
  <2>1. (g # None /\ tokens[g].expires <= now) \in BOOLEAN
    OBVIOUS
  <2> QED
    BY <1>2, <2>1, NoneIsFresh, ArriveHistory DEF StartRefresh, StartLogout,
       Operations, Issuers
<1>3. ASSUME NEW g \in {h \in Requests : Holds(h)} \cup {None}, StartMe(r, g)
      PROVE  HInv'
  <2> DEFINE expired == g # None /\ accessExp[g] <= now
             stage == IF g = None \/ expired THEN "rejected" ELSE "select_user"
  <2>1. expired \in BOOLEAN /\ Arrive(r, "me", g, None, expired, stage)
    BY <1>3 DEF StartMe
  <2> HIDE DEF expired
  <2> QED
    BY <1>3, <2>1, NoneIsFresh, ArriveHistory DEF Operations, Issuers
<1> QED
  BY <1>1, <1>2, <1>3 DEF Starts

\* The steps that leave the committed tokens alone.
LEMMA QuietHistory ==
  ASSUME IInv, IInv', HInv, Evolves, NEW r \in Requests, pc[r] \in Underway,
         UNCHANGED <<now, tokens, op, given, before, alone>>,
         \A q \in Requests \ {r} : Still(q),
         (Remembers(r) /\ Fresh(r))'
  PROVE  HInv'
<1>1. Minted(r)'
  BY DEF HInv, Minted
<1>2. SingleUseInTurn'
  BY DEF HInv, SingleUseInTurn, SingleUse
<1> QED
  BY <1>1, <1>2, Alone

LEMMA AdvanceHistory ==
  ASSUME IInv, IInv', HInv, Evolves, NEW r \in Requests, Advance(r) \/ Abort(r)
  PROVE  HInv'
<1> USE NoneIsFresh DEF GoTo, database, session, payload, staged
<1>0. TypeOK /\ TypeOK' /\ PerRequest(r) /\ Remembers(r) /\ Fresh(r)
  BY DEF IInv, HInv
<1>1. CASE Commit(r)
  BY <1>1, CommitHistory
<1>2. ASSUME pc[r] \in Underway, Refuse(r) \/ RollBack(r) PROVE HInv'
  <2>1. \A q \in Requests \ {r} : Still(q)
    BY <1>0, <1>2 DEF TypeOK, Refuse, RollBack, Still
  <2>2. (Remembers(r) /\ Fresh(r))'
    BY <1>0, <1>2 DEF TypeOK, Refuse, RollBack, Remembers, Fresh, Honoured,
       Stored
  <2> QED
    BY <1>2, <2>1, <2>2, QuietHistory DEF Refuse, RollBack
<1>3. CASE RegisterLookup(r) \/ InsertUser(r) \/ Abort(r)
  <2>1. CASE Refuse(r) \/ RollBack(r)
    BY <1>2, <1>3, <2>1 DEF RegisterLookup, InsertUser, Abort, Underway
  <2>2. CASE ~(Refuse(r) \/ RollBack(r))
    <3>1. /\ pc[r] \in Underway
          /\ UNCHANGED <<now, tokens, op, given, before, alone>>
          /\ \A q \in Requests \ {r} : Still(q)
      BY <1>0, <1>3, <2>2 DEF TypeOK, RegisterLookup, InsertUser, Abort,
         Still, Underway
    <3>2. (Remembers(r) /\ Fresh(r))'
      BY <1>0, <1>3, <2>2 DEF TypeOK, RegisterLookup, InsertUser, Abort,
         PerRequest, Flow, Remembers, Fresh, Honoured, Stored
    <3> QED
      BY <3>1, <3>2, QuietHistory
  <2> QED
    BY <2>1, <2>2
<1>4. CASE LoginLookup(r)
  <2>1. CASE Refuse(r)
    BY <1>2, <1>4, <2>1 DEF LoginLookup, Underway
  <2>2. CASE ~Refuse(r)
    <3>1. /\ pc[r] \in Underway
          /\ UNCHANGED <<now, tokens, op, given, before, alone>>
          /\ \A q \in Requests \ {r} : Still(q)
      BY <1>0, <1>4, <2>2 DEF TypeOK, LoginLookup, Still, Underway
    <3>2. (Remembers(r) /\ Fresh(r))'
      BY <1>0, <1>4, <2>2 DEF TypeOK, LoginLookup, AccountsFor, Remembers,
         Fresh, Honoured, Stored
    <3> QED
      BY <3>1, <3>2, QuietHistory
  <2> QED
    BY <2>1, <2>2
<1>5. CASE InsertToken(r) \/ SelectToken(r) \/ UpdateToken(r)
  <2>1. /\ pc[r] \in Underway
        /\ UNCHANGED <<now, tokens, users, op, given, before, alone>>
        /\ \A q \in Requests \ {r} : Still(q)
    BY <1>0, <1>5 DEF TypeOK, InsertToken, SelectToken, UpdateToken, Still,
       Underway
  <2>2. CASE InsertToken(r)
    BY <1>0, <2>1, <2>2, QuietHistory DEF TypeOK, InsertToken, Remembers,
       Fresh, Honoured, Stored
  <2>3. CASE SelectToken(r)
    <3>1. (Remembers(r) /\ Fresh(r))'
      BY <1>0, <2>1, <2>3 DEF TypeOK, SelectToken, PerRequest, Presented,
         Remembers, Fresh, Honoured, Stored
    <3> QED
      BY <2>1, <3>1, QuietHistory
  <2>4. CASE UpdateToken(r)
    <3>1. /\ pc[r] = "update_token" /\ op[r] # "login" /\ who'[r] = who[r]
          /\ pc'[r] = IF op[r] = "refresh" THEN "insert_token" ELSE "commit"
      BY <1>0, <2>4 DEF TypeOK, PerRequest, Flow, UpdateToken
    <3>2. (Remembers(r) /\ Fresh(r))'
      BY <1>0, <2>1, <3>1 DEF Remembers, Fresh, Honoured, Stored
    <3> QED
      BY <2>1, <3>2, QuietHistory
  <2> QED
    BY <1>5, <2>2, <2>3, <2>4
<1>6. CASE SelectOwner(r)
  <2>1. CASE Refuse(r)
    BY <1>2, <1>6, <2>1 DEF SelectOwner, Underway
  <2>2. CASE ~Refuse(r)
    <3>1. /\ pc[r] \in Underway
          /\ UNCHANGED <<now, tokens, users, op, given, before, alone>>
          /\ \A q \in Requests \ {r} : Still(q)
          /\ pc'[r] = "update_token" /\ who'[r] = loaded[r].owner
      BY <1>0, <1>6, <2>2 DEF TypeOK, SelectOwner, Still, Underway
    <3>2. op[r] = "refresh" =>
            /\ ~loaded[r].revoked /\ loaded[r].expires > now
            /\ users[loaded[r].owner].active
      BY <1>6, <2>2 DEF SelectOwner, Redeemable
    <3>3. loaded[r].expires \in Nat /\ now \in Nat
      BY <1>0, <1>6, LifetimeAssumption DEF TypeOK, TokenRow, SelectOwner,
         PerRequest, Presented
    <3>4. (Remembers(r) /\ Fresh(r))'
      BY <1>0, <1>6, <3>1, <3>2, <3>3 DEF SelectOwner, Remembers, Fresh,
         Honoured, Stored
    <3> QED
      BY <3>1, <3>4, QuietHistory
  <2> QED
    BY <2>1, <2>2
<1>7. CASE Answer(r) \/ LoseAnswer(r)
  <2>1. /\ pc[r] \in Underway
        /\ UNCHANGED <<now, tokens, users, op, given, before, alone>>
        /\ \A q \in Requests \ {r} : Still(q)
    BY <1>0, <1>7 DEF TypeOK, Answer, LoseAnswer, Still, Underway
  <2>2. (Remembers(r) /\ Fresh(r))'
    BY <1>0, <1>7 DEF TypeOK, PerRequest, Flow, Answer, LoseAnswer, Issuers,
       Remembers, Fresh, Honoured, Stored
  <2> QED
    BY <2>1, <2>2, QuietHistory
<1>8. CASE SelectUser(r)
  <2>1. CASE Refuse(r)
    BY <1>2, <1>8, <2>1 DEF SelectUser, Underway
  <2>2. CASE ~Refuse(r)
    <3>1. /\ pc[r] \in Underway /\ op[r] = "me" /\ pc'[r] = "ok"
          /\ UNCHANGED <<now, tokens, users, op, given, before, alone>>
          /\ \A q \in Requests \ {r} : Still(q)
          /\ users[who'[r]].active
      BY <1>0, <1>8, <2>2 DEF TypeOK, SelectUser, PerRequest, Flow, Still,
         Underway
    <3>2. (Remembers(r) /\ Fresh(r))'
      BY <1>0, <1>8, <3>1 DEF SelectUser, Remembers, Fresh, Honoured, Stored
    <3> QED
      BY <3>1, <3>2, QuietHistory
  <2> QED
    BY <2>1, <2>2
<1> QED
  BY <1>1, <1>3, <1>4, <1>5, <1>6, <1>7, <1>8 DEF Advance

LEMMA WorldHistory ==
  ASSUME IInv, IInv', HInv, Evolves,
         \/ \E u \in Requests : Deactivate(u)
         \/ Tick \/ AllSettled \/ UNCHANGED vars
  PROVE  HInv'
<1> USE DEF Deactivate, Tick, AllSettled, vars, database, session, payload,
   staged
<1>1. /\ UNCHANGED <<pc, op, given, before, alone, who, loaded, tokens>>
      /\ \A q \in Requests : Still(q)
  BY DEF Still
<1>2. \A q \in Requests : (Remembers(q) /\ Minted(q))'
  BY <1>1, StillRemembers DEF HInv
<1>3. \A q \in Requests : Fresh(q)'
  BY <1>1 DEF HInv, Fresh
<1>4. OneAtATime' /\ SingleUseInTurn'
  BY <1>1 DEF HInv, OneAtATime, SingleUseInTurn, SingleUse
<1> QED
  BY <1>2, <1>3, <1>4 DEF HInv

LEMMA HistoryInvariance == Spec => [](IInv /\ HInv)
<1>1. IInv /\ HInv /\ [Next]_vars => HInv'
  <2> SUFFICES ASSUME IInv, HInv, [Next]_vars PROVE HInv'
    OBVIOUS
  <2>1. IInv' /\ Evolves
    BY Inductive, StepEvolves
  <2> QED
    BY <2>1, StartHistory, AdvanceHistory, WorldHistory DEF Next
<1> QED
  BY <1>1, Initially, InitHistory, Inductive, PTL DEF Spec

\* A refresh that arrived after the revocation or the expiry of its token is
\* never honoured, however the reads of get_refresh_token interleave with
\* other requests.
THEOREM RevokedStaysRevoked == Spec => []RevokedNotHonoured
<1>1. IInv /\ HInv => RevokedNotHonoured
  BY DEF IInv, HInv, PerRequest, Written, Remembers, Honoured,
     RevokedNotHonoured
<1> QED
  BY <1>1, HistoryInvariance, PTL

\* Whoever was deactivated before a request arrived gets nothing from it.
THEOREM DeactivatedStayOut == Spec => []DeactivatedShutOut
<1>1. IInv /\ HInv => DeactivatedShutOut
  BY DEF IInv, HInv, PerRequest, Written, Remembers, Honoured, Stored,
     DeactivatedShutOut
<1> QED
  BY <1>1, HistoryInvariance, PTL

\* As long as requests take turns, a refresh token is redeemed once.
THEOREM SerialSingleUse == Spec => []SingleUseInTurn
<1>1. HInv => SingleUseInTurn
  BY DEF HInv
<1> QED
  BY <1>1, HistoryInvariance, PTL

\* A step that writes no token leaves the ledger alone, but for its mode.
LEMMA LedgerStutters ==
  ASSUME TypeOK, TypeOK', tokens' = tokens, alone' => alone,
         \A t \in Requests :
           tokens[t] # None => op'[t] = op[t] /\ given'[t] = given[t]
  PROVE  [Ledger!Next]_Ledger!ledger
<1>1. alone \in BOOLEAN /\ alone' \in BOOLEAN
  BY DEF TypeOK
<1>2. alone' = alone \/ alone' = FALSE
  BY <1>1
<1> QED
  BY <1>2 DEF EntryOf, Ledger!ledger, Ledger!Next, Ledger!Share

LEMMA CommitIsLedgerStep ==
  ASSUME IInv, HInv, NEW r \in Requests, Commit(r)
  PROVE  Ledger!Next
<1> USE NoneIsFresh
<1> DEFINE issued == [t \in Requests |-> IF tokens[t] = None THEN None ELSE EntryOf(t)]
           dead == {t \in Requests : tokens[t] # None /\ tokens[t].revoked}
<1>0. TypeOK /\ PerRequest(r)
  BY DEF IInv
<1>1. /\ CommitPoint(r)
      /\ \A x \in Requests : CommittedRow(r, x)
      /\ UNCHANGED <<now, op, given, mail, before, alone, who, loaded, accessExp>>
  BY CommitTables
<1>2. \A t \in Requests : tokens[t] # None => EntryOf(t) # None
  BY <1>0, NoneAssumption DEF EntryOf, LedgerEntry, TypeOK, TokenRow
<1>3. ASSUME NEW t \in Requests \ {r} PROVE issued'[t] = issued[t]
  BY <1>1, <1>3 DEF CommittedRow, EntryOf
<1>a. ASSUME NEW e, issued'[r] = e PROVE issued' = [issued EXCEPT ![r] = e]
  BY <1>3, <1>a
<1>4. /\ newToken[r] # None => newToken[r].owner = who[r] /\ ~newToken[r].revoked
      /\ edit[r] # None => edit[r].revoked
  BY <1>0 DEF PerRequest, StagedToken, StagedEdit
<1>5. CASE op[r] \in {"register", "login"}
  <2>1. tokens'[r] = newToken[r] /\ newToken[r] # None /\ who[r] \in Requests
    BY <1>0, <1>1, <1>5 DEF CommitPoint, CommittedRow, Issuers, PerRequest,
       StagedToken, TypeOK, TokenRow
  <2>a. issued'[r] = Ledger!Entry(who[r], None)
    BY <1>1, <1>4, <1>5, <2>1 DEF EntryOf, Ledger!Entry
  <2>2. issued' = [issued EXCEPT ![r] = Ledger!Entry(who[r], None)]
    BY <1>a, <2>a
  <2>3. dead' = dead
    BY <1>1, <1>4, <1>5, <2>1 DEF CommitPoint, CommittedRow
  <2>4. issued[r] = None
    BY <1>1 DEF CommitPoint
  <2> QED
    BY <1>1, <2>1, <2>2, <2>3, <2>4 DEF Ledger!Next, Ledger!Issue
<1>6. CASE op[r] = "refresh"
  <2>1. /\ tokens'[r] = newToken[r] /\ newToken[r] # None
        /\ given[r] \in Requests /\ tokens'[given[r]] = edit[r] /\ edit[r] # None
        /\ tokens[given[r]].owner = who[r] /\ tokens[given[r]] # None /\ given[r] # r
    BY <1>1, <1>6 DEF CommitPoint, CommittedRow, Issuers
  <2>a. issued'[r] = Ledger!Entry(issued[given[r]].holder, given[r])
    BY <1>1, <1>4, <1>6, <2>1 DEF EntryOf, Ledger!Entry
  <2>2. issued' = [issued EXCEPT ![r] =
                     Ledger!Entry(issued[given[r]].holder, given[r])]
    BY <1>a, <2>a
  <2>b. \A t \in Requests : t \in dead' <=> t \in dead \/ t = given[r]
    BY <1>1, <1>4, <1>6, <2>1 DEF CommitPoint, CommittedRow
  <2>3. dead' = dead \cup {given[r]}
    BY <2>1, <2>b
  <2>4. issued[r] = None /\ issued[given[r]] # None
    BY <1>1, <1>2, <2>1 DEF CommitPoint
  <2>5. alone => given[r] \notin dead
    BY <1>1, <1>6 DEF HInv, Fresh, CommitPoint
  <2> QED
    BY <1>1, <2>1, <2>2, <2>3, <2>4, <2>5 DEF Ledger!Next, Ledger!Rotate
<1>7. CASE op[r] = "logout"
  <2>1. /\ newToken[r] = None /\ given[r] \in Requests
        /\ tokens'[given[r]] = edit[r] /\ edit[r] # None
        /\ tokens'[r] = None /\ tokens[r] = None /\ tokens[given[r]] # None
    BY <1>1, <1>7 DEF CommitPoint, CommittedRow, Issuers
  <2>2. issued' = issued
    BY <1>3, <2>1
  <2>3. dead' = dead \cup {given[r]}
    BY <1>1, <1>4, <2>1 DEF CommittedRow
  <2>4. issued[given[r]] # None
    BY <1>2, <2>1
  <2> QED
    BY <1>1, <2>1, <2>2, <2>3, <2>4 DEF Ledger!Next, Ledger!Retire
<1> QED
  BY <1>1, <1>5, <1>6, <1>7 DEF CommitPoint, Issuers

LEMMA ElseLedgerStutters ==
  ASSUME IInv, [Next]_vars, \A r \in Requests : ~Commit(r)
  PROVE  [Ledger!Next]_Ledger!ledger
<1> USE DEF database
<1>0. TypeOK /\ TypeOK' /\ \A r \in Requests : PerRequest(r)
  BY Inductive DEF IInv
<1>1. ASSUME tokens' = tokens, UNCHANGED payload PROVE [Ledger!Next]_Ledger!ledger
  BY <1>0, <1>1, LedgerStutters DEF payload
<1>2. ASSUME NEW r \in Requests, Starts(r) PROVE [Ledger!Next]_Ledger!ledger
  <2>1. tokens[r] = None
    BY <1>0, <1>2 DEF PerRequest, Written, Stored, Starts, StartRegister,
       StartLogin, StartRefresh, StartLogout, StartMe, Arrive
  <2>2. /\ tokens' = tokens /\ (alone' => alone)
        /\ \A q \in Requests \ {r} : op'[q] = op[q] /\ given'[q] = given[q]
    <3>1. PICK o, g, m, expired, stage : Arrive(r, o, g, m, expired, stage)
      BY <1>2, Zenon DEF Starts, StartRegister, StartLogin, StartRefresh,
         StartLogout, StartMe
    <3> QED
      BY <1>0, <3>1 DEF TypeOK, Arrive
  <2> QED
    BY <1>0, <2>1, <2>2, LedgerStutters
<1>3. ASSUME NEW r \in Requests, Advance(r), ~Commit(r)
      PROVE  [Ledger!Next]_Ledger!ledger
  <2>1. CASE RegisterLookup(r) \/ LoginLookup(r) \/ InsertUser(r)
             \/ InsertToken(r) \/ SelectToken(r)
    BY <1>1, <2>1 DEF RegisterLookup, LoginLookup, InsertUser, InsertToken,
       SelectToken, Refuse, RollBack
  <2>2. CASE SelectOwner(r) \/ UpdateToken(r) \/ Answer(r) \/ LoseAnswer(r)
             \/ SelectUser(r)
    BY <1>1, <2>2 DEF SelectOwner, UpdateToken, Answer, LoseAnswer,
       SelectUser, Refuse
  <2> QED
    BY <1>3, <2>1, <2>2 DEF Advance
<1>4. ASSUME NEW r \in Requests, Abort(r) \/ Deactivate(r)
      PROVE  [Ledger!Next]_Ledger!ledger
  BY <1>1, <1>4 DEF Abort, RollBack, Deactivate
<1>5. CASE Tick \/ AllSettled \/ UNCHANGED vars
  BY <1>1, <1>5 DEF Tick, AllSettled, vars
<1> QED
  BY <1>2, <1>3, <1>4, <1>5 DEF Next

\* The service implements the ledger: a commit issues, rotates or retires a
\* token in one step, every other step leaves the ledger alone, and as
\* long as requests take turns only live tokens are rotated.
THEOREM LedgerRefinement == Spec => RefinesLedger
<1>1. Init => Ledger!Init
  BY DEF Init, Each, Ledger!Init
<1>2. IInv /\ HInv /\ [Next]_vars => [Ledger!Next]_Ledger!ledger
  BY CommitIsLedgerStep, ElseLedgerStutters
<1> QED
  BY <1>1, <1>2, HistoryInvariance, PTL DEF Spec, RefinesLedger, Ledger!Spec
=============================================================================
