------------------------- MODULE AddressBookProofs -------------------------
(***************************************************************************)
(* Proofs about AddressBook.  BInv says what a request knows of the rows   *)
(* it has listed, locked and written, and that no two requests hold one    *)
(* row; it is inductive, and ownership follows from it.  InTurn adds what  *)
(* is true as long as requests take turns, and the default rule follows.   *)
(***************************************************************************)
EXTENDS AddressBook, TLAPS

Over == {"answer", "ok", "lost"}   \* the stages after the commit

\* The address a has been stored, if only for a while.
Known(a) == a \in Existing \/ (a \in Requests /\ op[a] = "create" /\ pc[a] \in Over)

\* What a request was asked, and where that has led it.
Asked(r) ==
  /\ pc[r] = "idle" <=> op[r] = "none"
  /\ pc[r] # "idle" => user[r] \in Users
  /\ op[r] \in {"create", "replace"} => want[r] \in Payload
  /\ op[r] = "delete" => want[r] = None
  /\ op[r] = "create" => target[r] = r /\ pc[r] # "load"
  /\ pc[r] \in {"begin_unset", "unset"} => op[r] # "delete" /\ want[r].default
  /\ pc[r] = "unset" => aim[r] \in todo[r]

\* Rows in sight of r are stored or gone for good, and never change hands.
Mine(r, a) == Known(a) /\ (rows[a] # None => rows[a].user = user[r])

Found(r) ==
  /\ \A a \in todo[r] : Mine(r, a)
  /\ /\ op[r] \in {"replace", "delete"}
     /\ pc[r] \in {"begin_unset", "unset", "write", "commit"}
     => /\ target[r] \in Addresses /\ Mine(r, target[r])
        /\ loaded[r] # None

\* The bulk UPDATE of r has written a, and nothing else has.
Unset(r, a) ==
  /\ want[r] # None /\ want[r].default
  /\ rows[a].type = want[r].type
  /\ draft[r][a] = [rows[a] EXCEPT !.default = FALSE]

Drafted(r) ==
  /\ \A a \in locks[r] : rows[a] # None /\ rows[a].user = user[r]
  /\ \A a \in Addresses :
       draft[r][a] # None =>
         /\ a \in locks[r] \/ (a = r /\ op[r] = "create" /\ pc[r] = "commit")
         /\ draft[r][a] # Gone => draft[r][a].user = user[r]
         /\ a # target[r] \/ pc[r] \in {"unset", "write"} => Unset(r, a)
  /\ pc[r] \notin {"unset", "write", "commit"} =>
       draft[r] = Unwritten /\ locks[r] = {} /\ todo[r] = {}

Exclusive == \A r, q \in Requests : locks[r] \cap locks[q] # {} => r = q

PerRequest(r) == Asked(r) /\ Found(r) /\ Drafted(r)

BInv ==
  /\ TypeOK
  /\ \A a \in Addresses : rows[a] # None => Known(a)
  /\ \A r \in Requests : PerRequest(r)
  /\ Exclusive

\* As long as requests take turns, the image of r is what it would read, and
\* the defaults it has to unset are still listed or already unset.
UpToDate(r) ==
  op[r] = "replace" =>
    /\ pc[r] \in {"begin_unset", "unset"} => loaded[r] = rows[target[r]]
    /\ pc[r] = "write" => loaded[r] = Current(r, target[r])

Rivals(r) == Defaults(rows, user[r], want[r].type)

Cleared(r) ==
  /\ pc[r] = "unset" => \A a \in Rivals(r) : a \in todo[r] \/ draft[r][a] # None
  /\ pc[r] = "write" /\ op[r] # "delete" /\ want[r].default =>
       \A a \in Rivals(r) : draft[r][a] # None
  /\ pc[r] = "commit" => OneDefaultIn(Merged(r))
  /\ pc[r] = "commit" /\ op[r] # "delete" => Merged(r)[target[r]] = RowFor(r)

OneAtATime == \A r, q \in Requests : pc[r] \in Underway /\ pc[q] \in Underway => r = q

SInv ==
  /\ OneAtATime
  /\ OneDefault
  /\ \A r \in Requests : UpToDate(r) /\ Cleared(r)

InTurn == alone => SInv
-----------------------------------------------------------------------------
(* A step of r leaves what concerns the others alone.                      *)

Same(q) ==
  /\ pc'[q] = pc[q] /\ op'[q] = op[q] /\ user'[q] = user[q]
  /\ target'[q] = target[q] /\ want'[q] = want[q] /\ loaded'[q] = loaded[q]
  /\ todo'[q] = todo[q] /\ aim'[q] = aim[q]
  /\ draft'[q] = draft[q] /\ locks'[q] = locks[q]

LEMMA Sentinels ==
  /\ None # Gone
  /\ None \notin Row /\ None \notin Addresses /\ None \notin Payload
  /\ Gone \notin Row
BY SentinelAssumption

LEMMA RowForIsRow ==
  ASSUME NEW r \in Requests, user[r] \in Users, want[r] \in Payload
  PROVE  RowFor(r) \in Row
BY DEF RowFor, Row, Payload

\* Steps that write no committed row: it is enough to look at r.
LEMMA Quiet ==
  ASSUME BInv, TypeOK', NEW r \in Requests, rows' = rows,
         \A q \in Requests \ {r} : Same(q),
         \A a \in Addresses : Known(a) => Known(a)',
         PerRequest(r)',
         \A q \in Requests \ {r} : locks'[r] \cap locks[q] = {}
  PROVE  BInv'
<1>1. ASSUME NEW q \in Requests \ {r} PROVE PerRequest(q)'
  <2>1. PerRequest(q) /\ Same(q) /\ todo[q] \subseteq Addresses
    BY DEF BInv, TypeOK
  <2>2. Asked(q)'
    BY <2>1 DEF PerRequest, Asked, Same
  <2>3. Found(q)'
    BY <2>1 DEF PerRequest, Found, Mine, Same
  <2>4. Drafted(q)'
    BY <2>1 DEF PerRequest, Drafted, Unset, Same
  <2> QED
    BY <2>2, <2>3, <2>4 DEF PerRequest
<1>2. Exclusive'
  BY DEF BInv, Exclusive, Same
<1> QED
  BY <1>1, <1>2 DEF BInv

LEMMA InitBInv == Init => BInv
<1> SUFFICES ASSUME Init PROVE BInv
  OBVIOUS
<1> USE Sentinels DEF Init, Each, Unwritten
<1>1. TypeOK
  BY DEF TypeOK, Stages, Addresses
<1>2. \A r \in Requests : PerRequest(r)
  BY DEF PerRequest, Asked, Found, Drafted, Unset
<1> QED
  BY <1>1, <1>2 DEF BInv, Known, Exclusive

LEMMA ArriveBInv ==
  ASSUME BInv, NEW r \in Requests, NEW o \in {"create", "replace", "delete"},
         NEW u \in Users, NEW a \in Addresses \cup {None},
         NEW w \in Payload \cup {None},
         NEW stage \in {"load", "begin_unset", "write"},
         Arrive(r, o, u, a, w, stage),
         o = "create" <=> stage # "load",
         o = "create" => a = r,
         o = "delete" <=> w = None,
         stage = "begin_unset" => w.default
  PROVE  BInv'
<1> USE Sentinels DEF Arrive, GoTo, transaction
<1>0. TypeOK /\ PerRequest(r) /\ pc[r] = "idle"
  BY DEF BInv
<1>1. TypeOK'
  BY <1>0 DEF TypeOK, Stages, Underway, Addresses
<1>2. \A q \in Requests \ {r} : Same(q)
  BY <1>0 DEF TypeOK, Same
<1>3. \A x \in Addresses : Known(x) => Known(x)'
  BY <1>0, <1>2 DEF Known, Same, Over
<1>4. PerRequest(r)'
  BY <1>0 DEF TypeOK, PerRequest, Asked, Found, Drafted, Unwritten
<1> QED
  BY <1>0, <1>1, <1>2, <1>3, <1>4, Quiet DEF PerRequest, Drafted

LEMMA StartsBInv ==
  ASSUME BInv, NEW r \in Requests, Starts(r)
  PROVE  BInv'
<1>1. ASSUME NEW u \in Users, NEW w \in Payload, StartCreate(r, u, w)
      PROVE  BInv'
  BY <1>1, Sentinels, ArriveBInv DEF StartCreate, StageFor, Addresses
<1>2. ASSUME NEW u \in Users, NEW a \in Addresses \cup {None}, NEW w \in Payload,
             StartReplace(r, u, a, w)
      PROVE  BInv'
  BY <1>2, Sentinels, ArriveBInv DEF StartReplace
<1>3. ASSUME NEW u \in Users, NEW a \in Addresses \cup {None}, StartDelete(r, u, a)
      PROVE  BInv'
  BY <1>3, Sentinels, ArriveBInv DEF StartDelete
<1> QED
  BY <1>1, <1>2, <1>3 DEF Starts

LEMMA RollBackBInv ==
  ASSUME BInv, NEW r \in Requests, pc[r] \in Underway \ {"answer"}, RollBack(r)
  PROVE  BInv'
<1> USE Sentinels DEF RollBack, CloseSession, GoTo, request
<1>0. TypeOK /\ PerRequest(r)
  BY DEF BInv
<1>r. rows' = rows
  OBVIOUS
<1>1. TypeOK'
  BY <1>0 DEF TypeOK, Stages, Settled, Unwritten
<1>2. \A q \in Requests \ {r} : Same(q)
  BY <1>0 DEF TypeOK, Same
<1>3. \A x \in Addresses : Known(x) => Known(x)'
  BY <1>0, <1>2 DEF Known, Same, Over, Underway
<1>4. PerRequest(r)'
  BY <1>0 DEF TypeOK, PerRequest, Asked, Found, Drafted, Unwritten, Underway
<1>5. locks'[r] = {}
  BY <1>0 DEF TypeOK
<1> HIDE DEF RollBack, CloseSession, GoTo, request
<1> QED
  BY <1>1, <1>2, <1>3, <1>4, <1>5, Quiet, <1>r

LEMMA LoadBInv ==
  ASSUME BInv, NEW r \in Requests, Load(r)
  PROVE  BInv'
<1> USE Sentinels DEF Load, GoTo, request, StageFor
<1>0. TypeOK /\ PerRequest(r)
  BY DEF BInv
<1>1. TypeOK'
  BY <1>0 DEF TypeOK, Stages, Underway, Settled, Visible
<1>2. \A q \in Requests \ {r} : Same(q)
  BY <1>0 DEF TypeOK, Same
<1>3. \A x \in Addresses : Known(x) => Known(x)'
  BY <1>0, <1>2 DEF Known, Same, Over
<1>4. PerRequest(r)'
  <2>1. Visible(r, target[r]) => target[r] \in Addresses /\ Mine(r, target[r])'
    BY <1>0, <1>3 DEF BInv, TypeOK, Visible, Mine
  <2>2. draft[r] = Unwritten /\ locks[r] = {} /\ todo[r] = {}
    BY <1>0 DEF PerRequest, Drafted
  <2>3. Asked(r)' /\ Drafted(r)'
    BY <1>0, <2>2 DEF TypeOK, PerRequest, Asked, Drafted, Unwritten
  <2>4. Found(r)'
    BY <1>0, <2>1, <2>2 DEF TypeOK, Found, Visible
  <2> QED
    BY <2>3, <2>4 DEF PerRequest
<1> QED
  BY <1>0, <1>1, <1>2, <1>3, <1>4, Quiet DEF PerRequest, Drafted

LEMMA UnsetIsRow ==
  ASSUME NEW row \in Row
  PROVE  /\ [row EXCEPT !.default = FALSE] \in Row
         /\ [row EXCEPT !.default = FALSE].user = row.user
BY DEF Row

\* The image in memory stays an image of a row.
LEMMA SynchronisedKeepsRows ==
  ASSUME TypeOK, NEW r \in Requests
  PROVE  /\ Synchronised(r) \in [Requests -> Row \cup {None}]
         /\ \A q \in Requests \ {r} : Synchronised(r)[q] = loaded[q]
         /\ loaded[r] # None => Synchronised(r)[r] # None
<1>1. loaded[r] # None => [loaded[r] EXCEPT !.default = FALSE] \in Row
  BY UnsetIsRow DEF TypeOK
<1> QED
  BY <1>1, Sentinels DEF TypeOK, Synchronised

\* What VisitNext does to the types and to the others.
LEMMA VisitNextFrame ==
  ASSUME TypeOK, NEW r \in Requests, NEW left \in SUBSET Addresses,
         VisitNext(r, left)
  PROVE  /\ todo' \in [Requests -> SUBSET Addresses] /\ todo'[r] = left
         /\ aim' \in [Requests -> Addresses \cup {None}]
         /\ loaded' \in [Requests -> Row \cup {None}]
         /\ pc' \in [Requests -> Stages]
         /\ loaded[r] # None => loaded'[r] # None
         /\ pc'[r] = IF left = {} THEN "write" ELSE "unset"
         /\ left # {} => aim'[r] \in left
         /\ \A q \in Requests \ {r} :
              /\ todo'[q] = todo[q] /\ aim'[q] = aim[q]
              /\ loaded'[q] = loaded[q] /\ pc'[q] = pc[q]
<1> USE DEF TypeOK, GoTo, Stages, Underway
<1>1. /\ todo' = [todo EXCEPT ![r] = left]
      /\ IF left = {}
           THEN /\ aim' = [aim EXCEPT ![r] = None]
                /\ loaded' = Synchronised(r) /\ pc' = [pc EXCEPT ![r] = "write"]
           ELSE /\ \E a \in left : aim' = [aim EXCEPT ![r] = a]
                /\ pc' = [pc EXCEPT ![r] = "unset"] /\ loaded' = loaded
  BY DEF VisitNext
<1>2. /\ loaded' \in [Requests -> Row \cup {None}]
      /\ loaded[r] # None => loaded'[r] # None
      /\ \A q \in Requests \ {r} : loaded'[q] = loaded[q]
  BY <1>1, SynchronisedKeepsRows
<1>3. CASE left = {}
  BY <1>1, <1>2, <1>3
<1>4. CASE left # {}
  BY <1>1, <1>2, <1>4
<1> QED
  BY <1>3, <1>4

LEMMA BeginUnsetBInv ==
  ASSUME BInv, NEW r \in Requests, BeginUnset(r)
  PROVE  BInv'
<1> USE Sentinels DEF request
<1> DEFINE left == {a \in Addresses : Unsets(r, a)}
<1>0. TypeOK /\ PerRequest(r) /\ left \subseteq Addresses
  BY DEF BInv
<1>a. /\ pc[r] = "begin_unset" /\ VisitNext(r, left)
      /\ UNCHANGED <<rows, request, draft, locks>>
  BY DEF BeginUnset
<1>b. \A a \in left : Known(a) /\ rows[a] # None /\ rows[a].user = user[r]
  BY DEF BInv, Unsets
<1> HIDE DEF left
<1>1. TypeOK'
  BY <1>0, <1>a, VisitNextFrame DEF TypeOK
<1>2. \A q \in Requests \ {r} : Same(q)
  BY <1>0, <1>a, VisitNextFrame DEF Same
<1>3. \A x \in Addresses : Known(x) => Known(x)'
  BY <1>a, <1>2 DEF Known, Same, Over
<1>4. PerRequest(r)'
  <2>1. draft[r] = Unwritten /\ locks[r] = {}
    BY <1>0, <1>a DEF PerRequest, Drafted
  <2>2. /\ pc'[r] = IF left = {} THEN "write" ELSE "unset"
        /\ left # {} => aim'[r] \in left
        /\ todo'[r] = left
        /\ loaded[r] # None => loaded'[r] # None
    BY <1>0, <1>a, VisitNextFrame
  <2>3. Asked(r)'
    BY <1>0, <1>a, <2>2 DEF PerRequest, Asked
  <2>4. Drafted(r)'
    BY <1>a, <2>1, <2>2 DEF Drafted, Unwritten
  <2>5. Found(r)'
    BY <1>0, <1>a, <1>b, <1>3, <2>2 DEF PerRequest, Found, Mine
  <2> QED
    BY <2>3, <2>4, <2>5 DEF PerRequest
<1>5. locks'[r] = {}
  BY <1>0, <1>a DEF PerRequest, Drafted
<1> QED
  BY <1>a, <1>1, <1>2, <1>3, <1>4, <1>5, Quiet

LEMMA UnsetRowBInv ==
  ASSUME BInv, NEW r \in Requests, UnsetRow(r)
  PROVE  BInv'
<1> USE Sentinels DEF request
<1> DEFINE a == aim[r]
           left == todo[r] \ {a}
<1>0. TypeOK /\ PerRequest(r)
  BY DEF BInv
<1>a. /\ pc[r] = "unset" /\ LockedFor(r, a)
      /\ locks' = IF rows[a] = None THEN locks
                  ELSE [locks EXCEPT ![r] = @ \cup {a}]
      /\ draft' = IF Unsets(r, a)
                    THEN [draft EXCEPT ![r][a] = [rows[a] EXCEPT !.default = FALSE]]
                    ELSE draft
      /\ VisitNext(r, left)
      /\ UNCHANGED <<rows, request>>
  BY DEF UnsetRow
<1>b. a \in todo[r] /\ a \in Addresses /\ left \subseteq Addresses
  BY <1>0, <1>a DEF PerRequest, Asked, TypeOK
<1>c. /\ pc'[r] = IF left = {} THEN "write" ELSE "unset"
      /\ left # {} => aim'[r] \in left
      /\ todo'[r] = left
      /\ loaded[r] # None => loaded'[r] # None
  BY <1>0, <1>a, <1>b, VisitNextFrame
<1>d. rows[a] # None => rows[a] \in Row /\ [rows[a] EXCEPT !.default = FALSE] \in Row
  BY <1>0, <1>b, UnsetIsRow DEF TypeOK
<1> HIDE DEF a, left
<1>1. TypeOK'
  <2>1. locks' \in [Requests -> SUBSET Addresses]
    BY <1>0, <1>a, <1>b DEF TypeOK
  <2>2. draft' \in [Requests -> [Addresses -> Row \cup {None, Gone}]]
    BY <1>0, <1>a, <1>b, <1>d DEF TypeOK, Unsets
  <2> QED
    BY <1>0, <1>a, <1>b, <2>1, <2>2, VisitNextFrame DEF TypeOK
<1>2. \A q \in Requests \ {r} : Same(q)
  <2>1. \A q \in Requests \ {r} : draft'[q] = draft[q] /\ locks'[q] = locks[q]
    BY <1>0, <1>a DEF TypeOK
  <2> QED
    BY <1>0, <1>a, <1>b, <2>1, VisitNextFrame DEF Same
<1>3. \A x \in Addresses : Known(x) => Known(x)'
  BY <1>a, <1>2 DEF Known, Same, Over
<1>4. Asked(r)'
  BY <1>0, <1>a, <1>c DEF PerRequest, Asked
<1>5. Found(r)'
  BY <1>0, <1>a, <1>b, <1>c, <1>3 DEF left, TypeOK, PerRequest, Found, Mine
<1>6. Drafted(r)'
  <2>1. locks'[r] = locks[r] \cup (IF rows[a] = None THEN {} ELSE {a})
    BY <1>0, <1>a DEF TypeOK
  <2>2. \A x \in Addresses : draft'[r][x] =
          IF x = a /\ Unsets(r, a) THEN [rows[a] EXCEPT !.default = FALSE]
          ELSE draft[r][x]
    BY <1>0, <1>a, <1>b DEF TypeOK
  <2>3. \A x \in locks'[r] : rows[x] # None /\ rows[x].user = user[r]
    BY <1>0, <1>b, <2>1 DEF PerRequest, Drafted, Found, Mine
  <2>4. want[r] # None /\ want[r].default /\ op[r] # "delete"
    BY <1>0, <1>a DEF PerRequest, Asked, TypeOK
  <2>5. Unsets(r, a) => /\ a \in locks'[r] /\ rows[a].type = want[r].type
                        /\ [rows[a] EXCEPT !.default = FALSE] \in Row
                        /\ [rows[a] EXCEPT !.default = FALSE].user = user[r]
    BY <1>b, <1>d, <2>1 DEF Unsets, Row
  <2>6. ASSUME NEW x \in Addresses, draft'[r][x] # None
        PROVE  /\ x \in locks'[r]
               /\ draft'[r][x] # Gone /\ draft'[r][x].user = user[r]
               /\ Unset(r, x)'
    <3>1. CASE x = a /\ Unsets(r, a)
      BY <1>a, <2>2, <2>4, <2>5, <3>1 DEF Unset
    <3>2. CASE ~(x = a /\ Unsets(r, a))
      <4>1. /\ draft[r][x] # None /\ draft'[r][x] = draft[r][x]
            /\ x \in locks[r] /\ Unset(r, x)
        BY <1>0, <1>a, <2>2, <2>6, <3>2 DEF PerRequest, Drafted
      <4>2. rows[x] \in Row /\ rows[x].user = user[r]
        BY <1>0, <4>1 DEF PerRequest, Drafted, TypeOK
      <4> QED
        BY <1>a, <2>1, <4>1, <4>2 DEF Unset, Row
    <3> QED
      BY <3>1, <3>2
  <2> QED
    BY <1>a, <1>c, <2>3, <2>6 DEF Drafted
<1>7. \A q \in Requests \ {r} : locks'[r] \cap locks[q] = {}
  BY <1>0, <1>a DEF BInv, Exclusive, TypeOK, LockedFor
<1> QED
  BY <1>a, <1>1, <1>2, <1>3, <1>4, <1>5, <1>6, <1>7, Quiet DEF PerRequest

\* What Insert, Replace and Delete have in common: r writes one row and is
\* ready to commit.
LEMMA WriteBInv ==
  ASSUME BInv, NEW r \in Requests, pc[r] = "write", TypeOK',
         UNCHANGED <<rows, request, loaded, todo>>,
         pc' = [pc EXCEPT ![r] = "commit"],
         \A q \in Requests \ {r} : Same(q),
         \A a \in Addresses : draft'[r][a] # draft[r][a] =>
           /\ a = target[r] /\ draft'[r][a] \in Row \cup {Gone}
           /\ draft'[r][a] # Gone => draft'[r][a].user = user[r]
           /\ a \in locks'[r] \/ op[r] = "create",
         locks'[r] = locks[r]
           \/ /\ locks'[r] = locks[r] \cup {target[r]} /\ LockedFor(r, target[r])
              /\ op[r] # "create" /\ rows[target[r]] # None
  PROVE  BInv'
<1> USE Sentinels DEF request
<1>0. TypeOK /\ PerRequest(r)
  BY DEF BInv
<1>a. pc'[r] = "commit" /\ locks[r] \subseteq locks'[r]
  BY <1>0 DEF TypeOK
<1>b. op[r] = "create" => target[r] = r
  BY <1>0 DEF PerRequest, Asked
<1>1. \A x \in Addresses : Known(x) => Known(x)'
  BY <1>a DEF Known, Same, Over
<1>2. Asked(r)'
  BY <1>0, <1>a DEF PerRequest, Asked
<1>3. Found(r)'
  BY <1>0, <1>a, <1>1 DEF TypeOK, PerRequest, Found, Mine
<1>4. Drafted(r)'
  <2>1. \A x \in locks'[r] : rows[x] # None /\ rows[x].user = user[r]
    <3>1. op[r] \in {"replace", "delete"} => Mine(r, target[r])
      BY <1>0 DEF PerRequest, Found
    <3>2. op[r] \in {"create", "replace", "delete"}
      BY <1>0 DEF PerRequest, Asked, TypeOK
    <3> QED
      BY <1>0, <3>1, <3>2 DEF PerRequest, Drafted, Mine
  <2>2. ASSUME NEW x \in Addresses, draft'[r][x] # None
        PROVE  /\ x \in locks'[r] \/ (x = r /\ op[r] = "create")
               /\ draft'[r][x] # Gone => draft'[r][x].user = user[r]
               /\ x # target[r] => Unset(r, x)'
    <3>1. CASE draft'[r][x] = draft[r][x]
      BY <1>0, <1>a, <2>2, <3>1 DEF PerRequest, Drafted, Unset
    <3>2. CASE draft'[r][x] # draft[r][x]
      BY <1>b, <3>2
    <3> QED
      BY <3>1, <3>2
  <2> QED
    BY <1>a, <2>1, <2>2 DEF Drafted
<1>5. \A q \in Requests \ {r} : locks'[r] \cap locks[q] = {}
  BY DEF BInv, Exclusive, LockedFor
<1> QED
  BY <1>1, <1>2, <1>3, <1>4, <1>5, Quiet DEF PerRequest

LEMMA InsertBInv ==
  ASSUME BInv, NEW r \in Requests, Insert(r)
  PROVE  BInv'
<1> USE Sentinels DEF Insert, GoTo, request
<1>0. TypeOK /\ PerRequest(r)
  BY DEF BInv
<1>1. RowFor(r) \in Row /\ RowFor(r).user = user[r] /\ target[r] = r
  BY <1>0, RowForIsRow DEF PerRequest, Asked, RowFor
<1>2. TypeOK'
  BY <1>0, <1>1 DEF TypeOK, Stages, Underway
<1>3. \A q \in Requests \ {r} : Same(q)
  BY <1>0 DEF TypeOK, Same
<1>4. \A a \in Addresses :
        draft'[r][a] = IF a = r THEN RowFor(r) ELSE draft[r][a]
  BY <1>0 DEF TypeOK
<1> QED
  BY <1>1, <1>2, <1>3, <1>4, WriteBInv

\* A row r can read or has written is a row, of its user.
LEMMA CurrentIsRow ==
  ASSUME BInv, NEW r \in Requests, pc[r] = "write", op[r] = "replace",
         Current(r, target[r]) # None
  PROVE  /\ Current(r, target[r]) \in Row
         /\ Current(r, target[r]).user = user[r]
         /\ rows[target[r]] # None
<1> USE Sentinels
<1> DEFINE a == target[r]
<1>0. TypeOK /\ PerRequest(r) /\ a \in Addresses /\ Mine(r, a)
  BY DEF BInv, PerRequest, Found
<1>1. CASE draft[r][a] = None
  BY <1>0, <1>1 DEF Current, Mine, TypeOK
<1>2. CASE draft[r][a] # None
  <2>1. a \in locks[r] /\ Unset(r, a)
    BY <1>0, <1>2 DEF PerRequest, Drafted
  <2>2. rows[a] \in Row /\ rows[a].user = user[r]
    BY <1>0, <2>1 DEF PerRequest, Drafted, TypeOK
  <2> QED
    BY <1>2, <2>1, <2>2, UnsetIsRow DEF Current, Unset
<1> QED
  BY <1>1, <1>2

LEMMA FlushedIsRow ==
  ASSUME NEW r \in Requests, want[r] \in Payload, NEW row \in Row
  PROVE  Flushed(r, row) \in Row /\ Flushed(r, row).user = row.user
BY DEF Flushed, Row, Payload

LEMMA ReplaceBInv ==
  ASSUME BInv, NEW r \in Requests, Replace(r)
  PROVE  BInv'
<1> USE Sentinels DEF GoTo, request
<1> DEFINE a == target[r]
           row == Flushed(r, Current(r, a))
<1>0. TypeOK /\ PerRequest(r) /\ pc[r] = "write" /\ op[r] = "replace"
  BY DEF BInv, Replace
<1>1. CASE Current(r, a) = None
  BY <1>0, <1>1, RollBackBInv DEF Replace, Underway
<1>2. CASE Current(r, a) # None
  <2>1. row \in Row /\ row.user = user[r] /\ a \in Addresses /\ rows[a] # None
    BY <1>0, <1>2, CurrentIsRow, FlushedIsRow DEF PerRequest, Asked, Found
  <2>2. /\ draft' = IF Dirty(r) THEN [draft EXCEPT ![r][a] = row] ELSE draft
        /\ locks' = IF Dirty(r) THEN [locks EXCEPT ![r] = @ \cup {a}] ELSE locks
        /\ Dirty(r) => LockedFor(r, a)
        /\ pc' = [pc EXCEPT ![r] = "commit"]
        /\ UNCHANGED <<rows, request, loaded, todo, aim>>
    BY <1>2 DEF Replace
  <2> HIDE DEF a, row
  <2>3. TypeOK'
    <3>1. draft' \in [Requests -> [Addresses -> Row \cup {None, Gone}]]
      BY <1>0, <2>1, <2>2 DEF TypeOK
    <3>2. locks' \in [Requests -> SUBSET Addresses]
      BY <1>0, <2>1, <2>2 DEF TypeOK
    <3> QED
      BY <1>0, <2>2, <3>1, <3>2 DEF TypeOK, Stages, Underway
  <2>4. \A q \in Requests \ {r} : Same(q)
    BY <1>0, <2>2 DEF TypeOK, Same
  <2>5. \A x \in Addresses :
          draft'[r][x] = IF x = a /\ Dirty(r) THEN row ELSE draft[r][x]
    BY <1>0, <2>2 DEF TypeOK
  <2>6. locks'[r] = IF Dirty(r) THEN locks[r] \cup {a} ELSE locks[r]
    BY <1>0, <2>2 DEF TypeOK
  <2>7. LockedFor(r, a) \/ locks'[r] = locks[r]
    BY <2>2, <2>6
  <2>8. \A x \in Addresses : draft'[r][x] # draft[r][x] =>
          x = a /\ draft'[r][x] = row /\ a \in locks'[r]
    BY <2>5, <2>6
  <2>9. /\ UNCHANGED <<rows, request, loaded, todo>>
        /\ pc' = [pc EXCEPT ![r] = "commit"]
    BY <2>2
  <2> QED
    BY <1>0, <2>1, <2>3, <2>4, <2>6, <2>7, <2>8, <2>9, WriteBInv DEF a
<1> QED
  BY <1>1, <1>2

LEMMA DeleteBInv ==
  ASSUME BInv, NEW r \in Requests, Delete(r)
  PROVE  BInv'
<1> USE Sentinels DEF GoTo, request
<1> DEFINE a == target[r]
<1>0. /\ TypeOK /\ PerRequest(r) /\ pc[r] = "write" /\ op[r] = "delete"
      /\ LockedFor(r, a)
  BY DEF BInv, Delete
<1>1. a \in Addresses
  BY <1>0 DEF PerRequest, Found
<1>2. /\ draft' = IF rows[a] = None THEN draft
                  ELSE [draft EXCEPT ![r][a] = Gone]
      /\ locks' = IF rows[a] = None THEN locks
                  ELSE [locks EXCEPT ![r] = @ \cup {a}]
      /\ pc' = [pc EXCEPT ![r] = "commit"]
      /\ UNCHANGED <<rows, request, loaded, todo, aim>>
  BY DEF Delete
<1> HIDE DEF a
<1>3. TypeOK'
  <2>1. draft' \in [Requests -> [Addresses -> Row \cup {None, Gone}]]
    BY <1>0, <1>1, <1>2 DEF TypeOK
  <2>2. locks' \in [Requests -> SUBSET Addresses]
    BY <1>0, <1>1, <1>2 DEF TypeOK
  <2> QED
    BY <1>0, <1>2, <2>1, <2>2 DEF TypeOK, Stages, Underway
<1>4. \A q \in Requests \ {r} : Same(q)
  BY <1>0, <1>2 DEF TypeOK, Same
<1>5. \A x \in Addresses :
        draft'[r][x] = IF x = a /\ rows[a] # None THEN Gone ELSE draft[r][x]
  BY <1>0, <1>2 DEF TypeOK
<1>6. locks'[r] = IF rows[a] # None THEN locks[r] \cup {a} ELSE locks[r]
  BY <1>0, <1>2 DEF TypeOK
<1>7. /\ UNCHANGED <<rows, request, loaded, todo>>
      /\ pc' = [pc EXCEPT ![r] = "commit"]
  BY <1>2
<1>8. \A x \in Addresses : draft'[r][x] # draft[r][x] =>
        x = a /\ draft'[r][x] = Gone /\ a \in locks'[r]
  BY <1>5, <1>6
<1> QED
  BY <1>0, <1>3, <1>4, <1>6, <1>7, <1>8, WriteBInv DEF a

LEMMA AnswerBInv ==
  ASSUME BInv, NEW r \in Requests, Answer(r)
  PROVE  BInv'
<1> USE Sentinels DEF Answer, GoTo, request, transaction
<1>0. TypeOK /\ PerRequest(r)
  BY DEF BInv
<1>1. TypeOK'
  BY <1>0 DEF TypeOK, Stages, Settled
<1>2. \A q \in Requests \ {r} : Same(q)
  BY <1>0 DEF TypeOK, Same
<1>3. \A x \in Addresses : Known(x) => Known(x)'
  BY <1>0, <1>2 DEF TypeOK, Known, Same, Over
<1>4. PerRequest(r)'
  BY <1>0 DEF TypeOK, PerRequest, Asked, Found, Drafted, Unwritten
<1> QED
  BY <1>0, <1>1, <1>2, <1>3, <1>4, Quiet DEF PerRequest, Drafted

-----------------------------------------------------------------------------
(* The only step that changes the table.                                   *)

\* A row changes at a commit only where r holds it, or creates it.
CommitsRow(r, a) ==
  \/ rows'[a] = rows[a]
  \/ /\ a \in locks[r] /\ rows[a] # None /\ rows[a].user = user[r]
     /\ \/ rows'[a] = None
        \/ rows'[a] \in Row /\ rows'[a].user = user[r]
     /\ a # target[r] => Unset(r, a) /\ rows'[a] = draft[r][a]
  \/ /\ a = r /\ op[r] = "create" /\ target[r] = r /\ rows[a] = None
     /\ rows'[a] \in Row

LEMMA CommitRows ==
  ASSUME BInv, NEW r \in Requests, Commit(r), NEW a \in Addresses
  PROVE  CommitsRow(r, a)
<1> USE Sentinels
<1>0. TypeOK /\ PerRequest(r) /\ pc[r] = "commit" /\ rows' = Merged(r)
  BY DEF BInv, Commit
<1>1. rows'[a] = IF draft[r][a] = None THEN rows[a]
                 ELSE IF draft[r][a] = Gone THEN None ELSE draft[r][a]
  BY <1>0 DEF Merged
<1>2. CASE draft[r][a] = None
  BY <1>1, <1>2 DEF CommitsRow
<1>3. CASE draft[r][a] # None /\ a \in locks[r]
  <2>1. /\ rows[a] # None /\ rows[a].user = user[r]
        /\ draft[r][a] # Gone => draft[r][a] \in Row /\ draft[r][a].user = user[r]
        /\ a # target[r] => Unset(r, a)
    BY <1>0, <1>3 DEF PerRequest, Drafted, TypeOK
  <2>2. a # target[r] => draft[r][a] # Gone
    BY <1>0, <2>1, UnsetIsRow DEF TypeOK, Unset
  <2> QED
    BY <1>1, <1>3, <2>1, <2>2 DEF CommitsRow
<1>4. CASE draft[r][a] # None /\ a \notin locks[r]
  <2>1. a = r /\ op[r] = "create" /\ target[r] = r
    BY <1>0, <1>4 DEF PerRequest, Drafted, Asked
  <2>2. r \notin Existing
    BY DistinctAssumption
  <2>3. rows[a] = None
    BY <1>0, <2>1, <2>2 DEF BInv, Known, Over
  <2>4. rows'[a] \in Row \cup {None}
    BY <1>0, <1>1, <1>4 DEF TypeOK
  <2> QED
    BY <2>1, <2>3, <2>4 DEF CommitsRow
<1> QED
  BY <1>2, <1>3, <1>4

LEMMA CommitBInv ==
  ASSUME BInv, NEW r \in Requests, Commit(r)
  PROVE  BInv'
<1> USE Sentinels DEF request
<1>0. TypeOK /\ PerRequest(r) /\ pc[r] = "commit"
  BY DEF BInv, Commit
<1>a. /\ CloseSession(r) /\ pc' = [pc EXCEPT ![r] = "answer"]
      /\ UNCHANGED request /\ rows' = Merged(r)
      /\ \A a \in Addresses : CommitsRow(r, a)
  BY CommitRows DEF Commit, GoTo
<1>1. TypeOK'
  <2>1. rows' \in [Addresses -> Row \cup {None}]
    BY <1>0, <1>a DEF TypeOK, Merged
  <2> QED
    BY <1>0, <1>a, <2>1 DEF TypeOK, CloseSession, Stages, Underway, Unwritten
<1>2. \A q \in Requests \ {r} : Same(q)
  BY <1>0, <1>a DEF TypeOK, CloseSession, Same
<1>3. \A x \in Addresses : Known(x) => Known(x)'
  BY <1>0, <1>a, <1>2 DEF TypeOK, Known, Same, Over
<1>4. ASSUME NEW a \in Addresses, rows'[a] # None PROVE Known(a)'
  <2>1. CASE rows[a] # None
    BY <1>3, <2>1 DEF BInv
  <2>2. CASE rows[a] = None
    BY <1>0, <1>a, <1>4, <2>2 DEF CommitsRow, Known, Over, TypeOK
  <2> QED
    BY <2>1, <2>2
<1>5. PerRequest(r)'
  BY <1>0, <1>a DEF TypeOK, CloseSession, PerRequest, Asked, Found, Drafted,
     Unwritten
<1>6. ASSUME NEW q \in Requests \ {r} PROVE PerRequest(q)'
  <2>1. PerRequest(q) /\ Same(q) /\ todo[q] \subseteq Addresses
        /\ locks[q] \subseteq Addresses
    BY <1>2 DEF BInv, TypeOK
  <2>2. ASSUME NEW a \in locks[q] PROVE rows'[a] = rows[a]
    <3>1. a \in Addresses /\ a \notin locks[r] /\ rows[a] # None
      BY <2>1 DEF BInv, Exclusive, PerRequest, Drafted
    <3> QED
      BY <1>a, <3>1 DEF CommitsRow
  <2>3. ASSUME NEW a \in Addresses, Mine(q, a) PROVE Mine(q, a)'
    <3>1. a = r => ~(op[r] = "create" /\ pc[r] = "commit") \/ a \in Existing
      BY <2>3 DEF Mine, Known, Over
    <3>2. r \notin Existing
      BY DistinctAssumption
    <3>3. rows'[a] # None => rows[a] # None /\ rows'[a].user = rows[a].user
      BY <1>0, <1>a, <3>1, <3>2 DEF CommitsRow
    <3> QED
      BY <1>3, <2>1, <2>3, <3>3 DEF Mine, Same
  <2>4. Asked(q)' /\ Found(q)'
    BY <2>1, <2>3 DEF PerRequest, Asked, Found, Same
  <2>5. Drafted(q)'
    <3>1. ASSUME NEW a \in Addresses, draft[q][a] # None,
                 a # target[q] \/ pc[q] \in {"unset", "write"}
          PROVE  Unset(q, a)'
      <4>1. Unset(q, a)
        BY <2>1, <3>1 DEF PerRequest, Drafted
      <4>2. CASE a \in locks[q]
        BY <2>1, <2>2, <4>1, <4>2 DEF Unset, Same
      <4>3. CASE a \notin locks[q]
        BY <2>1, <3>1, <4>3 DEF PerRequest, Drafted, Asked
      <4> QED
        BY <4>2, <4>3
    <3> QED
      BY <2>1, <2>2, <3>1 DEF PerRequest, Drafted, Same
  <2> QED
    BY <2>4, <2>5 DEF PerRequest
<1>7. Exclusive'
  BY <1>0, <1>2, <1>a DEF BInv, Exclusive, Same, CloseSession, TypeOK
<1> QED
  BY <1>1, <1>4, <1>5, <1>6, <1>7 DEF BInv

LEMMA VictimIsUnderway ==
  ASSUME NEW r \in Requests, Deadlocked(r)
  PROVE  pc[r] \in Underway \ {"answer"}
<1>1. PICK circle \in SUBSET Requests :
        r \in circle /\ \A p \in circle : \E q \in circle : Blocks(q, p)
  BY DEF Deadlocked
<1> QED
  BY <1>1 DEF Blocks, Awaited, Underway

LEMMA NextBInv == BInv /\ [Next]_vars => BInv'
<1> SUFFICES ASSUME BInv, [Next]_vars PROVE BInv'
  OBVIOUS
<1>1. ASSUME NEW r \in Requests, Advance(r) PROVE BInv'
  <2>1. CASE DeadlockVictim(r)
    BY <2>1, VictimIsUnderway, RollBackBInv DEF DeadlockVictim
  <2> QED
    BY <1>1, <2>1, LoadBInv, BeginUnsetBInv, UnsetRowBInv, InsertBInv,
       ReplaceBInv, DeleteBInv, CommitBInv, AnswerBInv DEF Advance
<1>2. ASSUME NEW r \in Requests, Abort(r) PROVE BInv'
  BY <1>2, RollBackBInv DEF Abort
<1>3. CASE AllSettled \/ UNCHANGED vars
  <2>1. UNCHANGED vars
    BY <1>3 DEF AllSettled
  <2> QED
    BY <2>1 DEF vars, request, transaction, BInv, TypeOK, Known, PerRequest,
       Asked, Found, Mine, Drafted, Unset, Exclusive
<1> QED
  BY <1>1, <1>2, <1>3, StartsBInv DEF Next

\* BInv is inductive.
THEOREM Invariance == Spec => []BInv
BY InitBInv, NextBInv, PTL DEF Spec

-----------------------------------------------------------------------------
(* The theorems.                                                           *)

\* Every column and every local of a request keeps its type.
THEOREM TypeCorrectness == Spec => []TypeOK
<1>1. BInv => TypeOK
  BY DEF BInv
<1> QED
  BY <1>1, Invariance, PTL

\* No step but a commit changes the table.
LEMMA OnlyCommitsWrite ==
  ASSUME BInv, [Next]_vars, rows' # rows
  PROVE  \E r \in Requests : Commit(r)
<1>1. ASSUME NEW r \in Requests, Starts(r) PROVE rows' = rows
  BY <1>1 DEF Starts, StartCreate, StartReplace, StartDelete, Arrive
<1>2. ASSUME NEW r \in Requests, Advance(r), ~Commit(r) PROVE rows' = rows
  BY <1>2 DEF Advance, Load, BeginUnset, UnsetRow, Insert, Replace, Delete,
     Answer, DeadlockVictim, RollBack
<1> QED
  BY <1>1, <1>2 DEF Next, Abort, RollBack, AllSettled, vars

\* What a commit of r does, seen from outside.
LEMMA CommitStep ==
  ASSUME BInv, NEW r \in Requests, Commit(r)
  PROVE  /\ pc[r] = "commit" /\ pc'[r] = "answer" /\ UNCHANGED request
         /\ \A q \in Requests \ {r} : pc'[q] = pc[q]
         /\ \A a \in Addresses : CommitsRow(r, a)
BY CommitRows DEF BInv, TypeOK, Commit, GoTo

\* Only a request of the owner changes or deletes an address, although the
\* owner is looked at once, when the address is loaded.
THEOREM Ownership == Spec => OnlyOwnerWrites
<1> DEFINE A ==
  \A a \in Addresses : rows[a] # None /\ rows'[a] # rows[a] =>
     /\ \E r \in Requests : /\ pc[r] = "commit" /\ pc'[r] = "answer"
                            /\ user[r] = rows[a].user
     /\ rows'[a] # None => rows'[a].user = rows[a].user
<1>1. ASSUME BInv, [Next]_vars PROVE A
  <2>1. ASSUME NEW r \in Requests, Commit(r) PROVE A
    BY <1>1, <2>1, CommitStep DEF CommitsRow
  <2>2. CASE rows' = rows
    BY <2>2
  <2> QED
    BY <1>1, <2>1, <2>2, OnlyCommitsWrite
<1> QED
  BY <1>1, Invariance, PTL DEF Spec, OnlyOwnerWrites

\* A deleted address never comes back.
THEOREM NoResurrection == Spec => OnlyCreateAdds
<1> DEFINE A ==
  \A a \in Addresses : rows[a] = None /\ rows'[a] # None =>
     a \in Requests /\ op[a] = "create" /\ pc[a] = "commit"
<1>1. ASSUME BInv, [Next]_vars PROVE A
  <2>1. ASSUME NEW r \in Requests, Commit(r) PROVE A
    BY <1>1, <2>1, CommitStep DEF CommitsRow
  <2>2. CASE rows' = rows
    BY <2>2
  <2> QED
    BY <1>1, <2>1, <2>2, OnlyCommitsWrite
<1> QED
  BY <1>1, Invariance, PTL DEF Spec, OnlyCreateAdds

\* To any address but its own target a request clears is_default, and only
\* where type and user are those of its payload when it commits.
THEOREM SideEffects == Spec => OthersOnlyLoseDefault
<1> DEFINE A ==
  \A r \in Requests, a \in Addresses :
    /\ pc[r] = "commit" /\ pc'[r] = "answer"
    /\ a # target[r] /\ rows'[a] # rows[a]
    => /\ want[r] # None /\ want[r].default
       /\ rows[a] # None
       /\ rows[a].user = user[r] /\ rows[a].type = want[r].type
       /\ rows'[a] = [rows[a] EXCEPT !.default = FALSE]
<1>1. ASSUME BInv, [Next]_vars PROVE A
  <2>1. ASSUME NEW q \in Requests, Commit(q) PROVE A
    <3>1. ASSUME NEW r \in Requests, pc[r] = "commit", pc'[r] = "answer"
          PROVE  r = q
      BY <1>1, <2>1, <3>1, CommitStep
    <3> QED
      BY <1>1, <2>1, <3>1, CommitStep DEF CommitsRow, Unset
  <2>2. CASE rows' = rows
    BY <2>2
  <2> QED
    BY <1>1, <2>1, <2>2, OnlyCommitsWrite
<1> QED
  BY <1>1, Invariance, PTL DEF Spec, OthersOnlyLoseDefault

-----------------------------------------------------------------------------
(* As long as requests take turns.                                         *)

Turn(r) == UpToDate(r) /\ Cleared(r)

\* r has taken a step, nobody else is under way: it is enough to look at r.
LEMMA TurnStep ==
  ASSUME SInv, NEW r \in Requests,
         pc[r] \in Underway \/ \A q \in Requests : pc[q] \notin Underway,
         \A q \in Requests \ {r} : pc'[q] = pc[q],
         OneDefault', Turn(r)'
  PROVE  SInv'
<1>1. ASSUME NEW q \in Requests \ {r} PROVE pc'[q] \notin Underway
  BY <1>1 DEF SInv, OneAtATime
<1>2. OneAtATime'
  BY <1>1 DEF OneAtATime
<1>3. \A q \in Requests \ {r} : UpToDate(q)' /\ Cleared(q)'
  BY <1>1 DEF UpToDate, Cleared, Underway
<1> QED
  BY <1>2, <1>3 DEF SInv, Turn

\* Two rows that agree in every column are one row.
LEMMA SameRow ==
  ASSUME NEW x \in Row, NEW y \in Row, x.user = y.user, x.type = y.type,
         x.default = y.default, x.body = y.body
  PROVE  x = y
BY DEF Row

LEMMA ArriveTurn ==
  ASSUME BInv, SInv, NEW r \in Requests, Starts(r), alone'
  PROVE  SInv'
<1>0. TypeOK
  BY DEF BInv
<1>1. /\ pc[r] = "idle" /\ rows' = rows
      /\ \A q \in Requests : pc[q] \notin Underway
      /\ \A q \in Requests \ {r} : pc'[q] = pc[q]
  BY <1>0 DEF TypeOK, Starts, StartCreate, StartReplace, StartDelete, Arrive,
     GoTo
<1>2. \/ pc'[r] \in {"load", "begin_unset"} /\ (pc'[r] # "load" => op'[r] = "create")
      \/ pc'[r] = "write" /\ op'[r] = "create" /\ ~want'[r].default
  BY <1>0 DEF TypeOK, Starts, StartCreate, StartReplace, StartDelete, Arrive,
     GoTo, StageFor
<1>3. Turn(r)'
  BY <1>2 DEF Turn, UpToDate, Cleared
<1>4. OneDefault'
  BY <1>1 DEF SInv, OneDefault, OneDefaultIn, Defaults
<1> QED
  BY <1>1, <1>3, <1>4, TurnStep

LEMMA LoadTurn ==
  ASSUME BInv, SInv, NEW r \in Requests, Load(r)
  PROVE  SInv'
<1>0. TypeOK /\ PerRequest(r) /\ pc[r] = "load"
  BY DEF BInv, Load
<1>1. /\ rows' = rows /\ UNCHANGED <<request, draft>>
      /\ \A q \in Requests \ {r} : pc'[q] = pc[q]
      /\ draft[r] = Unwritten
  BY <1>0 DEF TypeOK, Load, GoTo, PerRequest, Drafted
<1>2. \/ pc'[r] = "rejected"
      \/ /\ pc'[r] = IF op[r] = "delete" THEN "write" ELSE StageFor(want[r])
         /\ target[r] \in Addresses /\ loaded'[r] = rows[target[r]]
  BY <1>0 DEF TypeOK, Load, GoTo, Visible
<1>3. Turn(r)'
  BY <1>1, <1>2 DEF Turn, UpToDate, Cleared, StageFor, Current, Unwritten,
     request
<1>4. OneDefault'
  BY <1>1 DEF SInv, OneDefault, OneDefaultIn, Defaults
<1> QED
  BY <1>0, <1>1, <1>3, <1>4, TurnStep DEF Underway

\* The bulk UPDATE has visited its rows: what the session has in memory is
\* what it would read.
LEMMA SynchronisedIsCurrent ==
  ASSUME BInv, NEW r \in Requests, op[r] = "replace",
         target[r] \in Addresses, Mine(r, target[r]),
         loaded[r] = rows[target[r]], loaded[r] # None,
         NEW d \in Row \cup {None, Gone},
         d # None => /\ rows[target[r]].type = want[r].type
                     /\ d = [rows[target[r]] EXCEPT !.default = FALSE],
         target[r] \in Rivals(r) => d # None
  PROVE  Synchronised(r)[r] = IF d = None THEN rows[target[r]] ELSE d
<1> USE Sentinels
<1>0. TypeOK /\ rows[target[r]] \in Row /\ rows[target[r]].user = user[r]
  BY DEF BInv, TypeOK, Mine
<1>1. CASE loaded[r].type = want[r].type
  <2>1. Synchronised(r)[r] = [rows[target[r]] EXCEPT !.default = FALSE]
    BY <1>0, <1>1 DEF TypeOK, Synchronised
  <2>2. CASE d = None
    <3>1. rows[target[r]].default = FALSE
      BY <1>0, <1>1, <2>2 DEF Rivals, Defaults, Row
    <3>2. rows[target[r]] = [rows[target[r]] EXCEPT !.default = FALSE]
      BY <1>0, <3>1 DEF Row
    <3> QED
      BY <2>1, <2>2, <3>2
  <2> QED
    BY <2>1, <2>2
<1>2. CASE loaded[r].type # want[r].type
  BY <1>2 DEF Synchronised
<1> QED
  BY <1>1, <1>2

LEMMA BeginUnsetTurn ==
  ASSUME BInv, SInv, NEW r \in Requests, BeginUnset(r)
  PROVE  SInv'
<1> USE Sentinels
<1> DEFINE left == {a \in Addresses : Unsets(r, a)}
<1>0. TypeOK /\ PerRequest(r) /\ pc[r] = "begin_unset" /\ Turn(r)
  BY DEF BInv, BeginUnset, SInv, Turn
<1>1. /\ UNCHANGED <<rows, request, draft>> /\ VisitNext(r, left)
      /\ draft[r] = Unwritten
  BY <1>0 DEF BeginUnset, PerRequest, Drafted
<1>2. Rivals(r) \subseteq left
  BY DEF Rivals, Defaults, Unsets
<1>3. /\ pc'[r] = IF left = {} THEN "write" ELSE "unset"
      /\ todo'[r] = left
      /\ \A q \in Requests \ {r} : pc'[q] = pc[q]
      /\ loaded' = IF left = {} THEN Synchronised(r) ELSE loaded
  <2> HIDE DEF left
  <2>1. left \in SUBSET Addresses
    BY DEF left
  <2> QED
    BY <1>0, <1>1, <2>1, VisitNextFrame DEF VisitNext
<1>4. op[r] = "replace" /\ left = {} =>
        loaded'[r] = rows[target[r]]
  <2> SUFFICES ASSUME op[r] = "replace", left = {}
               PROVE  Synchronised(r)[r] = rows[target[r]]
    BY <1>3
  <2>1. /\ target[r] \in Addresses /\ Mine(r, target[r]) /\ loaded[r] # None
        /\ loaded[r] = rows[target[r]]
    BY <1>0 DEF PerRequest, Found, Turn, UpToDate
  <2> QED
    BY <1>0, <1>2, <2>1, SynchronisedIsCurrent
<1> HIDE DEF left
<1>5. Turn(r)'
  <2>1. Rivals(r)' = Rivals(r)
    BY <1>1 DEF Rivals, Defaults, request
  <2>2. op[r] = "replace" =>
          /\ target[r] \in Addresses /\ loaded[r] = rows[target[r]]
          /\ Current(r, target[r])' = rows[target[r]]
    BY <1>0, <1>1 DEF PerRequest, Found, Turn, UpToDate, Current, Unwritten,
       request
  <2>3. UpToDate(r)'
    BY <1>1, <1>3, <1>4, <2>2 DEF UpToDate, request
  <2>4. Cleared(r)'
    BY <1>2, <1>3, <2>1 DEF Cleared
  <2> QED
    BY <2>3, <2>4 DEF Turn
<1>6. OneDefault'
  BY <1>1 DEF SInv, OneDefault, OneDefaultIn, Defaults
<1> QED
  BY <1>0, <1>3, <1>5, <1>6, TurnStep DEF Underway

LEMMA UnsetRowTurn ==
  ASSUME BInv, SInv, NEW r \in Requests, UnsetRow(r)
  PROVE  SInv'
<1> USE Sentinels
<1> DEFINE a == aim[r]
           left == todo[r] \ {a}
<1>0. TypeOK /\ PerRequest(r) /\ pc[r] = "unset" /\ Turn(r) /\ BInv'
  BY UnsetRowBInv DEF BInv, UnsetRow, SInv, Turn
<1>1. /\ UNCHANGED <<rows, request>> /\ VisitNext(r, left)
      /\ draft' = IF Unsets(r, a)
                    THEN [draft EXCEPT ![r][a] = [rows[a] EXCEPT !.default = FALSE]]
                    ELSE draft
  BY DEF UnsetRow
<1>2. a \in Addresses /\ left \in SUBSET Addresses
  BY <1>0 DEF PerRequest, Asked, TypeOK
<1>3. /\ pc'[r] = IF left = {} THEN "write" ELSE "unset"
      /\ todo'[r] = left
      /\ \A q \in Requests \ {r} : pc'[q] = pc[q]
      /\ loaded' = IF left = {} THEN Synchronised(r) ELSE loaded
  <2>1. VisitNext(r, left)
    BY <1>1
  <2> HIDE DEF a, left
  <2> QED
    BY <1>0, <1>2, <2>1, VisitNextFrame DEF VisitNext
<1>4. /\ Rivals(r)' = Rivals(r)
      /\ \A x \in Rivals(r) : x \in Addresses /\ Unsets(r, x) /\ rows[x] \in Row
  BY <1>0, <1>1 DEF Rivals, Defaults, Unsets, TypeOK, request
<1>5. ASSUME NEW x \in Rivals(r) PROVE x \in left \/ draft'[r][x] # None
  <2>1. x \in todo[r] \/ draft[r][x] # None
    BY <1>0, <1>5 DEF Turn, Cleared
  <2>2. CASE x = a
    <3>1. draft'[r][x] = [rows[x] EXCEPT !.default = FALSE]
      BY <1>0, <1>1, <1>2, <1>4, <1>5, <2>2 DEF TypeOK
    <3> QED
      BY <1>4, <1>5, <3>1, UnsetIsRow
  <2>3. CASE x # a
    <3>1. draft'[r][x] = draft[r][x]
      BY <1>0, <1>1, <1>2, <1>4, <1>5, <2>3 DEF TypeOK
    <3> QED
      BY <2>1, <2>3, <3>1
  <2> QED
    BY <2>2, <2>3
<1>6. ASSUME op[r] = "replace", left = {}
      PROVE  loaded'[r] = Current(r, target[r])'
  <2> DEFINE d == draft'[r][target[r]]
  <2>1. /\ target[r] \in Addresses /\ Mine(r, target[r]) /\ loaded[r] # None
        /\ loaded[r] = rows[target[r]]
    BY <1>0, <1>6 DEF PerRequest, Found, Turn, UpToDate
  <2>2. d \in Row \cup {None, Gone}
    BY <1>0, <2>1 DEF BInv, TypeOK
  <2>3. d # None => /\ rows[target[r]].type = want[r].type
                    /\ d = [rows[target[r]] EXCEPT !.default = FALSE]
    <3>1. PerRequest(r)' /\ pc'[r] = "write" /\ UNCHANGED <<rows, want, target>>
      BY <1>0, <1>1, <1>3, <1>6 DEF BInv, request
    <3> QED
      BY <2>1, <3>1 DEF PerRequest, Drafted, Unset
  <2>4. target[r] \in Rivals(r) => d # None
    BY <1>5, <1>6
  <2>5. Current(r, target[r])' = IF d = None THEN rows[target[r]] ELSE d
    BY <1>1 DEF Current, request
  <2> HIDE DEF d
  <2> QED
    BY <1>3, <1>6, <2>1, <2>2, <2>3, <2>4, <2>5, SynchronisedIsCurrent
<1>7. Turn(r)'
  <2>1. UpToDate(r)'
    BY <1>0, <1>1, <1>3, <1>6 DEF Turn, UpToDate, request
  <2>2. Cleared(r)'
    BY <1>3, <1>4, <1>5 DEF Cleared
  <2> QED
    BY <2>1, <2>2 DEF Turn
<1>8. OneDefault'
  BY <1>1 DEF SInv, OneDefault, OneDefaultIn, Defaults
<1> QED
  BY <1>0, <1>3, <1>7, <1>8, TurnStep DEF Underway

\* A create or replace has written its row: the book would keep the rule.
LEMMA WriteTurn ==
  ASSUME BInv, SInv, NEW r \in Requests, pc[r] = "write", op[r] # "delete",
         pc'[r] = "commit", UNCHANGED <<rows, request>>,
         \A q \in Requests \ {r} : pc'[q] = pc[q],
         target[r] \in Addresses, Merged(r)'[target[r]] = RowFor(r),
         \A a \in Addresses \ {target[r]} : draft'[r][a] = draft[r][a]
  PROVE  SInv'
<1> USE Sentinels DEF request
<1>0. TypeOK /\ PerRequest(r) /\ Turn(r)
  BY DEF BInv, SInv, Turn
<1> DEFINE M == Merged(r)'
<1>1. ASSUME NEW a \in Addresses \ {target[r]}, M[a] # None, M[a].default
      PROVE  draft[r][a] = None /\ M[a] = rows[a]
  <2>1. M[a] = IF draft[r][a] = None THEN rows[a]
               ELSE IF draft[r][a] = Gone THEN None ELSE draft[r][a]
    BY <1>1 DEF Merged
  <2>2. CASE draft[r][a] # None
    <3>1. rows[a] \in Row /\ draft[r][a] = [rows[a] EXCEPT !.default = FALSE]
      BY <1>0, <1>1, <2>2 DEF PerRequest, Drafted, Unset, Asked, TypeOK
    <3>2. draft[r][a].default = FALSE
      BY <3>1 DEF Row
    <3> QED
      BY <1>1, <2>1, <3>2
  <2> QED
    BY <2>1, <2>2
<1>2. ASSUME NEW a \in Addresses \ {target[r]}, want[r].default,
             a \in Defaults(M, user[r], want[r].type)
      PROVE  FALSE
  <2>1. draft[r][a] = None /\ a \in Rivals(r)
    BY <1>1, <1>2 DEF Defaults, Rivals
  <2> QED
    BY <1>0, <1>2, <2>1 DEF Turn, Cleared
<1>3. OneDefaultIn(M)
  <2> SUFFICES ASSUME NEW u \in Users, NEW t \in Types,
                      NEW a \in Defaults(M, u, t), NEW b \in Defaults(M, u, t),
                      a # b
               PROVE  FALSE
    BY DEF OneDefaultIn
  <2>1. a \in Addresses /\ b \in Addresses
    BY DEF Defaults
  <2>2. target[r] \in Defaults(M, u, t) =>
          want[r].default /\ u = user[r] /\ t = want[r].type
    BY DEF Defaults, RowFor
  <2>3. a # target[r] /\ b # target[r]
    BY <1>2, <2>1, <2>2
  <2>4. a \in Defaults(rows, u, t) /\ b \in Defaults(rows, u, t)
    BY <1>1, <2>1, <2>3 DEF Defaults
  <2> QED
    BY <2>4 DEF SInv, OneDefault, OneDefaultIn
<1>4. Turn(r)'
  BY <1>3 DEF Turn, UpToDate, Cleared, OneDefaultIn, Defaults, RowFor
<1>5. OneDefault'
  BY DEF SInv, OneDefault, OneDefaultIn, Defaults
<1> QED
  BY <1>4, <1>5, TurnStep DEF Underway

LEMMA InsertTurn ==
  ASSUME BInv, SInv, NEW r \in Requests, Insert(r)
  PROVE  SInv'
<1> USE Sentinels DEF Insert, GoTo, request
<1>0. TypeOK /\ PerRequest(r)
  BY DEF BInv
<1>1. RowFor(r) \in Row /\ target[r] = r /\ r \in Addresses
  BY <1>0, RowForIsRow DEF PerRequest, Asked, Addresses
<1>2. \A a \in Addresses :
        draft'[r][a] = IF a = r THEN RowFor(r) ELSE draft[r][a]
  BY <1>0 DEF TypeOK
<1>3. Merged(r)'[r] = RowFor(r)
  BY <1>1, <1>2 DEF Merged
<1>4. \A q \in Requests \ {r} : pc'[q] = pc[q]
  BY <1>0 DEF TypeOK
<1>5. pc'[r] = "commit"
  BY <1>0 DEF TypeOK
<1> QED
  BY <1>1, <1>2, <1>3, <1>4, <1>5, WriteTurn

LEMMA ReplaceTurn ==
  ASSUME BInv, SInv, NEW r \in Requests, Replace(r)
  PROVE  SInv'
<1> USE Sentinels
<1> DEFINE a == target[r]
           image == Current(r, a)
<1>0. /\ TypeOK /\ PerRequest(r) /\ pc[r] = "write" /\ op[r] = "replace"
      /\ Turn(r)
  BY DEF BInv, Replace, SInv, Turn
<1>1. CASE image = None
  <2>1. /\ UNCHANGED <<rows, request>> /\ pc' = [pc EXCEPT ![r] = "failed"]
    BY <1>1 DEF Replace, RollBack, GoTo
  <2>2. pc'[r] = "failed" /\ \A q \in Requests \ {r} : pc'[q] = pc[q]
    BY <1>0, <2>1 DEF TypeOK
  <2>3. Turn(r)' /\ OneDefault'
    BY <2>1, <2>2 DEF Turn, UpToDate, Cleared, SInv, OneDefault, OneDefaultIn,
       Defaults
  <2> QED
    BY <1>0, <2>2, <2>3, TurnStep DEF Underway
<1>2. CASE image # None
  <2>1. /\ image \in Row /\ image.user = user[r] /\ a \in Addresses
        /\ image = loaded[r] /\ want[r] \in Payload /\ user[r] \in Users
    BY <1>0, <1>2, CurrentIsRow DEF PerRequest, Asked, Found, Turn, UpToDate
  <2>2. /\ draft' = IF Dirty(r) THEN [draft EXCEPT ![r][a] = Flushed(r, image)]
                    ELSE draft
        /\ pc' = [pc EXCEPT ![r] = "commit"]
        /\ UNCHANGED <<rows, request>>
    BY <1>2 DEF Replace, GoTo
  <2>3. Flushed(r, image) = RowFor(r) /\ RowFor(r) \in Row
    <3>1. RowFor(r) \in Row /\ Flushed(r, image) \in Row
      BY <2>1, RowForIsRow, FlushedIsRow
    <3>2. /\ Flushed(r, image).user = RowFor(r).user
          /\ Flushed(r, image).type = RowFor(r).type
          /\ Flushed(r, image).default = RowFor(r).default
          /\ Flushed(r, image).body = RowFor(r).body
      <4> HIDE DEF image
      <4> QED
        BY <2>1 DEF Flushed, RowFor, Row, Payload
    <3> QED
      BY <3>1, <3>2, SameRow
  <2>4. ~Dirty(r) => image = RowFor(r)
    <3> SUFFICES ASSUME ~Dirty(r) PROVE image = RowFor(r)
      OBVIOUS
    <3>1. /\ image.user = RowFor(r).user /\ image.type = RowFor(r).type
          /\ image.default = RowFor(r).default /\ image.body = RowFor(r).body
      BY <2>1 DEF Dirty, RowFor
    <3> QED
      BY <2>1, <2>3, <3>1, SameRow
  <2>5. image = IF draft[r][a] = None THEN rows[a] ELSE draft[r][a]
    BY DEF Current
  <2> HIDE DEF a, image
  <2>6. /\ pc'[r] = "commit"
        /\ \A q \in Requests \ {r} : pc'[q] = pc[q]
        /\ \A x \in Addresses : draft'[r][x] =
              IF x = a /\ Dirty(r) THEN RowFor(r) ELSE draft[r][x]
    BY <1>0, <2>1, <2>2, <2>3 DEF TypeOK
  <2>7. Merged(r)'[a] = RowFor(r)
    BY <2>1, <2>2, <2>3, <2>4, <2>5, <2>6 DEF Merged
  <2>8. UNCHANGED <<rows, request>> /\ op[r] # "delete"
    BY <1>0, <2>2
  <2> QED
    BY <1>0, <2>1, <2>6, <2>7, <2>8, WriteTurn DEF a
<1> QED
  BY <1>1, <1>2

LEMMA DeleteTurn ==
  ASSUME BInv, SInv, NEW r \in Requests, Delete(r)
  PROVE  SInv'
<1> USE Sentinels
<1> DEFINE a == target[r]
<1>0. TypeOK /\ PerRequest(r) /\ pc[r] = "write" /\ op[r] = "delete"
  BY DEF BInv, Delete
<1>1. /\ draft' = IF rows[a] = None THEN draft
                  ELSE [draft EXCEPT ![r][a] = Gone]
      /\ pc' = [pc EXCEPT ![r] = "commit"]
      /\ UNCHANGED <<rows, request>>
  BY DEF Delete, GoTo
<1>2. \A x \in Addresses : draft[r][x] = None
  BY <1>0 DEF PerRequest, Drafted, Unset, Asked
<1> HIDE DEF a
<1>3. \A x \in Addresses : draft'[r][x] \in {None, Gone}
  BY <1>0, <1>1, <1>2 DEF TypeOK
<1>4. pc'[r] = "commit" /\ \A q \in Requests \ {r} : pc'[q] = pc[q]
  BY <1>0, <1>1 DEF TypeOK
<1>5. \A x \in Addresses : Merged(r)'[x] \in {rows[x], None}
  BY <1>1, <1>3 DEF Merged
<1>6. OneDefaultIn(Merged(r))'
  BY <1>5 DEF SInv, OneDefault, OneDefaultIn, Defaults
<1>7. Turn(r)'
  BY <1>0, <1>1, <1>4, <1>6 DEF Turn, UpToDate, Cleared, request
<1>8. OneDefault'
  BY <1>1 DEF SInv, OneDefault, OneDefaultIn, Defaults
<1> QED
  BY <1>0, <1>4, <1>7, <1>8, TurnStep DEF Underway

LEMMA CommitTurn ==
  ASSUME BInv, SInv, NEW r \in Requests, Commit(r)
  PROVE  SInv'
<1>0. rows' = Merged(r) /\ Cleared(r)
  BY DEF Commit, SInv
<1>1. /\ pc[r] = "commit" /\ pc'[r] = "answer"
      /\ \A q \in Requests \ {r} : pc'[q] = pc[q]
  BY CommitStep
<1>2. Turn(r)'
  BY <1>1 DEF Turn, UpToDate, Cleared
<1>3. OneDefault'
  <2>1. OneDefaultIn(Merged(r))
    BY <1>0, <1>1 DEF Cleared
  <2> QED
    BY <1>0, <2>1 DEF OneDefault, OneDefaultIn, Defaults
<1> QED
  BY <1>1, <1>2, <1>3, TurnStep DEF Underway

LEMMA EndTurn ==
  ASSUME BInv, SInv, NEW r \in Requests, pc[r] \in Underway,
         RollBack(r) \/ Answer(r)
  PROVE  SInv'
<1>0. TypeOK
  BY DEF BInv
<1>1. /\ rows' = rows /\ pc'[r] \in {"failed", "ok", "lost"}
      /\ \A q \in Requests \ {r} : pc'[q] = pc[q]
  BY <1>0 DEF TypeOK, RollBack, Answer, GoTo
<1>2. Turn(r)'
  BY <1>1 DEF Turn, UpToDate, Cleared
<1>3. OneDefault'
  BY <1>1 DEF SInv, OneDefault, OneDefaultIn, Defaults
<1> QED
  BY <1>1, <1>2, <1>3, TurnStep

LEMMA NextInTurn == BInv /\ InTurn /\ [Next]_vars => InTurn'
<1> SUFFICES ASSUME BInv, InTurn, [Next]_vars, alone' PROVE SInv'
  BY DEF InTurn
<1>1. ASSUME NEW r \in Requests, Starts(r) PROVE SInv'
  <2>1. alone
    BY <1>1 DEF Starts, StartCreate, StartReplace, StartDelete, Arrive
  <2> QED
    BY <1>1, <2>1, ArriveTurn DEF InTurn
<1>2. ASSUME NEW r \in Requests, Advance(r) \/ Abort(r) PROVE SInv'
  <2>1. alone' = alone
    BY <1>2 DEF request, Advance, Load, BeginUnset, UnsetRow, Insert, Replace,
       Delete, Commit, Answer, DeadlockVictim, Abort, RollBack
  <2>2. SInv
    BY <2>1 DEF InTurn
  <2>3. CASE DeadlockVictim(r) \/ Answer(r) \/ Abort(r)
    BY <2>2, <2>3, EndTurn, VictimIsUnderway DEF DeadlockVictim, Answer, Abort,
       Underway
  <2> QED
    BY <1>2, <2>2, <2>3, LoadTurn, BeginUnsetTurn, UnsetRowTurn, InsertTurn,
       ReplaceTurn, DeleteTurn, CommitTurn DEF Advance
<1>3. CASE AllSettled \/ UNCHANGED vars
  <2>1. UNCHANGED vars
    BY <1>3 DEF AllSettled
  <2> QED
    BY <2>1 DEF vars, request, transaction, InTurn, SInv, OneAtATime, OneDefault,
       OneDefaultIn, Defaults, UpToDate, Current, Cleared, Rivals, Merged, RowFor
<1> QED
  BY <1>1, <1>2, <1>3 DEF Next

LEMMA InitInTurn == Init => InTurn
BY DEF Init, Each, InTurn, SInv, OneAtATime, OneDefault, UpToDate, Cleared,
   Underway

LEMMA TurnInvariance == Spec => [](BInv /\ InTurn)
BY InitBInv, InitInTurn, NextBInv, NextInTurn, PTL DEF Spec

\* As long as requests take turns, a user has one default of each type.
THEOREM DefaultsInTurn == Spec => []OneDefaultInTurn
<1>1. InTurn => OneDefaultInTurn
  BY DEF InTurn, SInv, OneDefaultInTurn
<1> QED
  BY <1>1, TurnInvariance, PTL

\* Only a commit of r takes it from "commit" to "answer".
LEMMA AnsweredByCommit ==
  ASSUME BInv, [Next]_vars, NEW r \in Requests,
         pc[r] = "commit", pc'[r] = "answer"
  PROVE  Commit(r)
<1> USE DEF GoTo
<1>0. TypeOK
  BY DEF BInv
<1>1. ASSUME NEW q \in Requests, Starts(q) PROVE FALSE
  BY <1>0, <1>1 DEF TypeOK, Starts, StartCreate, StartReplace, StartDelete,
     Arrive, StageFor
<1>2. ASSUME NEW q \in Requests, Advance(q), ~Commit(q) PROVE FALSE
  <2>1. CASE BeginUnset(q) \/ UnsetRow(q)
    BY <1>0, <2>1 DEF TypeOK, BeginUnset, UnsetRow, VisitNext
  <2>2. CASE Load(q) \/ Insert(q) \/ Replace(q) \/ Delete(q)
    BY <1>0, <2>2 DEF TypeOK, Load, StageFor, Insert, Replace, Delete, RollBack
  <2>3. CASE Answer(q) \/ DeadlockVictim(q)
    BY <1>0, <2>3 DEF TypeOK, Answer, DeadlockVictim, RollBack
  <2> QED
    BY <1>2, <2>1, <2>2, <2>3 DEF Advance
<1>3. ASSUME NEW q \in Requests, Commit(q) PROVE Commit(r)
  BY <1>3, CommitStep
<1>4. ASSUME NEW q \in Requests, Abort(q) PROVE FALSE
  BY <1>0, <1>4 DEF TypeOK, Abort, RollBack
<1> QED
  BY <1>1, <1>2, <1>3, <1>4 DEF Next, AllSettled, vars

\* As long as requests take turns, a commit stores exactly the payload,
\* although the flush writes only what differs from the image in memory.
THEOREM PayloadInTurn == Spec => StoresPayload
<1> DEFINE A ==
  \A r \in Requests :
    alone /\ pc[r] = "commit" /\ pc'[r] = "answer" /\ op[r] # "delete"
      => rows'[target[r]] = RowFor(r)
<1>1. ASSUME BInv, InTurn, [Next]_vars PROVE A
  <2>1. ASSUME NEW q \in Requests, Commit(q) PROVE A
    <3>1. ASSUME NEW r \in Requests, pc[r] = "commit", pc'[r] = "answer"
          PROVE  r = q
      BY <1>1, <2>1, <3>1, CommitStep
    <3>2. alone /\ op[q] # "delete" => Merged(q)[target[q]] = RowFor(q)
      BY <1>1, <2>1, CommitStep DEF InTurn, SInv, Cleared
    <3> QED
      BY <2>1, <3>1, <3>2 DEF Commit
  <2>2. ASSUME NEW r \in Requests, pc[r] = "commit", pc'[r] = "answer"
        PROVE  Commit(r)
    BY <1>1, <2>2, AnsweredByCommit
  <2> QED
    BY <2>1, <2>2
<1> QED
  BY <1>1, TurnInvariance, PTL DEF Spec, StoresPayload
=============================================================================
