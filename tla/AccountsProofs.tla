--------------------------- MODULE AccountsProofs ---------------------------
(***************************************************************************)
(* Proofs about Accounts, for any set of users, identifiers, requests and   *)
(* patches: the locks of the three kinds are enough to keep the identifiers *)
(* unique, an administrator active and every update whole.                  *)
(***************************************************************************)
EXTENDS Accounts, TLAPS

Holding == {"lockIdentifiers", "check", "write"}

\* What a transaction that has come this far holds.
Locked(q) ==
    LET t == request[q] IN
    /\ t.op = "create" => t.at \in Holding
    /\ t.op = "bootstrap" => t.at # "lockUser"
    /\ t.op # "create" /\ t.at # "lockAdmin" => adminLock = q
    /\ t.op = "update" /\ t.at \in Holding => userLock[t.id] = q
    /\ \A i \in {t.row.username, t.row.email} \ t.todo : identifierLock[i] = q
    /\ t.at \in {"check", "write"} => t.todo = {}
    /\ t.at \notin {"check", "write"} =>
         t.todo # {} /\ t.todo \subseteq {t.row.username, t.row.email}

LockInv == \A q \in Request : request[q].at # "idle" => Locked(q)

\* Where the row of a transaction comes from: a new account, or a copy of the
\* account that is still good if its version is.
NewRow(t) ==
    /\ ~Exists(t.id)
    /\ t.row.version = 1 /\ t.row.status = "active"
    /\ t.op = "bootstrap" => t.row.role = "admin"

Copied(t) ==
    /\ Exists(t.id)
    /\ t.row.version <= users[t.id].version
    /\ t.row.version < MaxVersion
    /\ users[t.id].version = t.row.version =>
         /\ t.row = PrepareUpdate(users[t.id], t.patch)
         /\ t.revoke = (users[t.id].status # t.row.status
                        \/ users[t.id].role # t.row.role)

OriginInv ==
    /\ \A q \in Request : request[q].at # "idle" =>
         IF request[q].op = "update" THEN Copied(request[q]) ELSE NewRow(request[q])
    /\ \A q, r \in Request :
         /\ q # r
         /\ request[q].at # "idle" /\ request[r].at # "idle"
         /\ request[q].op # "update"
         => request[q].id # request[r].id

IdentifierInv ==
    /\ IdentifierNamesOneUser
    /\ \A q \in Request :
         request[q].at = "write" => ~Taken(request[q].row, request[q].id)

\* A transaction that would leave user u without the rights of an administrator.
Demotes(t) == ActiveAdmin(t.id) /\ ~(t.row.role = "admin" /\ t.row.status = "active")

AdminInv ==
    /\ HasAdmin => \E a \in User : ActiveAdmin(a)
    /\ bootstrapped <= 1
    /\ bootstrapped # 0 => HasAdmin
    /\ \A q \in Request : request[q].at # "idle" =>
         LET t == request[q] IN
         /\ t.op = "bootstrap" /\ t.at # "lockAdmin" => ~HasAdmin
         /\ t.op = "create" /\ t.row.role = "admin" => HasAdmin
         /\ t.op = "update" => HasAdmin
         /\ t.op = "update" /\ t.at \in Holding /\ Demotes(t) =>
              \E a \in User \ {t.id} : ActiveAdmin(a)

AccountInv == TypeOK /\ LockInv /\ OriginInv /\ IdentifierInv /\ AdminInv

-----------------------------------------------------------------------------
(* Typing.                                                                 *)

LEMMA InFlight ==
    ASSUME TypeOK, NEW q \in Request
    PROVE  /\ request[q].at = "idle" => request[q] = Idle
           /\ request[q].at # "idle" => request[q] \in Transaction
BY DEF TypeOK, Transaction, Idle

LEMMA RowTypes ==
    ASSUME NEW t \in Transaction
    PROVE  /\ t.at \in {"lockAdmin", "lockUser", "lockIdentifiers", "check", "write"}
           /\ t.op \in {"bootstrap", "create", "update"}
           /\ t.id \in User /\ t.row \in UserRow
           /\ t.todo \in SUBSET Identifier
           /\ t.revoke \in BOOLEAN /\ t.patch \in UpdateInput
           /\ t.row.username \in Username /\ t.row.email \in Email
           /\ t.row.status \in Status /\ t.row.role \in Role
           /\ t.row.version \in 1..MaxVersion
BY DEF Transaction, UserRow

LEMMA UserTypes ==
    ASSUME TypeOK, NEW u \in User
    PROVE  /\ Exists(u) => users[u] \in UserRow
           /\ ~Exists(u) => users[u] = NoUser
           /\ ActiveAdmin(u) => Exists(u)
BY DEF TypeOK, Exists, UserRow, NoUser, Status, ActiveAdmin

LEMMA PreparedType ==
    ASSUME NEW row \in UserRow, NEW p \in UpdateInput
    PROVE  /\ PrepareUpdate(row, p) \in UserRow
           /\ PrepareUpdate(row, p).version = row.version
BY DEF PrepareUpdate, Patched, UserRow, UpdateInput

LEMMA PatchTypes == Patches \subseteq UpdateInput /\ NoPatch \in UpdateInput
BY PatchesAssumption DEF NoPatch, UpdateInput

LEMMA NextIdentifierIn ==
    ASSUME NEW S \in SUBSET Identifier, S # {}, NEW a \in Identifier, NEW b \in Identifier,
           S \subseteq {a, b}
    PROVE  (CHOOSE i \in S : \A j \in S : i <= j) \in S
<1>1. \A i \in S : i \in Nat
  BY IdentifierAssumption DEF Identifier
<1>2. \E i \in S : \A j \in S : i <= j
  <2>1. PICK i \in S : TRUE
    OBVIOUS
  <2>2. CASE \E j \in S : j < i
    BY <1>1, <2>2
  <2>3. CASE ~\E j \in S : j < i
    BY <1>1, <2>1, <2>3
  <2>4. QED
    BY <2>2, <2>3
<1>3. QED
  BY <1>2

-----------------------------------------------------------------------------
(* Steps.                                                                  *)

\* A step of request q leaves the transactions of the others alone, and takes no
\* lock away from them.
OthersKept(q) ==
    /\ request' \in [Request -> Transaction \cup {Idle}]
    /\ adminLock' \in Request \cup {None}
    /\ identifierLock' \in [Identifier -> Request \cup {None}]
    /\ userLock' \in [User -> Request \cup {None}]
    /\ \A r \in Request \ {q} :
         /\ request'[r] = request[r]
         /\ adminLock = r => adminLock' = r
         /\ \A i \in Identifier : identifierLock[i] = r => identifierLock'[i] = r
         /\ \A u \in User : userLock[u] = r => userLock'[u] = r

LEMMA FinishKeeps ==
    ASSUME TypeOK, NEW q \in Request, Finish(q)
    PROVE  OthersKept(q) /\ request'[q] = Idle
BY IdentifierAssumption DEF TypeOK, Finish, OthersKept

LEMMA BeginCreateEffect ==
    ASSUME TypeOK, NEW q \in Request, NEW op \in {"bootstrap", "create"}, NEW u \in User,
           NEW username \in Username, NEW email \in Email, NEW role \in Role,
           BeginCreate(q, op, u, PrepareUser(username, email, role))
    PROVE  /\ OthersKept(q)
           /\ request'[q] \in Transaction
           /\ request'[q] =
                [at |-> IF op = "bootstrap" THEN "lockAdmin" ELSE "lockIdentifiers",
                 op |-> op, id |-> u, row |-> PrepareUser(username, email, role),
                 todo |-> {username, email}, revoke |-> FALSE, patch |-> NoPatch]
<1> DEFINE row == PrepareUser(username, email, role)
           t == [at |-> IF op = "bootstrap" THEN "lockAdmin" ELSE "lockIdentifiers",
                 op |-> op, id |-> u, row |-> row, todo |-> {username, email},
                 revoke |-> FALSE, patch |-> NoPatch]
<1>1. row \in UserRow /\ row.username = username /\ row.email = email
  BY IdentifierAssumption DEF PrepareUser, UserRow, Status, Role
<1>2. t \in Transaction
  BY <1>1, PatchTypes DEF Transaction, Identifier
<1>3. request' = [request EXCEPT ![q] = t]
  BY <1>1 DEF BeginCreate
<1>4. UNCHANGED locks
  BY DEF BeginCreate
<1> HIDE DEF t, row
<1>5. request'[q] = t /\ OthersKept(q)
  BY <1>2, <1>3, <1>4 DEF TypeOK, OthersKept, locks
<1>6. QED
  BY <1>2, <1>5 DEF t, row

LEMMA BeginUpdateEffect ==
    ASSUME TypeOK, NEW q \in Request, NEW u \in User, NEW p \in Patches,
           Exists(u), BeginUpdate(q, u, p)
    PROVE  LET updated == PrepareUpdate(users[u], p) IN
           /\ OthersKept(q)
           /\ request'[q] \in Transaction
           /\ updated \in UserRow /\ updated.version = users[u].version
           /\ request'[q] =
                [at |-> "lockAdmin", op |-> "update", id |-> u, row |-> updated,
                 todo |-> {updated.username, updated.email},
                 revoke |-> users[u].status # updated.status
                            \/ users[u].role # updated.role,
                 patch |-> p]
<1> DEFINE row == PrepareUpdate(users[u], p)
           t == [at |-> "lockAdmin", op |-> "update", id |-> u, row |-> row,
                 todo |-> {row.username, row.email},
                 revoke |-> users[u].status # row.status \/ users[u].role # row.role,
                 patch |-> p]
<1>1. row \in UserRow /\ row.version = users[u].version /\ p \in UpdateInput
  BY PreparedType, PatchTypes, UserTypes
<1>2. t \in Transaction
  BY <1>1 DEF Transaction, Identifier, UserRow
<1>3. request' = [request EXCEPT ![q] = t]
  BY DEF BeginUpdate
<1>4. UNCHANGED locks
  BY DEF BeginUpdate
<1> HIDE DEF t, row
<1>5. request'[q] = t /\ OthersKept(q)
  BY <1>2, <1>3, <1>4 DEF TypeOK, OthersKept, locks
<1>6. QED
  BY <1>1, <1>2, <1>5, Zenon DEF t, row

\* The transaction goes on to stage `at' with `todo' left to lock.
Advances(q, at, todo) ==
    /\ OthersKept(q)
    /\ request[q] \in Transaction
    /\ request'[q] \in Transaction
    /\ request'[q].at = at /\ request'[q].todo = todo
    /\ request'[q].op = request[q].op /\ request'[q].id = request[q].id
    /\ request'[q].row = request[q].row /\ request'[q].revoke = request[q].revoke
    /\ request'[q].patch = request[q].patch

LEMMA AdvanceBy ==
    ASSUME TypeOK, NEW q \in Request, request[q] \in Transaction,
           NEW at \in {"lockUser", "lockIdentifiers", "check", "write"},
           NEW todo \in SUBSET Identifier,
           request' = [request EXCEPT ![q] = [request[q] EXCEPT !.at = at, !.todo = todo]],
           adminLock' = adminLock \/ (adminLock = None /\ adminLock' = q),
           \/ identifierLock' = identifierLock
           \/ \E i \in Identifier : /\ identifierLock[i] = None
                                    /\ identifierLock' = [identifierLock EXCEPT ![i] = q],
           \/ userLock' = userLock
           \/ \E u \in User : userLock[u] = None /\ userLock' = [userLock EXCEPT ![u] = q]
    PROVE  Advances(q, at, todo)
<1> DEFINE t == request[q]
           n == [t EXCEPT !.at = at, !.todo = todo]
<1>1. /\ n \in Transaction /\ n.at = at /\ n.todo = todo /\ n.op = t.op /\ n.id = t.id
      /\ n.row = t.row /\ n.revoke = t.revoke /\ n.patch = t.patch
  <2> HIDE DEF t
  <2>1. t \in Transaction
    BY DEF t
  <2>2. QED
    BY <2>1, Zenon DEF Transaction
<1>2. request' = [request EXCEPT ![q] = n]
  OBVIOUS
<1> HIDE DEF n
<1>3. request' \in [Request -> Transaction \cup {Idle}] /\ request'[q] = n
      /\ \A r \in Request \ {q} : request'[r] = request[r]
  BY <1>1, <1>2 DEF TypeOK
<1>4. adminLock' \in Request \cup {None}
      /\ \A r \in Request \ {q} : adminLock = r => adminLock' = r
  BY IdentifierAssumption DEF TypeOK
<1>5. identifierLock' \in [Identifier -> Request \cup {None}]
      /\ \A r \in Request \ {q} : \A i \in Identifier :
           identifierLock[i] = r => identifierLock'[i] = r
  BY IdentifierAssumption DEF TypeOK
<1>6. userLock' \in [User -> Request \cup {None}]
      /\ \A r \in Request \ {q} : \A u \in User : userLock[u] = r => userLock'[u] = r
  BY IdentifierAssumption DEF TypeOK
<1>7. QED
  BY <1>1, <1>3, <1>4, <1>5, <1>6 DEF Advances, OthersKept

LEMMA LockAdminSetEffect ==
    ASSUME TypeOK, NEW q \in Request, LockAdminSet(q)
    PROVE  /\ request[q] \in Transaction
           /\ UNCHANGED <<users, bootstrapped>>
           /\ \/ Finish(q)
              \/ /\ Advances(q, IF request[q].op = "update" THEN "lockUser"
                                                           ELSE "lockIdentifiers",
                             request[q].todo)
                 /\ adminLock' = q
                 /\ request[q].op = "bootstrap" => ~HasAdmin
<1> DEFINE t == request[q]
           stage == IF t.op = "update" THEN "lockUser" ELSE "lockIdentifiers"
<1>1. t \in Transaction /\ t.at = "lockAdmin"
  BY InFlight DEF LockAdminSet
<1>2. CASE t.op = "bootstrap" /\ HasAdmin
  BY <1>1, <1>2 DEF LockAdminSet, Rollback
<1>3. CASE ~(t.op = "bootstrap" /\ HasAdmin)
  <2>1. /\ adminLock = None /\ adminLock' = q
        /\ request' = [request EXCEPT ![q].at = stage]
        /\ UNCHANGED <<users, identifierLock, userLock, bootstrapped>>
    BY <1>3 DEF LockAdminSet
  <2>2. [t EXCEPT !.at = stage] = [t EXCEPT !.at = stage, !.todo = t.todo]
    <3> HIDE DEF t, stage
    <3>1. QED
      BY <1>1, Zenon DEF Transaction
  <2>3. request' = [request EXCEPT ![q] = [request[q] EXCEPT !.at = stage, !.todo = t.todo]]
    BY <2>1, <2>2, Zenon
  <2>4. stage \in {"lockUser", "lockIdentifiers", "check", "write"} /\ t.todo \in SUBSET Identifier
    BY <1>1, RowTypes
  <2> HIDE DEF stage
  <2>5. Advances(q, stage, t.todo)
    BY <1>1, <2>1, <2>3, <2>4, AdvanceBy, Zenon
  <2>6. QED
    BY <1>1, <1>3, <2>1, <2>5 DEF stage
<1>4. QED
  BY <1>2, <1>3

LEMMA LockUserEffect ==
    ASSUME TypeOK, NEW q \in Request, LockUser(q)
    PROVE  /\ request[q] \in Transaction /\ request[q].at = "lockUser"
           /\ UNCHANGED <<users, bootstrapped>>
           /\ \/ Finish(q)
              \/ /\ Advances(q, "lockIdentifiers", request[q].todo)
                 /\ userLock'[request[q].id] = q
                 /\ adminLock' = adminLock
                 /\ ~TakesLastAdmin(request[q].id, request[q].row)
<1> DEFINE t == request[q]
<1>1. t \in Transaction /\ t.at = "lockUser"
  BY InFlight DEF LockUser
<1>2. CASE TakesLastAdmin(t.id, t.row)
  BY <1>1, <1>2 DEF LockUser, Rollback
<1>3. CASE ~TakesLastAdmin(t.id, t.row)
  <2>1. /\ userLock[t.id] = None /\ userLock' = [userLock EXCEPT ![t.id] = q]
        /\ request' = [request EXCEPT ![q].at = "lockIdentifiers"]
        /\ UNCHANGED <<users, adminLock, identifierLock, bootstrapped>>
    BY <1>3 DEF LockUser
  <2>2. [t EXCEPT !.at = "lockIdentifiers"]
           = [t EXCEPT !.at = "lockIdentifiers", !.todo = t.todo]
    <3> HIDE DEF t
    <3>1. QED
      BY <1>1, Zenon DEF Transaction
  <2>3. request' = [request EXCEPT ![q] =
                      [request[q] EXCEPT !.at = "lockIdentifiers", !.todo = t.todo]]
    BY <2>1, <2>2, Zenon
  <2>4. t.id \in User /\ t.todo \in SUBSET Identifier
    BY <1>1, RowTypes
  <2>5. Advances(q, "lockIdentifiers", t.todo)
    BY <1>1, <2>1, <2>3, <2>4, AdvanceBy, Zenon
  <2>6. userLock'[t.id] = q
    BY <2>1, <2>4 DEF TypeOK
  <2>7. QED
    BY <1>1, <1>3, <2>1, <2>5, <2>6
<1>4. QED
  BY <1>2, <1>3

LEMMA LockLoginIdentifierEffect ==
    ASSUME TypeOK, LockInv, NEW q \in Request, LockLoginIdentifier(q)
    PROVE  /\ request[q] \in Transaction /\ request[q].at = "lockIdentifiers"
           /\ UNCHANGED <<users, bootstrapped, adminLock, userLock>>
           /\ \E i \in request[q].todo :
                /\ Advances(q, IF request[q].todo = {i} THEN "check" ELSE "lockIdentifiers",
                            request[q].todo \ {i})
                /\ i \in Identifier
                /\ identifierLock' = [identifierLock EXCEPT ![i] = q]
<1> DEFINE t == request[q]
           i == NextIdentifier(q)
           stage == IF t.todo = {i} THEN "check" ELSE "lockIdentifiers"
<1>1. t \in Transaction /\ t.at = "lockIdentifiers"
  BY InFlight DEF LockLoginIdentifier
<1>2. /\ t.todo # {} /\ t.todo \subseteq {t.row.username, t.row.email}
      /\ t.todo \in SUBSET Identifier
      /\ t.row.username \in Identifier /\ t.row.email \in Identifier
  BY <1>1, RowTypes, Zenon DEF LockInv, Locked, Identifier
<1>3. i \in t.todo
  BY <1>2, NextIdentifierIn, Zenon DEF NextIdentifier
<1>4. /\ identifierLock[i] = None /\ identifierLock' = [identifierLock EXCEPT ![i] = q]
      /\ request' = [request EXCEPT ![q] = [t EXCEPT !.todo = @ \ {i},
                                              !.at = IF t.todo = {i} THEN "check" ELSE @]]
      /\ UNCHANGED <<users, adminLock, userLock, bootstrapped>>
  BY DEF LockLoginIdentifier
<1> HIDE DEF i
<1>5. [t EXCEPT !.todo = @ \ {i}, !.at = IF t.todo = {i} THEN "check" ELSE @]
         = [t EXCEPT !.at = stage, !.todo = t.todo \ {i}]
  <2>1. t \in Transaction /\ t.at = "lockIdentifiers"
    BY <1>1
  <2> HIDE DEF t
  <2>2. QED
    BY <2>1, Zenon DEF Transaction
<1>6. request' = [request EXCEPT ![q] =
                    [request[q] EXCEPT !.at = stage, !.todo = t.todo \ {i}]]
  BY <1>4, <1>5, Zenon
<1>7. stage \in {"lockUser", "lockIdentifiers", "check", "write"}
      /\ t.todo \ {i} \in SUBSET Identifier /\ i \in Identifier
  BY <1>2, <1>3
<1> HIDE DEF stage
<1>8. Advances(q, stage, t.todo \ {i})
  BY <1>1, <1>4, <1>6, <1>7, AdvanceBy, Zenon
<1>9. QED
  BY <1>1, <1>3, <1>4, <1>7, <1>8, Zenon DEF stage

LEMMA CheckIdentifiersEffect ==
    ASSUME TypeOK, NEW q \in Request, CheckIdentifiers(q)
    PROVE  /\ request[q] \in Transaction /\ request[q].at = "check"
           /\ UNCHANGED <<users, bootstrapped>>
           /\ \/ Finish(q)
              \/ /\ Advances(q, "write", request[q].todo)
                 /\ UNCHANGED locks
                 /\ ~Taken(request[q].row, request[q].id)
<1> DEFINE t == request[q]
<1>1. t \in Transaction /\ t.at = "check"
  BY InFlight DEF CheckIdentifiers
<1>2. CASE Taken(t.row, t.id)
  BY <1>1, <1>2 DEF CheckIdentifiers, Rollback
<1>3. CASE ~Taken(t.row, t.id)
  <2>1. /\ request' = [request EXCEPT ![q].at = "write"]
        /\ UNCHANGED <<users, locks, bootstrapped>>
    BY <1>3 DEF CheckIdentifiers
  <2>2. [t EXCEPT !.at = "write"] = [t EXCEPT !.at = "write", !.todo = t.todo]
    <3> HIDE DEF t
    <3>1. QED
      BY <1>1, Zenon DEF Transaction
  <2>3. request' = [request EXCEPT ![q] =
                      [request[q] EXCEPT !.at = "write", !.todo = t.todo]]
    BY <2>1, <2>2, Zenon
  <2>4. t.todo \in SUBSET Identifier
    BY <1>1, RowTypes
  <2>5. Advances(q, "write", t.todo)
    BY <1>1, <2>1, <2>3, <2>4, AdvanceBy, Zenon DEF locks
  <2>6. QED
    BY <1>1, <1>3, <2>1, <2>5
<1>4. QED
  BY <1>2, <1>3

\* The row an account has after its transaction committed.
Committed(t) ==
    [t.row EXCEPT !.version = IF t.op = "update" THEN users[t.id].version + 1 ELSE @]

LEMMA WriteEffect ==
    ASSUME TypeOK, NEW q \in Request, Write(q)
    PROVE  /\ request[q] \in Transaction /\ request[q].at = "write"
           /\ Finish(q)
           /\ \/ UNCHANGED <<users, bootstrapped>>
              \/ /\ VersionMatches(request[q])
                 /\ users' = [users EXCEPT ![request[q].id] = Committed(request[q])]
                 /\ bootstrapped' = bootstrapped
                                    + (IF request[q].op = "bootstrap" THEN 1 ELSE 0)
BY InFlight DEF Write, Committed

\* The forms that a step takes, as far as the rows are concerned.
LEMMA Steps ==
    ASSUME TypeOK, NEW q \in Request, Begin(q) \/ Step(q)
    PROVE  \/ \E op \in {"bootstrap", "create"}, u \in User, username \in Username,
                 email \in Email, role \in Role :
                  BeginCreate(q, op, u, PrepareUser(username, email, role))
           \/ \E u \in User, p \in Patches : Exists(u) /\ BeginUpdate(q, u, p)
           \/ LockAdminSet(q) \/ LockUser(q) \/ LockLoginIdentifier(q)
           \/ CheckIdentifiers(q) \/ Write(q)
BY DEF Begin, Step

-----------------------------------------------------------------------------
(* The locks.                                                              *)

LEMMA OthersLocked ==
    ASSUME TypeOK, LockInv, NEW q \in Request, OthersKept(q),
           NEW r \in Request, r # q, request'[r].at # "idle"
    PROVE  Locked(r)'
<1>1. request'[r] = request[r] /\ request[r] \in Transaction /\ Locked(r)
  BY InFlight DEF OthersKept, LockInv
<1>2. /\ request[r].id \in User
      /\ request[r].row.username \in Identifier /\ request[r].row.email \in Identifier
  BY <1>1, RowTypes DEF Identifier
<1>3. /\ adminLock = r => adminLock' = r
      /\ \A i \in Identifier : identifierLock[i] = r => identifierLock'[i] = r
      /\ \A u \in User : userLock[u] = r => userLock'[u] = r
  BY DEF OthersKept
<1>4. QED
  BY <1>1, <1>2, <1>3 DEF Locked

LEMMA OwnLocked ==
    ASSUME TypeOK, LockInv, NEW q \in Request, Begin(q) \/ Step(q), request'[q].at # "idle"
    PROVE  Locked(q)' /\ OthersKept(q)
<1> USE DEF Holding
<1>0. ~Finish(q)
  BY FinishKeeps DEF Idle
<1>1. CASE \E op \in {"bootstrap", "create"}, u \in User, username \in Username,
              email \in Email, role \in Role :
               BeginCreate(q, op, u, PrepareUser(username, email, role))
  <2>1. PICK op \in {"bootstrap", "create"}, u \in User, username \in Username,
             email \in Email, role \in Role :
               BeginCreate(q, op, u, PrepareUser(username, email, role))
    BY <1>1
  <2> DEFINE n == request'[q]
  <2>a. /\ OthersKept(q)
        /\ n = [at |-> IF op = "bootstrap" THEN "lockAdmin" ELSE "lockIdentifiers",
                op |-> op, id |-> u, row |-> PrepareUser(username, email, role),
                todo |-> {username, email}, revoke |-> FALSE, patch |-> NoPatch]
    BY <2>1, BeginCreateEffect
  <2>b. n = request'[q]
    OBVIOUS
  <2> HIDE DEF n
  <2>2. /\ request'[q].op = op
        /\ request'[q].at = IF op = "bootstrap" THEN "lockAdmin" ELSE "lockIdentifiers"
        /\ request'[q].todo = {username, email}
        /\ request'[q].row.username = username /\ request'[q].row.email = email
    BY <2>a, <2>b DEF PrepareUser
  <2>3. QED
    BY <2>a, <2>2 DEF Locked
<1>2. CASE \E u \in User, p \in Patches : Exists(u) /\ BeginUpdate(q, u, p)
  <2>1. PICK u \in User, p \in Patches : Exists(u) /\ BeginUpdate(q, u, p)
    BY <1>2
  <2> DEFINE n == request'[q]
             row == PrepareUpdate(users[u], p)
  <2>a. /\ OthersKept(q)
        /\ n = [at |-> "lockAdmin", op |-> "update", id |-> u, row |-> row,
                todo |-> {row.username, row.email},
                revoke |-> users[u].status # row.status \/ users[u].role # row.role,
                patch |-> p]
    BY <2>1, BeginUpdateEffect
  <2>b. n = request'[q]
    OBVIOUS
  <2> HIDE DEF n, row
  <2>2. /\ OthersKept(q)
        /\ request'[q].op = "update" /\ request'[q].at = "lockAdmin"
        /\ request'[q].todo = {request'[q].row.username, request'[q].row.email}
    BY <2>a, <2>b
  <2>3. QED
    BY <2>2 DEF Locked
<1>3. CASE LockAdminSet(q)
  <2>1. /\ Advances(q, IF request[q].op = "update" THEN "lockUser" ELSE "lockIdentifiers",
                    request[q].todo)
        /\ adminLock' = q /\ identifierLock' = identifierLock
        /\ request[q].at = "lockAdmin" /\ Locked(q)
    BY <1>0, <1>3, LockAdminSetEffect DEF LockAdminSet, LockInv, Rollback
  <2>2. request[q].op \in {"bootstrap", "create", "update"}
    BY <2>1, RowTypes DEF Advances
  <2>3. CASE request[q].op = "update"
    BY <2>1, <2>3, Zenon DEF Locked, Advances
  <2>4. CASE request[q].op # "update"
    BY <2>1, <2>2, <2>4, Zenon DEF Locked, Advances
  <2>5. QED
    BY <2>3, <2>4
<1>4. CASE LockUser(q)
  <2>1. /\ Advances(q, "lockIdentifiers", request[q].todo)
        /\ userLock'[request[q].id] = q
        /\ adminLock' = adminLock /\ identifierLock' = identifierLock
        /\ request[q].at = "lockUser" /\ Locked(q)
    BY <1>0, <1>4, LockUserEffect DEF LockUser, LockInv, Rollback
  <2>2. request[q].op = "update"
    BY <2>1, RowTypes, Zenon DEF Locked, Advances
  <2>3. QED
    BY <2>1, <2>2, Zenon DEF Locked, Advances
<1>5. CASE LockLoginIdentifier(q)
  <2>1. PICK i \in request[q].todo :
              /\ Advances(q, IF request[q].todo = {i} THEN "check" ELSE "lockIdentifiers",
                          request[q].todo \ {i})
              /\ i \in Identifier
              /\ identifierLock' = [identifierLock EXCEPT ![i] = q]
    BY <1>5, LockLoginIdentifierEffect, Zenon
  <2>2. /\ adminLock' = adminLock /\ userLock' = userLock
        /\ request[q].at = "lockIdentifiers" /\ Locked(q)
        /\ request[q].row.username \in Identifier /\ request[q].row.email \in Identifier
    BY <1>5, LockLoginIdentifierEffect, RowTypes, Zenon DEF LockInv, Identifier
  <2>3. \A j \in {request[q].row.username, request[q].row.email} \ (request[q].todo \ {i}) :
            identifierLock'[j] = q
    BY <2>1, <2>2 DEF Locked, TypeOK
  <2>4. CASE request[q].todo = {i}
    BY <2>1, <2>2, <2>3, <2>4, Zenon DEF Locked, Advances
  <2>5. CASE request[q].todo # {i}
    BY <2>1, <2>2, <2>3, <2>5, Zenon DEF Locked, Advances
  <2>6. QED
    BY <2>4, <2>5
<1>6. CASE CheckIdentifiers(q)
  <2>1. /\ Advances(q, "write", request[q].todo)
        /\ UNCHANGED locks
        /\ request[q].at = "check" /\ Locked(q)
    BY <1>0, <1>6, CheckIdentifiersEffect DEF LockInv
  <2>2. QED
    BY <2>1, Zenon DEF Locked, Advances, locks
<1>7. CASE Write(q)
  BY <1>0, <1>7, WriteEffect
<1>8. QED
  BY <1>1, <1>2, <1>3, <1>4, <1>5, <1>6, <1>7, Steps, Zenon

LEMMA StepKeepsOthers ==
    ASSUME TypeOK, LockInv, NEW q \in Request, Begin(q) \/ Step(q)
    PROVE  OthersKept(q)
<1>1. CASE Finish(q)
  BY <1>1, FinishKeeps
<1>2. CASE request'[q].at # "idle"
  BY <1>2, OwnLocked
<1>3. CASE request'[q].at = "idle" /\ ~Finish(q)
  <2>1. \A at \in {"lockUser", "lockIdentifiers", "check", "write"}, todo \in SUBSET Identifier :
            ~Advances(q, at, todo)
    BY <1>3 DEF Advances
  <2>2. ~LockAdminSet(q) /\ ~LockUser(q) /\ ~CheckIdentifiers(q) /\ ~Write(q)
    BY <1>3, <2>1, LockAdminSetEffect, LockUserEffect, CheckIdentifiersEffect, WriteEffect,
       RowTypes, Zenon
  <2>3. ~LockLoginIdentifier(q)
    BY <1>3, <2>1, LockLoginIdentifierEffect, RowTypes, Zenon
  <2>4. QED
    BY <1>3, <2>2, <2>3, Steps, BeginCreateEffect, BeginUpdateEffect, Zenon
<1>4. QED
  BY <1>1, <1>2, <1>3

LEMMA LockStep ==
    ASSUME TypeOK, LockInv, NEW q \in Request, Begin(q) \/ Step(q)
    PROVE  LockInv'
<1>1. ASSUME NEW r \in Request, request'[r].at # "idle"
      PROVE  Locked(r)'
  BY <1>1, StepKeepsOthers, OthersLocked, OwnLocked
<1>2. QED
  BY <1>1 DEF LockInv

-----------------------------------------------------------------------------
(* The four things a step can be for its request: the first, one that goes  *)
(* on, a rollback, and the commit.                                          *)

Started(q) ==
    LET n == request'[q] IN
    /\ request[q].at = "idle" /\ n \in Transaction
    /\ UNCHANGED <<users, bootstrapped>>
    /\ \/ /\ n.op \in {"bootstrap", "create"} /\ Fresh(n.id)
          /\ n.at # "write" /\ n.row.version = 1 /\ n.row.status = "active"
          /\ n.op = "bootstrap" => n.at = "lockAdmin" /\ n.row.role = "admin"
          /\ n.op = "create" /\ n.row.role = "admin" => HasAdmin
       \/ /\ n.op = "update" /\ n.at = "lockAdmin"
          /\ Exists(n.id) /\ users[n.id].version < MaxVersion
          /\ n.row = PrepareUpdate(users[n.id], n.patch)
          /\ n.revoke = (users[n.id].status # n.row.status
                         \/ users[n.id].role # n.row.role)
          /\ HasAdmin

Moved(q) ==
    LET t == request[q]
        n == request'[q]
    IN  /\ t \in Transaction /\ n \in Transaction
        /\ UNCHANGED <<users, bootstrapped>>
        /\ n.op = t.op /\ n.id = t.id /\ n.row = t.row
        /\ n.revoke = t.revoke /\ n.patch = t.patch
        /\ n.at = "write" => ~Taken(t.row, t.id)
        /\ n.op = "bootstrap" /\ t.at = "lockAdmin" => ~HasAdmin
        /\ n.op = "update" /\ n.at \in Holding =>
             t.at \in Holding \/ ~TakesLastAdmin(t.id, t.row)

Ended(q) == request'[q] = Idle /\ UNCHANGED <<users, bootstrapped>>

Wrote(q) ==
    LET t == request[q] IN
    /\ t \in Transaction /\ t.at = "write" /\ request'[q] = Idle
    /\ VersionMatches(t)
    /\ users' = [users EXCEPT ![t.id] = Committed(t)]
    /\ bootstrapped' = bootstrapped + (IF t.op = "bootstrap" THEN 1 ELSE 0)

LEMMA StartForm ==
    ASSUME TypeOK, NEW q \in Request, request[q].at = "idle", Begin(q)
    PROVE  Started(q)
<1>1. CASE \E op \in {"bootstrap", "create"}, u \in User, username \in Username,
              email \in Email, role \in Role :
               BeginCreate(q, op, u, PrepareUser(username, email, role))
  <2>1. PICK op \in {"bootstrap", "create"}, u \in User, username \in Username,
             email \in Email, role \in Role :
               BeginCreate(q, op, u, PrepareUser(username, email, role))
    BY <1>1
  <2> DEFINE n == request'[q]
             row == PrepareUser(username, email, role)
  <2>2. /\ n \in Transaction
        /\ n = [at |-> IF op = "bootstrap" THEN "lockAdmin" ELSE "lockIdentifiers",
                op |-> op, id |-> u, row |-> row,
                todo |-> {username, email}, revoke |-> FALSE, patch |-> NoPatch]
    BY <2>1, BeginCreateEffect
  <2>3. row.version = 1 /\ row.status = "active" /\ row.role = role
    BY DEF PrepareUser
  <2>4. /\ Fresh(u) /\ UNCHANGED <<users, bootstrapped>>
        /\ op = "bootstrap" => row.role = "admin"
        /\ op = "create" /\ row.role = "admin" => \E a \in User : ActiveAdmin(a)
    BY <2>1 DEF BeginCreate
  <2>5. (\E a \in User : ActiveAdmin(a)) => HasAdmin
    BY UserTypes DEF HasAdmin, ActiveAdmin
  <2>6. n = request'[q]
    OBVIOUS
  <2> HIDE DEF n, row
  <2>7. /\ n.op = op /\ n.id = u /\ n.row = row
        /\ n.at = IF op = "bootstrap" THEN "lockAdmin" ELSE "lockIdentifiers"
    BY <2>2
  <2>8. QED
    BY <2>2, <2>3, <2>4, <2>5, <2>6, <2>7, Zenon DEF Started
<1>2. CASE \E u \in User, p \in Patches : Exists(u) /\ BeginUpdate(q, u, p)
  <2>1. PICK u \in User, p \in Patches : Exists(u) /\ BeginUpdate(q, u, p)
    BY <1>2
  <2> DEFINE n == request'[q]
             row == PrepareUpdate(users[u], p)
  <2>2. /\ n \in Transaction
        /\ n = [at |-> "lockAdmin", op |-> "update", id |-> u, row |-> row,
                todo |-> {row.username, row.email},
                revoke |-> users[u].status # row.status \/ users[u].role # row.role,
                patch |-> p]
    BY <2>1, BeginUpdateEffect
  <2>3. /\ users[u].version < MaxVersion /\ UNCHANGED <<users, bootstrapped>>
        /\ \E a \in User : ActiveAdmin(a)
    BY <2>1 DEF BeginUpdate
  <2>4. HasAdmin
    BY <2>3, UserTypes DEF HasAdmin, ActiveAdmin
  <2>5. n = request'[q] /\ row = PrepareUpdate(users[u], p)
    OBVIOUS
  <2> HIDE DEF n, row
  <2>6. /\ n.op = "update" /\ n.id = u /\ n.row = row /\ n.at = "lockAdmin" /\ n.patch = p
        /\ n.revoke = (users[u].status # row.status \/ users[u].role # row.role)
    BY <2>2
  <2>7. QED
    BY <2>1, <2>2, <2>3, <2>4, <2>5, <2>6, Zenon DEF Started
<1>3. QED
  BY <1>1, <1>2 DEF Begin

LEMMA Forms ==
    ASSUME TypeOK, LockInv, NEW q \in Request, Begin(q) \/ Step(q)
    PROVE  Started(q) \/ Moved(q) \/ Ended(q) \/ Wrote(q)
<1> USE DEF Holding
<1>0. Finish(q) /\ UNCHANGED <<users, bootstrapped>> => Ended(q)
  BY FinishKeeps DEF Ended
<1>1. CASE Begin(q)
  <2>1. request[q].at = "idle"
    BY <1>1, SMTT(30) DEF Begin, BeginCreate, BeginUpdate
  <2>2. QED
    BY <1>1, <2>1, StartForm
<1>2. CASE LockAdminSet(q)
  BY <1>0, <1>2, LockAdminSetEffect, Zenon DEF Moved, Advances
<1>3. CASE LockUser(q)
  BY <1>0, <1>3, LockUserEffect, Zenon DEF Moved, Advances
<1>4. CASE LockLoginIdentifier(q)
  BY <1>4, LockLoginIdentifierEffect, Zenon DEF Moved, Advances
<1>5. CASE CheckIdentifiers(q)
  BY <1>0, <1>5, CheckIdentifiersEffect, Zenon DEF Moved, Advances
<1>6. CASE Write(q)
  BY <1>0, <1>6, WriteEffect, FinishKeeps DEF Wrote
<1>7. QED
  BY <1>1, <1>2, <1>3, <1>4, <1>5, <1>6 DEF Step

-----------------------------------------------------------------------------
(* The rows.                                                               *)

LEMMA WroteRow ==
    ASSUME TypeOK, OriginInv, NEW q \in Request, Wrote(q)
    PROVE  LET t == request[q] IN
           /\ t.id \in User
           /\ users'[t.id] \in UserRow /\ users'[t.id].status # "none"
           /\ users'[t.id].username = t.row.username /\ users'[t.id].email = t.row.email
           /\ users'[t.id].status = t.row.status /\ users'[t.id].role = t.row.role
           /\ IF t.op = "update"
              THEN /\ Copied(t) /\ users[t.id].version = t.row.version
                   /\ users'[t.id].version = users[t.id].version + 1
              ELSE NewRow(t) /\ users'[t.id].version = 1
           /\ \A u \in User \ {t.id} : users'[u] = users[u]
<1> DEFINE t == request[q]
           c == Committed(t)
<1>1. /\ t \in Transaction /\ t.at = "write" /\ VersionMatches(t)
      /\ users' = [users EXCEPT ![t.id] = c]
  BY DEF Wrote
<1>2. t.id \in User /\ t.row \in UserRow /\ t.op \in {"bootstrap", "create", "update"}
      /\ t.row.version \in 1..MaxVersion /\ t.row.status \in Status
  BY <1>1, RowTypes
<1>3. IF t.op = "update" THEN Copied(t) /\ users[t.id].version = t.row.version ELSE NewRow(t)
  BY <1>1 DEF OriginInv, VersionMatches
<1>4. t.op = "update" => users[t.id].version + 1 \in 1..MaxVersion
  BY <1>2, <1>3, IdentifierAssumption DEF Copied
<1>5. users'[t.id] = c /\ \A u \in User \ {t.id} : users'[u] = users[u]
  BY <1>1, <1>2 DEF TypeOK
<1>6. /\ c \in UserRow /\ c.username = t.row.username /\ c.email = t.row.email
      /\ c.status = t.row.status /\ c.role = t.row.role
      /\ c.version = IF t.op = "update" THEN users[t.id].version + 1 ELSE t.row.version
  <2> HIDE DEF t
  <2>1. QED
    BY <1>2, <1>4 DEF Committed, UserRow
<1>7. c.status # "none"
  BY <1>2, <1>6, Zenon DEF Status
<1>8. t.op # "update" => c.version = 1
  BY <1>3, <1>6 DEF NewRow
<1> HIDE DEF c
<1>9. QED
  BY <1>2, <1>3, <1>5, <1>6, <1>7, <1>8, Zenon

LEMMA TypeStep ==
    ASSUME TypeOK, LockInv, OriginInv, NEW q \in Request, Begin(q) \/ Step(q)
    PROVE  TypeOK'
<1>1. OthersKept(q)
  BY StepKeepsOthers
<1>2. users' \in [User -> UserRow \cup {NoUser}]
  <2>1. CASE Wrote(q)
    <3>1. /\ users' = [users EXCEPT ![request[q].id] = Committed(request[q])]
          /\ request[q].id \in User /\ users'[request[q].id] \in UserRow
      BY <2>1, WroteRow, Zenon DEF Wrote
    <3>2. users'[request[q].id] = Committed(request[q])
      BY <3>1 DEF TypeOK
    <3>3. QED
      BY <3>1, <3>2 DEF TypeOK
  <2>2. CASE ~Wrote(q)
    BY <2>2, Forms, Zenon DEF Started, Moved, Ended, TypeOK
  <2>3. QED
    BY <2>1, <2>2
<1>3. bootstrapped' \in Nat
  <2>1. \/ bootstrapped' = bootstrapped
        \/ bootstrapped' = bootstrapped + (IF request[q].op = "bootstrap" THEN 1 ELSE 0)
    BY Forms, Zenon DEF Started, Moved, Ended, Wrote
  <2>2. bootstrapped \in Nat
    BY DEF TypeOK
  <2>3. QED
    BY <2>1, <2>2
<1>4. QED
  BY <1>1, <1>2, <1>3 DEF TypeOK, OthersKept

LEMMA OriginStep ==
    ASSUME TypeOK, LockInv, OriginInv, NEW q \in Request, Begin(q) \/ Step(q)
    PROVE  OriginInv'
<1>0. OthersKept(q) /\ Idle.at = "idle"
  BY StepKeepsOthers DEF Idle
<1>1. ASSUME NEW r \in Request, request'[r].at # "idle"
      PROVE  (IF request[r].op = "update" THEN Copied(request[r]) ELSE NewRow(request[r]))'
  <2>1. CASE r # q
    <3> DEFINE t == request[r]
    <3>1. /\ request'[r] = t /\ t \in Transaction
          /\ IF t.op = "update" THEN Copied(t) ELSE NewRow(t)
      BY <1>0, <1>1, <2>1, InFlight, Zenon DEF OthersKept, OriginInv
    <3>2. t.id \in User /\ t.row.version \in 1..MaxVersion
      BY <3>1, RowTypes
    <3>3. PICK k \in Transaction : k = request'[r] /\ k = t
      BY <3>1
    <3>4. CASE users'[t.id] = users[t.id]
      BY <3>1, <3>2, <3>3, <3>4, Zenon DEF Copied, NewRow, Exists
    <3>5. CASE users'[t.id] # users[t.id]
      <4>1. Wrote(q) /\ request[q].id = t.id
        BY <3>2, <3>5, Forms, WroteRow, Zenon DEF Started, Moved, Ended
      <4>2. request[q].at # "idle" /\ t.at # "idle"
        BY <1>1, <3>1, <4>1 DEF Wrote
      <4>3. request[q].op = "update" /\ t.op = "update"
        BY <2>1, <4>1, <4>2 DEF OriginInv
      <4>4. users[t.id] \in UserRow
        BY <3>1, <3>2, <4>3, UserTypes, Zenon DEF Copied
      <4>5. /\ users'[t.id].version = users[t.id].version + 1
            /\ users'[t.id].status # "none"
        BY <4>1, <4>3, WroteRow, Zenon
      <4>6. t.row.version <= users[t.id].version /\ t.row.version < MaxVersion
        BY <3>1, <4>3, Zenon DEF Copied
      <4>7. users[t.id].version \in Nat
        BY <4>4 DEF UserRow
      <4>8. users'[t.id].version # t.row.version /\ t.row.version <= users'[t.id].version
        BY <3>2, <4>5, <4>6, <4>7
      <4>9. QED
        BY <3>1, <3>3, <4>3, <4>5, <4>6, <4>8, Zenon DEF Copied, Exists
    <3>6. QED
      BY <3>4, <3>5
  <2>2. CASE r = q
    <3>1. Started(q) \/ Moved(q)
      BY <1>0, <1>1, <2>2, Forms DEF Ended, Wrote
    <3>2. PICK n \in Transaction : n = request'[q]
      BY <3>1, Zenon DEF Started, Moved
    <3>3. n.id \in User /\ users' = users
      BY <3>1, <3>2, RowTypes, Zenon DEF Started, Moved
    <3>4. CASE Started(q) /\ n.op # "update"
      BY <2>2, <3>2, <3>3, <3>4, Zenon DEF Started, NewRow, Fresh, Exists
    <3>5. CASE Started(q) /\ n.op = "update"
      <4>1. /\ Exists(n.id) /\ users[n.id].version < MaxVersion
            /\ n.row = PrepareUpdate(users[n.id], n.patch)
            /\ n.revoke = (users[n.id].status # n.row.status
                           \/ users[n.id].role # n.row.role)
        BY <3>2, <3>5, Zenon DEF Started
      <4>2. n.row.version = users[n.id].version /\ users[n.id].version \in Nat
        <5>1. users[n.id] \in UserRow
          BY <3>3, <4>1, UserTypes
        <5>2. n.row.version = users[n.id].version
          BY <4>1 DEF PrepareUpdate
        <5>3. QED
          BY <5>1, <5>2 DEF UserRow
      <4>3. n.row.version <= users[n.id].version /\ n.row.version < MaxVersion
        BY <4>1, <4>2
      <4>4. QED
        BY <2>2, <3>2, <3>3, <3>5, <4>1, <4>3, Zenon DEF Copied, Exists
    <3>6. CASE Moved(q)
      <4>1. PICK t \in Transaction : t = request[q]
        BY <3>6 DEF Moved
      <4>2. IF t.op = "update" THEN Copied(t) ELSE NewRow(t)
        BY <4>1, RowTypes DEF OriginInv
      <4>3. n.op = t.op /\ n.id = t.id /\ n.row = t.row /\ n.revoke = t.revoke /\ n.patch = t.patch
        BY <3>2, <3>6, <4>1 DEF Moved
      <4>4. QED
        BY <2>2, <3>2, <3>3, <4>2, <4>3 DEF Copied, NewRow, Exists
    <3>7. QED
      BY <3>1, <3>4, <3>5, <3>6
  <2>3. QED
    BY <2>1, <2>2
<1>2. ASSUME NEW r \in Request, NEW s \in Request, r # s,
             request'[r].at # "idle", request'[s].at # "idle", request'[r].op # "update"
      PROVE  request'[r].id # request'[s].id
  <2>1. CASE r # q /\ s # q
    BY <1>0, <1>2, <2>1 DEF OthersKept, OriginInv
  <2>2. CASE Moved(q)
    <3>1. \A k \in Request : request'[k].at # "idle" =>
              /\ request[k].at # "idle"
              /\ request'[k].id = request[k].id /\ request'[k].op = request[k].op
      BY <1>0, <2>2, RowTypes, Zenon DEF OthersKept, Moved
    <3>2. QED
      BY <1>2, <3>1 DEF OriginInv
  <2>3. CASE Started(q) /\ r = q
    <3>1. request'[s] = request[s] /\ request[s].at # "idle"
      BY <1>0, <1>2, <2>3 DEF OthersKept
    <3>2. Fresh(request'[q].id)
      BY <1>2, <2>3, Zenon DEF Started
    <3>3. QED
      BY <2>3, <3>1, <3>2 DEF Fresh
  <2>4. CASE Started(q) /\ s = q
    <3>1. request'[r] = request[r] /\ request[r].at # "idle" /\ request[r].op # "update"
      BY <1>0, <1>2, <2>4 DEF OthersKept
    <3>2. ~Exists(request[r].id)
      BY <3>1 DEF OriginInv, NewRow
    <3>3. Fresh(request'[q].id) \/ Exists(request'[q].id)
      BY <2>4, Zenon DEF Started
    <3>4. QED
      BY <2>4, <3>1, <3>2, <3>3 DEF Fresh
  <2>5. QED
    BY <1>0, <1>2, <2>1, <2>2, <2>3, <2>4, Forms, Zenon DEF Ended, Wrote
<1>3. QED
  BY <1>1, <1>2 DEF OriginInv

-----------------------------------------------------------------------------
(* Identifiers.                                                            *)

\* Two transactions that are about to write hold different identifiers.
LEMMA WritersDisjoint ==
    ASSUME TypeOK, LockInv, NEW q \in Request, NEW r \in Request, q # r,
           request[q].at = "write", request[r].at = "write"
    PROVE  /\ request[q].row.username # request[r].row.username
           /\ request[q].row.email # request[r].row.email
<1>1. Locked(q) /\ Locked(r)
  BY DEF LockInv
<1>2. /\ identifierLock[request[q].row.username] = q /\ identifierLock[request[q].row.email] = q
      /\ identifierLock[request[r].row.username] = r /\ identifierLock[request[r].row.email] = r
  BY <1>1, Zenon DEF Locked
<1>3. QED
  BY <1>2, Zenon

LEMMA IdentifierStep ==
    ASSUME TypeOK, LockInv, OriginInv, IdentifierInv, NEW q \in Request, Begin(q) \/ Step(q)
    PROVE  IdentifierInv'
<1>0. OthersKept(q) /\ Idle.at = "idle"
  BY StepKeepsOthers DEF Idle
<1>1. CASE Wrote(q)
  <2> DEFINE t == request[q]
  <2>1. /\ t.id \in User /\ t.at = "write" /\ ~Taken(t.row, t.id)
        /\ users'[t.id].username = t.row.username /\ users'[t.id].email = t.row.email
        /\ \A u \in User \ {t.id} : users'[u] = users[u]
    BY <1>1, WroteRow, Zenon DEF Wrote, IdentifierInv
  <2>2. \A v \in User \ {t.id} : Exists(v) =>
            users[v].username # t.row.username /\ users[v].email # t.row.email
    BY <2>1, Zenon DEF Taken
  <2>3. IdentifierNamesOneUser'
    BY <2>1, <2>2 DEF IdentifierInv, IdentifierNamesOneUser, Exists
  <2>4. ASSUME NEW r \in Request, request'[r].at = "write"
        PROVE  ~Taken(request[r].row, request[r].id)'
    <3>1. r # q /\ request'[r] = request[r] /\ request[r].at = "write"
      BY <1>0, <1>1, <2>4 DEF Wrote, OthersKept
    <3>2. ~Taken(request[r].row, request[r].id)
      BY <3>1 DEF IdentifierInv
    <3>3. t.row.username # request[r].row.username /\ t.row.email # request[r].row.email
      BY <2>1, <3>1, WritersDisjoint, Zenon
    <3>4. QED
      BY <2>1, <3>1, <3>2, <3>3, Zenon DEF Taken, Exists
  <2>5. QED
    BY <2>3, <2>4 DEF IdentifierInv
<1>2. CASE ~Wrote(q)
  <2>1. users' = users
    BY <1>2, Forms, Zenon DEF Started, Moved, Ended
  <2>2. ASSUME NEW r \in Request, request'[r].at = "write"
        PROVE  ~Taken(request[r].row, request[r].id)'
    <3>1. CASE r # q
      BY <1>0, <2>1, <2>2, <3>1 DEF OthersKept, IdentifierInv, Taken, Exists
    <3>2. CASE r = q
      <4>1. Moved(q)
        BY <1>0, <1>2, <2>2, <3>2, Forms, Zenon DEF Started, Ended
      <4>2. /\ ~Taken(request[q].row, request[q].id)
            /\ request'[q].row = request[q].row /\ request'[q].id = request[q].id
        BY <2>2, <3>2, <4>1 DEF Moved
      <4>3. QED
        BY <2>1, <3>2, <4>2 DEF Taken, Exists
    <3>3. QED
      BY <3>1, <3>2
  <2>3. IdentifierNamesOneUser'
    BY <2>1 DEF IdentifierInv, IdentifierNamesOneUser, Exists
  <2>4. QED
    BY <2>2, <2>3 DEF IdentifierInv
<1>3. QED
  BY <1>1, <1>2

-----------------------------------------------------------------------------
(* Administrators.                                                         *)

INSTANCE FiniteSetTheorems

LEMMA ActiveAdmins ==
    /\ IsFiniteSet({u \in User : ActiveAdmin(u)})
    /\ CountActiveAdmins \in Nat
    /\ CountActiveAdmins >= 1 <=> \E u \in User : ActiveAdmin(u)
<1> DEFINE S == {u \in User : ActiveAdmin(u)}
<1>1. IsFiniteSet(S)
  BY FS_Subset, IdentifierAssumption
<1>2. Cardinality(S) \in Nat /\ (Cardinality(S) = 0 <=> S = {})
  BY <1>1, FS_CardinalityType, FS_EmptySet
<1>3. S = {} <=> ~\E u \in User : ActiveAdmin(u)
  OBVIOUS
<1> HIDE DEF S
<1>4. Cardinality(S) >= 1 <=> S # {}
  BY <1>2
<1>5. QED
  BY <1>1, <1>2, <1>3, <1>4 DEF CountActiveAdmins, S

LEMMA AnotherAdmin ==
    ASSUME NEW u \in User, ActiveAdmin(u), ~(CountActiveAdmins <= 1)
    PROVE  \E a \in User \ {u} : ActiveAdmin(a)
<1> DEFINE S == {a \in User : ActiveAdmin(a)}
<1>1. SUFFICES ASSUME ~\E a \in User \ {u} : ActiveAdmin(a)
               PROVE  FALSE
  OBVIOUS
<1>2. S = {u}
  BY <1>1
<1>3. Cardinality(S) = 1
  BY <1>2, FS_Singleton
<1>4. QED
  BY <1>3 DEF CountActiveAdmins

\* Once there is an administrator of any status there always is: the last
\* active one is not taken away.
LEMMA AdminsStay ==
    ASSUME TypeOK, OriginInv, AdminInv, NEW q \in Request, Wrote(q), HasAdmin
    PROVE  HasAdmin' /\ (\E a \in User : ActiveAdmin(a))'
<1> DEFINE t == request[q]
<1>1. /\ t.id \in User /\ t.at = "write" /\ t.op \in {"bootstrap", "create", "update"}
      /\ users'[t.id].status = t.row.status /\ users'[t.id].role = t.row.role
      /\ \A u \in User \ {t.id} : users'[u] = users[u]
      /\ t.op # "update" => ~Exists(t.id)
  BY WroteRow, RowTypes, Zenon DEF Wrote, NewRow
<1>2. PICK a \in User : ActiveAdmin(a)
  BY DEF AdminInv
<1>3. \E b \in User : ActiveAdmin(b)'
  <2>1. CASE a # t.id
    BY <1>1, <1>2, <2>1, Zenon DEF ActiveAdmin
  <2>2. CASE a = t.id /\ t.row.role = "admin" /\ t.row.status = "active"
    BY <1>1, <2>2, Zenon DEF ActiveAdmin
  <2>3. CASE a = t.id /\ ~(t.row.role = "admin" /\ t.row.status = "active")
    <3>1. t.op = "update" /\ Demotes(t)
      BY <1>1, <1>2, <2>3, UserTypes, Zenon DEF Demotes
    <3>2. PICK b \in User \ {t.id} : ActiveAdmin(b)
      BY <1>1, <3>1, Zenon DEF AdminInv, Holding
    <3>3. QED
      BY <1>1, <3>2, Zenon DEF ActiveAdmin
  <2>4. QED
    BY <2>1, <2>2, <2>3
<1>4. QED
  BY <1>3 DEF HasAdmin, ActiveAdmin, Exists

\* What AdminInv says of one transaction.
Entitled(t) ==
    /\ t.op = "bootstrap" /\ t.at # "lockAdmin" => ~HasAdmin
    /\ t.op = "create" /\ t.row.role = "admin" => HasAdmin
    /\ t.op = "update" => HasAdmin
    /\ t.op = "update" /\ t.at \in Holding /\ Demotes(t) =>
         \E a \in User \ {t.id} : ActiveAdmin(a)

LEMMA AdminInvIs ==
    AdminInv <=> /\ HasAdmin => \E a \in User : ActiveAdmin(a)
                 /\ bootstrapped <= 1
                 /\ bootstrapped # 0 => HasAdmin
                 /\ \A q \in Request : request[q].at # "idle" => Entitled(request[q])
BY DEF AdminInv, Entitled

LEMMA AdminWrote ==
    ASSUME TypeOK, LockInv, OriginInv, AdminInv, NEW q \in Request, Wrote(q), OthersKept(q)
    PROVE  AdminInv'
<1> DEFINE t == request[q]
<1>1. /\ t \in Transaction /\ t.id \in User /\ t.at = "write"
      /\ t.op \in {"bootstrap", "create", "update"}
      /\ users'[t.id].status = t.row.status /\ users'[t.id].role = t.row.role
      /\ \A u \in User \ {t.id} : users'[u] = users[u]
      /\ t.op # "update" => NewRow(t)
      /\ bootstrapped' = bootstrapped + (IF t.op = "bootstrap" THEN 1 ELSE 0)
      /\ request'[q] = Idle /\ Idle.at = "idle" /\ bootstrapped \in Nat
  BY WroteRow, RowTypes, Zenon DEF Wrote, Idle, TypeOK
<1>2. Entitled(t) /\ (t.op # "create" => adminLock = q)
  BY <1>1, AdminInvIs, Zenon DEF LockInv, Locked
<1>3. HasAdmin => HasAdmin' /\ (\E a \in User : ActiveAdmin(a))'
  BY AdminsStay
<1>4. t.op = "bootstrap" => /\ bootstrapped = 0
                            /\ HasAdmin' /\ (\E a \in User : ActiveAdmin(a))'
  BY <1>1, <1>2, Zenon DEF AdminInv, Entitled, NewRow, HasAdmin, ActiveAdmin, Exists
<1>5. t.op # "bootstrap" /\ ~HasAdmin => t.op = "create" /\ ~HasAdmin'
  <2>1. SUFFICES ASSUME t.op # "bootstrap", ~HasAdmin
                 PROVE  t.op = "create" /\ ~HasAdmin'
    OBVIOUS
  <2>2. t.op = "create" /\ t.row.role # "admin"
    BY <1>1, <1>2, <2>1, Zenon DEF Entitled
  <2>3. ASSUME NEW u \in User PROVE ~(Exists(u) /\ users[u].role = "admin")'
    BY <1>1, <2>1, <2>2, Zenon DEF HasAdmin, Exists
  <2>4. QED
    BY <2>2, <2>3 DEF HasAdmin
<1>6. ASSUME NEW r \in Request, request'[r].at # "idle"
      PROVE  Entitled(request[r])'
  <2>1. PICK k \in Transaction : k = request[r] /\ k = request'[r] /\ r # q /\ k.at # "idle"
    BY <1>1, <1>6, InFlight DEF OthersKept
  <2>2. Entitled(k) /\ k.id \in User
    BY <2>1, AdminInvIs, RowTypes, Zenon
  <2>3. k.op # "create" /\ k.at # "lockAdmin" => t.op = "create"
    <3>1. k.op # "create" /\ k.at # "lockAdmin" => adminLock = r
      BY <2>1, Zenon DEF LockInv, Locked
    <3>2. QED
      BY <1>2, <2>1, <3>1, Zenon
  <2>4. k.op = "bootstrap" /\ k.at # "lockAdmin" => ~HasAdmin'
    BY <1>5, <2>2, <2>3 DEF Entitled
  <2>5. /\ k.op = "create" /\ k.row.role = "admin" => HasAdmin'
        /\ k.op = "update" => HasAdmin'
    BY <1>3, <2>2 DEF Entitled
  <2>6. ASSUME k.op = "update", k.at \in Holding, Demotes(k)'
        PROVE  \E a \in User \ {k.id} : ActiveAdmin(a)'
    <3>1. t.op = "create" /\ ~Exists(t.id)
      BY <1>1, <2>3, <2>6, Zenon DEF Holding, NewRow
    <3>2. t.id # k.id
      BY <1>1, <2>1, <3>1, Zenon DEF OriginInv
    <3>3. Demotes(k)
      BY <1>1, <2>2, <2>6, <3>2, Zenon DEF Demotes, ActiveAdmin
    <3>4. PICK a \in User \ {k.id} : ActiveAdmin(a)
      BY <2>2, <2>6, <3>3 DEF Entitled
    <3>5. a # t.id
      BY <3>1, <3>4, UserTypes
    <3>6. QED
      BY <1>1, <3>4, <3>5, Zenon DEF ActiveAdmin
  <2>7. QED
    BY <2>1, <2>4, <2>5, <2>6, Zenon DEF Entitled
<1>7. /\ HasAdmin' => (\E a \in User : ActiveAdmin(a))'
      /\ bootstrapped' <= 1
      /\ bootstrapped' # 0 => HasAdmin'
  <2>1. /\ HasAdmin => \E a \in User : ActiveAdmin(a)
        /\ bootstrapped <= 1 /\ (bootstrapped # 0 => HasAdmin)
    BY DEF AdminInv
  <2>2. /\ bootstrapped' = bootstrapped + (IF t.op = "bootstrap" THEN 1 ELSE 0)
        /\ bootstrapped \in Nat
    BY <1>1, Zenon
  <2>3. CASE t.op = "bootstrap"
    BY <1>4, <2>2, <2>3
  <2>4. CASE t.op # "bootstrap" /\ HasAdmin
    BY <1>3, <2>1, <2>2, <2>4
  <2>5. CASE t.op # "bootstrap" /\ ~HasAdmin
    BY <1>5, <2>1, <2>2, <2>5
  <2>6. QED
    BY <2>3, <2>4, <2>5
<1>8. QED
  BY <1>6, <1>7, Zenon DEF AdminInv, Entitled

LEMMA AdminStep ==
    ASSUME TypeOK, LockInv, OriginInv, AdminInv, NEW q \in Request, Begin(q) \/ Step(q)
    PROVE  AdminInv'
<1>0. OthersKept(q) /\ Idle.at = "idle"
  BY StepKeepsOthers DEF Idle
<1>1. CASE Wrote(q)
  BY <1>0, <1>1, AdminWrote
<1>2. CASE ~Wrote(q)
  <2>1. users' = users /\ bootstrapped' = bootstrapped
    BY <1>2, Forms, Zenon DEF Started, Moved, Ended
  <2>2. HasAdmin' = HasAdmin /\ \A u \in User : ActiveAdmin(u)' = ActiveAdmin(u)
    BY <2>1 DEF HasAdmin, ActiveAdmin, Exists
  <2>3. ASSUME NEW r \in Request, request'[r].at # "idle"
        PROVE  Entitled(request[r])'
    <3>1. CASE r # q
      <4>1. PICK k \in Transaction : k = request[r] /\ k = request'[r] /\ k.at # "idle"
        BY <1>0, <2>3, <3>1, InFlight DEF OthersKept
      <4>2. Entitled(k) /\ k.id \in User
        BY <4>1, AdminInvIs, RowTypes, Zenon
      <4>3. QED
        BY <2>2, <4>1, <4>2, Zenon DEF Entitled, Demotes
    <3>2. CASE r = q /\ Started(q)
      BY <2>2, <3>2, Zenon DEF Started, Entitled, Holding
    <3>3. CASE r = q /\ Moved(q)
      <4>1. PICK t \in Transaction, n \in Transaction : t = request[q] /\ n = request'[q]
        BY <3>3, Zenon DEF Moved
      <4>2. /\ n.op = t.op /\ n.id = t.id /\ n.row = t.row /\ t.id \in User
            /\ n.op = "bootstrap" /\ t.at = "lockAdmin" => ~HasAdmin
            /\ n.op = "update" /\ n.at \in Holding =>
                 t.at \in Holding \/ ~TakesLastAdmin(t.id, t.row)
            /\ Entitled(t)
        BY <3>3, <4>1, RowTypes, AdminInvIs, Zenon DEF Moved
      <4>3. n.op = "update" /\ n.at \in Holding /\ Demotes(t) =>
                \E a \in User \ {t.id} : ActiveAdmin(a)
        BY <4>2, AnotherAdmin DEF Entitled, TakesLastAdmin, Demotes
      <4>4. QED
        BY <2>2, <3>3, <4>1, <4>2, <4>3, Zenon DEF Entitled, Demotes
    <3>4. QED
      BY <1>0, <1>2, <2>3, <3>1, <3>2, <3>3, Forms DEF Ended
  <2>4. /\ HasAdmin' => (\E a \in User : ActiveAdmin(a))'
        /\ bootstrapped' <= 1
        /\ bootstrapped' # 0 => HasAdmin'
    BY <2>1, <2>2 DEF AdminInv
  <2>5. QED
    BY <2>3, <2>4, Zenon DEF AdminInv, Entitled
<1>3. QED
  BY <1>1, <1>2

-----------------------------------------------------------------------------
(* Theorems.                                                               *)

LEMMA AccountInit == Init => AccountInv
<1> SUFFICES ASSUME Init PROVE AccountInv
  OBVIOUS
<1>1. \A q \in Request : request[q] = Idle /\ request[q].at = "idle"
  BY DEF Init, Idle
<1>2. \A u \in User : users[u] = NoUser /\ ~Exists(u) /\ ~ActiveAdmin(u)
  BY DEF Init, NoUser, Exists, ActiveAdmin
<1>3. TypeOK
  BY DEF Init, TypeOK
<1>4. LockInv /\ OriginInv
  BY <1>1 DEF LockInv, OriginInv
<1>5. IdentifierInv
  BY <1>1, <1>2 DEF IdentifierInv, IdentifierNamesOneUser
<1>6. AdminInv
  BY <1>1, <1>2 DEF AdminInv, HasAdmin, Init
<1>7. QED
  BY <1>3, <1>4, <1>5, <1>6 DEF AccountInv

LEMMA AccountStep == AccountInv /\ [Next]_vars => AccountInv'
<1> SUFFICES ASSUME AccountInv, [Next]_vars PROVE AccountInv'
  OBVIOUS
<1>1. CASE Next
  <2>1. PICK q \in Request : Begin(q) \/ Step(q)
    BY <1>1 DEF Next
  <2>2. QED
    BY <2>1, TypeStep, LockStep, OriginStep, IdentifierStep, AdminStep DEF AccountInv
<1>2. CASE UNCHANGED vars
  <2>1. UNCHANGED <<users, adminLock, identifierLock, userLock, request, bootstrapped>>
    BY <1>2 DEF vars
  <2>2. TypeOK' /\ LockInv'
    BY <2>1, Zenon DEF AccountInv, TypeOK, LockInv, Locked
  <2>3. OriginInv'
    BY <2>1, Zenon DEF AccountInv, OriginInv, Copied, NewRow, Exists
  <2>4. IdentifierInv'
    BY <2>1 DEF AccountInv, IdentifierInv, IdentifierNamesOneUser, Taken, Exists
  <2>5. AdminInv'
    BY <2>1, Zenon DEF AccountInv, AdminInv, HasAdmin, ActiveAdmin, Exists, Demotes
  <2>6. QED
    BY <2>2, <2>3, <2>4, <2>5 DEF AccountInv
<1>3. QED
  BY <1>1, <1>2

\* The inductive invariant: what the transactions hold, where their rows come
\* from, whose identifiers they carry and what they are entitled to.
THEOREM AccountInvariant == Spec => []AccountInv
BY AccountInit, AccountStep, PTL DEF Spec

\* Whatever number of requests bootstrap, create, demote and disable, at most
\* one administrator is bootstrapped and an active one remains
\* (BootstrapAdmin, UpdateManagedUser).
THEOREM AnActiveAdminRemainsHolds == Spec => []AnActiveAdminRemains
<1>1. AccountInv => AnActiveAdminRemains
  <2>1. AccountInv => /\ TypeOK /\ bootstrapped <= 1
                      /\ HasAdmin => \E a \in User : ActiveAdmin(a)
    BY Zenon DEF AccountInv, AdminInv
  <2>2. QED
    BY <2>1, ActiveAdmins, Zenon DEF AnActiveAdminRemains
<1>2. QED
  BY <1>1, AccountInvariant, PTL

\* The advisory locks of lockAndCheckIdentifiers are enough: no two accounts
\* ever share a username or an address.
THEOREM IdentifierNamesOneUserHolds == Spec => []IdentifierNamesOneUser
<1>1. AccountInv => IdentifierNamesOneUser
  BY DEF AccountInv, IdentifierInv
<1>2. QED
  BY <1>1, AccountInvariant, PTL

\* An account that changes was committed by a transaction whose copy was good.
LEMMA ChangedByWrite ==
    ASSUME AccountInv, [Next]_vars, NEW u \in User, Exists(u), users'[u] # users[u]
    PROVE  \E q \in Request :
             /\ Wrote(q) /\ request[q].id = u /\ request[q].op = "update"
             /\ request[q].row = PrepareUpdate(users[u], request[q].patch)
             /\ request[q].revoke = (users[u].status # request[q].row.status
                                     \/ users[u].role # request[q].row.role)
<1>1. PICK q \in Request : Begin(q) \/ Step(q)
  BY DEF Next, vars
<1>2. TypeOK /\ LockInv /\ OriginInv
  BY DEF AccountInv
<1>3. Wrote(q) /\ request[q].id = u
  BY <1>1, <1>2, Forms, WroteRow, Zenon DEF Started, Moved, Ended
<1>4. request[q].op = "update" /\ Copied(request[q]) /\ users[u].version = request[q].row.version
  BY <1>2, <1>3, WroteRow, Zenon DEF NewRow
<1>5. QED
  BY <1>3, <1>4, Zenon DEF Copied

\* No update is lost: UpdateUser writes the whole row back, and only when the
\* copy it was prepared from is still the account.
THEOREM NoLostUpdateHolds == Spec => NoLostUpdate
<1>1. AccountInv /\ [Next]_vars => [WritesItsPatch]_vars
  <2>1. SUFFICES ASSUME AccountInv, [Next]_vars, NEW u \in User, Exists(u), users'[u] # users[u]
                 PROVE  \E q \in Request :
                          /\ request[q].at = "write" /\ request[q].id = u
                          /\ users'[u] = [PrepareUpdate(users[u], request[q].patch)
                                             EXCEPT !.version = users[u].version + 1]
    BY Zenon DEF WritesItsPatch
  <2>2. PICK q \in Request :
             /\ Wrote(q) /\ request[q].id = u /\ request[q].op = "update"
             /\ request[q].row = PrepareUpdate(users[u], request[q].patch)
    BY <2>1, ChangedByWrite, SMTT(30)
  <2>3. users'[u] = Committed(request[q])
    BY <2>1, <2>2 DEF Wrote, AccountInv, TypeOK
  <2>4. QED
    BY <2>2, <2>3, Zenon DEF Committed, Wrote
<1>2. QED
  BY <1>1, AccountInvariant, PTL DEF Spec, NoLostUpdate

\* Every committed change of a role or a status carries the decision to end
\* the sessions (admin.UpdateUser decides it from its unlocked copy).
THEOREM ChangeEndsSessionsHolds == Spec => ChangeEndsSessions
<1>1. AccountInv /\ [Next]_vars => [RevokesWithIt]_vars
  <2>1. SUFFICES ASSUME AccountInv, [Next]_vars, NEW u \in User, Exists(u),
                        users'[u].role # users[u].role \/ users'[u].status # users[u].status
                 PROVE  \E q \in Request :
                          request[q].at = "write" /\ request[q].id = u /\ request[q].revoke
    BY DEF RevokesWithIt
  <2>2. PICK q \in Request :
             /\ Wrote(q) /\ request[q].id = u /\ request[q].op = "update"
             /\ request[q].revoke = (users[u].status # request[q].row.status
                                     \/ users[u].role # request[q].row.role)
    BY <2>1, ChangedByWrite, Zenon
  <2>3. users'[u].status = request[q].row.status /\ users'[u].role = request[q].row.role
    BY <2>1, <2>2, WroteRow, Zenon DEF AccountInv
  <2>4. QED
    BY <2>1, <2>2, <2>3, Zenon DEF Wrote
<1>2. QED
  BY <1>1, AccountInvariant, PTL DEF Spec, ChangeEndsSessions
=============================================================================
