---------------------------- MODULE RowLockProofs ----------------------------
(***************************************************************************)
(* Proofs about SessionIsolation and ClientRegistry, for any number of      *)
(* users, sessions, clients, secrets and concurrent requests.  Both are     *)
(* about transactions whose statements interleave, and both rest on what    *)
(* row locks keep others from doing.                                        *)
(*                                                                          *)
(* Sessions.  Who is past the user lock (a login, a disabling) is the only  *)
(* one to change that user's status or to add a session of theirs; who is   *)
(* past the lock of a session row is the only one to change that row.  So   *)
(* what a transaction read under its locks is still true when it commits.   *)
(*                                                                          *)
(* Clients.  Who is past the lock of a client row is the only one to change *)
(* its secrets.  A patch is prepared under no lock: it is written only if   *)
(* the version it was prepared from is still the row's, and then it says of *)
(* every field it does not set what the row says.  An authentication reads  *)
(* under no lock at all: what it found is true still, or a rotation or a    *)
(* patch has committed since, and watch has seen it.                        *)
(***************************************************************************)
EXTENDS SessionIsolation, ClientRegistry, FiniteSetTheorems, WellFoundedInduction, TLAPS

-----------------------------------------------------------------------------
(* SessionIsolation: the transactions and the invariant.                   *)

LoginTxn == [at : {"lockUser", "lockOld", "insert"}, op : {"login"}, user : User,
             old : Session \cup {None}, new : Session, binding : Session]
RevokeTxn == [at : {"lockUser", "select", "lockRows"}, op : Revocation, user : User,
              current : Session \cup {None}, todo : SUBSET Session,
              rows : SUBSET Session, before : SUBSET Session]
OneTxn == [at : {"lockTarget"}, op : {"revokeOne"}, user : User, target : Session]
Resting == {[at |-> "idle"], [at |-> "done"]}
Txns == LoginTxn \cup RevokeTxn \cup OneTxn \cup Resting

Logging(t) == t.at \in {"lockUser", "lockOld", "insert"} /\ t.op = "login"
Disabling(t) == t.at \in {"lockUser", "select", "lockRows"} /\ t.op = "disable"
HoldsUser(t) == t.at # "lockUser" /\ (Logging(t) \/ Disabling(t))

\* What a login in flight knows: its row is not there yet, the row it replaces
\* is, its user is locked and active, and the binding it will give the new row
\* is what the locked old row says.
Inherits(t) == t.old # None /\ Live(t.old) /\ sessions[t.old].user = t.user

LoginSound(t) ==
    Logging(t) =>
        /\ sessions[t.new].state = "none"
        /\ t.old # None => sessions[t.old].state # "none"
        /\ t.at # "lockUser" => status[t.user] = "active"
        /\ t.at = "lockOld" => t.old # None
        /\ t.binding = IF t.at = "insert" /\ Inherits(t)
                       THEN sessions[t.old].binding ELSE t.new

\* What a revocation in flight knows: the rows it locked exist, and when it
\* disables a user it has seen all of that user's sessions.
RevokeSound(t) ==
    /\ t.at = "select" => t.rows = {}
    /\ t.at = "lockRows" => \A s \in t.rows : sessions[s].state # "none"
    /\ Disabling(t) => /\ t.current = None
                       /\ t.at = "lockUser" => t.rows = {}
                       /\ t.at = "lockRows" => UnrevokedSessions(t.user) \subseteq t.rows \cup t.todo

\* Who is past which lock holds it.
LocksSound(p) ==
    LET t == process[p] IN
    /\ HoldsUser(t) => userLock[t.user] = p
    /\ t.at = "insert" /\ t.old # None => sessionLock[t.old] = p
    /\ t.at = "lockRows" => \A s \in t.rows : sessionLock[s] = p

ProcessSound(p) == LoginSound(process[p]) /\ RevokeSound(process[p]) /\ LocksSound(p)

\* Logins in flight have chosen different identifiers; only existing rows are
\* locked, and a binding is named after a row that exists.
Apart == \A p, q \in Process : p # q /\ Logging(process[p]) /\ Logging(process[q]) =>
             process[p].new # process[q].new
RowsSound ==
    \A s \in Session : /\ sessionLock[s] # None => sessions[s].state # "none"
                       /\ sessions[s].state # "none" => sessions[sessions[s].binding].state # "none"

IsolationInv ==
    /\ TypeOK /\ RowsSound /\ Apart
    /\ \A p \in Process : ProcessSound(p)
    /\ DisabledHasNothing /\ BindingInheritedOnce

-----------------------------------------------------------------------------
(* Rows and transactions.                                                  *)

Sessions == [Session -> SessionRow \cup {NoRow}]

\* The type invariant, with the transactions split by kind.
LEMMA TypeOf ==
    TypeOK <=> /\ status \in [User -> {"active", "disabled"}] /\ sessions \in Sessions
               /\ authority \subseteq Session
               /\ userLock \in [User -> Process \cup {None}]
               /\ sessionLock \in [Session -> Process \cup {None}]
               /\ process \in [Process -> Txns]
BY Zenon DEF TypeOK, Sessions, Txns, Transaction, LoginTxn, RevokeTxn, OneTxn, Resting

\* A row that exists has a user and a binding.
LEMMA SessionFacts ==
    ASSUME NEW table \in Sessions, NEW s \in Session
    PROVE  /\ table[s].state \in {"none", "live", "expired", "revoked"}
           /\ table[s].state # "none" =>
                /\ table[s] \in SessionRow /\ table[s].user \in User
                /\ table[s].binding \in Session
<1>1. table[s] \in SessionRow \cup {NoRow}
  BY Zenon DEF Sessions
<1>2. QED
  BY <1>1 DEF SessionRow, NoRow

\* The fields of a login in flight.
LEMMA LoginFacts ==
    ASSUME NEW t \in LoginTxn
    PROVE  /\ t.at \in {"lockUser", "lockOld", "insert"} /\ t.op = "login" /\ t.user \in User
           /\ t.old \in Session \cup {None} /\ t.new \in Session /\ t.binding \in Session
BY DEF LoginTxn

\* The fields of a revocation of several sessions in flight.
LEMMA RevokeFacts ==
    ASSUME NEW t \in RevokeTxn
    PROVE  /\ t.at \in {"lockUser", "select", "lockRows"} /\ t.op \in Revocation
           /\ t.op # "login" /\ t.user \in User /\ t.current \in Session \cup {None}
           /\ t.todo \subseteq Session /\ t.rows \subseteq Session /\ t.before \subseteq Session
BY DEF RevokeTxn, Revocation

\* The fields of a revocation of one session in flight.
LEMMA OneFacts ==
    ASSUME NEW t \in OneTxn
    PROVE  t.at = "lockTarget" /\ t.user \in User /\ t.target \in Session
BY DEF OneTxn

\* A process that has not begun, or has ended, has no other field.
LEMMA RestFacts ==
    /\ \A t \in Resting : t.at \in {"idle", "done"}
    /\ [at |-> "idle"] \in Resting /\ [at |-> "done"] \in Resting
BY DEF Resting

\* The next statement tells which kind of transaction it is.
LEMMA TxnFacts ==
    ASSUME NEW t \in Txns
    PROVE  /\ Logging(t) => t \in LoginTxn
           /\ t.at \in {"lockOld", "insert"} => t \in LoginTxn /\ Logging(t) /\ ~Disabling(t)
           /\ t.at = "lockUser" => t \in LoginTxn \cup RevokeTxn
           /\ t.at \in {"select", "lockRows"} => t \in RevokeTxn /\ ~Logging(t)
           /\ Disabling(t) => t \in RevokeTxn /\ ~Logging(t)
           /\ t.at = "lockTarget" => t \in OneTxn
<1>1. CASE t \in LoginTxn
  BY <1>1, LoginFacts, Zenon DEF Logging, Disabling
<1>2. CASE t \in RevokeTxn
  BY <1>2, RevokeFacts, Zenon DEF Logging, Disabling
<1>3. CASE t \in OneTxn
  BY <1>3, OneFacts, Zenon DEF Logging, Disabling
<1>4. CASE t \in Resting
  BY <1>4, RestFacts, Zenon DEF Logging, Disabling
<1>5. QED
  BY <1>1, <1>2, <1>3, <1>4, Zenon DEF Txns

\* A process that has not begun, or has ended, holds nothing.
LEMMA RestSound ==
    ASSUME NEW t \in Resting
    PROVE  /\ t \in Txns /\ ~Logging(t) /\ ~Disabling(t) /\ ~HoldsUser(t)
           /\ t.at \notin {"lockUser", "lockOld", "insert", "select", "lockRows", "lockTarget"}
<1>1. t.at \in {"idle", "done"}
  BY RestFacts, Zenon
<1>2. QED
  BY <1>1, Zenon DEF Txns, Logging, Disabling, HoldsUser

\* The least row is one of the rows.
LEMMA NextIsOne ==
    ASSUME NEW p, NEW todo \in SUBSET Session, todo # {}
    PROVE  NextToLock(p, todo) \in todo
<1>1. todo \subseteq Nat
  BY SessionAssumption
<1>2. PICK x \in todo : \A y \in todo : ~(<<y, x>> \in OpToRel(<, Nat))
  BY <1>1, WFMin, NatLessThanWellFounded, Zenon
<1>3. \A y \in todo : x <= y
  <2>1. ASSUME NEW y \in todo, ~(x <= y) PROVE FALSE
    <3>1. x \in Nat /\ y \in Nat /\ y < x
      BY <1>1, <2>1
    <3>2. <<y, x>> \in OpToRel(<, Nat)
      BY <3>1, Zenon DEF OpToRel
    <3>3. QED
      BY <1>2, <3>2, Zenon
  <2>2. QED
    BY <2>1
<1>4. QED
  BY <1>3 DEF NextToLock

-----------------------------------------------------------------------------
(* What a step of p leaves to the others.                                  *)

SessionsSteady ==
    /\ sessions' \in Sessions
    /\ \A s \in Session : sessions[s].state # "none" =>
           /\ sessions'[s].state # "none"
           /\ sessions'[s].user = sessions[s].user /\ sessions'[s].binding = sessions[s].binding
           /\ sessions'[s].state \in {sessions[s].state, "revoked"}

\* p changes only rows that nobody else has locked, and only the user it has
\* locked gets another status or another session.
Acts(p) ==
    /\ \A q \in Process \ {p} : process'[q] = process[q]
    /\ \A q \in Process \ {p}, u \in User : userLock[u] = q => userLock'[u] = q
    /\ \A q \in Process \ {p}, s \in Session : sessionLock[s] = q => sessionLock'[s] = q
    /\ \A u \in User : userLock[u] # p => status'[u] = status[u]
    /\ SessionsSteady
    /\ \A q \in Process \ {p}, s \in Session : sessionLock[s] = q => sessions'[s] = sessions[s]
    /\ \A s \in Session : sessions[s].state = "none" /\ sessions'[s].state # "none" =>
           /\ process[p].at = "insert" /\ s = process[p].new
           /\ sessions'[s].user = process[p].user

\* Only a login of the user adds to the sessions they have.
LEMMA FewerUnrevoked ==
    ASSUME TypeOK, NEW p \in Process, Acts(p), NEW u \in User,
           process[p].at = "insert" => process[p].user # u
    PROVE  UnrevokedSessions(u)' \subseteq UnrevokedSessions(u)
<1>1. SUFFICES ASSUME NEW s \in Session, sessions'[s].state \in {"live", "expired"},
                      sessions'[s].user = u
               PROVE  sessions[s].state \in {"live", "expired"} /\ sessions[s].user = u
  BY Zenon DEF UnrevokedSessions, Unrevoked
<1>2. sessions[s].state # "none"
  BY <1>1, Zenon DEF Acts
<1>3. /\ sessions'[s].user = sessions[s].user
      /\ sessions'[s].state \in {sessions[s].state, "revoked"}
  BY <1>2, Zenon DEF Acts, SessionsSteady
<1>4. QED
  BY <1>1, <1>3, Zenon

\* What a transaction knows under its locks survives every step of another.
LEMMA OthersKeep ==
    ASSUME IsolationInv, NEW p \in Process, Acts(p), NEW q \in Process, q # p
    PROVE  ProcessSound(q)'
<1>1. PICK t : t = process[q]
  BY Zenon
<1>2. /\ process'[q] = t /\ t \in Txns /\ TypeOK
      /\ LoginSound(t) /\ RevokeSound(t) /\ LocksSound(q) /\ LocksSound(p)
  BY <1>1, TypeOf, Zenon DEF IsolationInv, Acts, ProcessSound
<1>3. LocksSound(q)'
  <2>1. HoldsUser(t) => t.user \in User
    BY <1>2, TxnFacts, LoginFacts, RevokeFacts, Zenon DEF HoldsUser
  <2>2. t.at = "insert" /\ t.old # None => t.old \in Session
    BY <1>2, TxnFacts, LoginFacts, Zenon
  <2>3. t.at = "lockRows" => t.rows \subseteq Session
    BY <1>2, TxnFacts, RevokeFacts, Zenon
  <2>4. /\ HoldsUser(t) => userLock[t.user] = q
        /\ t.at = "insert" /\ t.old # None => sessionLock[t.old] = q
        /\ t.at = "lockRows" => \A s \in t.rows : sessionLock[s] = q
    BY <1>1, <1>2, Zenon DEF LocksSound
  <2>5. /\ HoldsUser(t) => userLock'[t.user] = q
        /\ t.at = "insert" /\ t.old # None => sessionLock'[t.old] = q
        /\ t.at = "lockRows" => \A s \in t.rows : sessionLock'[s] = q
    BY <2>1, <2>2, <2>3, <2>4, ZenonT(40) DEF Acts
  <2>6. QED
    BY <1>2, <2>5, Zenon DEF LocksSound
<1>4. ASSUME HoldsUser(t)
      PROVE  /\ t.user \in User /\ userLock[t.user] # p /\ status'[t.user] = status[t.user]
             /\ process[p].at = "insert" => process[p].user # t.user
  <2>1. t.user \in User
    BY <1>2, <1>4, TxnFacts, LoginFacts, RevokeFacts, Zenon DEF HoldsUser
  <2>2. userLock[t.user] = q
    BY <1>1, <1>2, <1>4, Zenon DEF LocksSound
  <2>3. process[p].at = "insert" => HoldsUser(process[p])
    <3>1. process[p] \in Txns
      BY <1>2, TypeOf, Zenon
    <3>2. QED
      BY <3>1, TxnFacts, Zenon DEF HoldsUser
  <2>4. process[p].at = "insert" => userLock[process[p].user] = p
    BY <1>2, <2>3, Zenon DEF LocksSound
  <2>5. QED
    BY <2>1, <2>2, <2>4, Zenon DEF Acts
<1>5. LoginSound(t)'
  <2>1. SUFFICES ASSUME Logging(t)
                 PROVE  /\ sessions'[t.new].state = "none"
                        /\ t.old # None => sessions'[t.old].state # "none"
                        /\ t.at # "lockUser" => status'[t.user] = "active"
                        /\ t.at = "lockOld" => t.old # None
                        /\ t.binding = IF t.at = "insert" /\ Inherits(t)'
                                       THEN sessions'[t.old].binding ELSE t.new
    BY Zenon DEF LoginSound, Logging
  <2>2. t \in LoginTxn /\ t.new \in Session /\ t.old \in Session \cup {None}
    BY <1>2, <2>1, TxnFacts, LoginFacts, Zenon
  <2>3. /\ sessions[t.new].state = "none"
        /\ t.old # None => sessions[t.old].state # "none"
        /\ t.at # "lockUser" => status[t.user] = "active"
        /\ t.at = "lockOld" => t.old # None
        /\ t.binding = IF t.at = "insert" /\ Inherits(t) THEN sessions[t.old].binding ELSE t.new
    BY <1>2, <2>1, Zenon DEF LoginSound
  <2>4. sessions'[t.new].state = "none"
    <3>1. process[p].at = "insert" => process[p].new # t.new
      <4>1. process[p].at = "insert" => Logging(process[p])
        BY <1>2, TypeOf, TxnFacts, Zenon
      <4>2. QED
        BY <1>1, <2>1, <4>1, Zenon DEF IsolationInv, Apart
    <3>2. QED
      BY <2>2, <2>3, <3>1, Zenon DEF Acts
  <2>5. t.old # None => sessions'[t.old].state # "none"
    BY <2>2, <2>3, Zenon DEF Acts, SessionsSteady
  <2>6. t.at # "lockUser" => status'[t.user] = "active"
    BY <1>4, <2>1, <2>3, Zenon DEF HoldsUser
  <2>7. t.at = "insert" /\ t.old # None => sessions'[t.old] = sessions[t.old]
    <3>1. t.at = "insert" /\ t.old # None => sessionLock[t.old] = q
      BY <1>1, <1>2, Zenon DEF LocksSound
    <3>2. \A s \in Session : sessionLock[s] = q => sessions'[s] = sessions[s]
      BY Zenon DEF Acts
    <3>3. QED
      BY <2>2, <3>1, <3>2, Zenon
  <2>8. t.at = "insert" => (Inherits(t)' <=> Inherits(t))
    BY <2>7, Zenon DEF Inherits, Live
  <2>9. t.at = "insert" /\ Inherits(t) => sessions'[t.old].binding = sessions[t.old].binding
    BY <2>7, Zenon DEF Inherits
  <2>10. QED
    BY <2>3, <2>4, <2>5, <2>6, <2>8, <2>9, Zenon
<1>6. RevokeSound(t)'
  <2>1. t.at = "lockRows" => \A s \in t.rows : sessions'[s].state # "none"
    <3>1. t.at = "lockRows" => t.rows \subseteq Session
      BY <1>2, TxnFacts, RevokeFacts, Zenon
    <3>2. QED
      BY <1>2, <3>1, Zenon DEF RevokeSound, Acts, SessionsSteady
  <2>2. ASSUME Disabling(t), t.at = "lockRows"
        PROVE  UnrevokedSessions(t.user)' \subseteq t.rows \cup t.todo
    <3>1. HoldsUser(t) /\ UnrevokedSessions(t.user) \subseteq t.rows \cup t.todo
      BY <1>2, <2>2, Zenon DEF HoldsUser, RevokeSound
    <3>2. UnrevokedSessions(t.user)' \subseteq UnrevokedSessions(t.user)
      BY <1>2, <1>4, <3>1, FewerUnrevoked, Zenon
    <3>3. QED
      BY <3>1, <3>2, Zenon
  <2>3. /\ t.at = "select" => t.rows = {}
        /\ Disabling(t) => t.current = None /\ (t.at = "lockUser" => t.rows = {})
    BY <1>2, Zenon DEF RevokeSound
  <2>4. QED
    BY <2>1, <2>2, <2>3, Zenon DEF RevokeSound, Disabling
<1>7. QED
  BY <1>2, <1>3, <1>5, <1>6, Zenon DEF ProcessSound

-----------------------------------------------------------------------------
(* The steps.                                                              *)

\* p's transaction moves on, with no effect on the rows of any table.
Goes(p, t) ==
    /\ t \in Txns /\ process' = [process EXCEPT ![p] = t]
    /\ UNCHANGED <<status, sessions, authority>>

\* A lock that is free is taken, or none is.
Takes(p, locks, new) ==
    \/ new = locks
    \/ \E x \in DOMAIN locks : locks[x] = None /\ new = [locks EXCEPT ![x] = p]

\* Only p's transaction changes.
LEMMA Becomes ==
    ASSUME TypeOK, NEW p \in Process, NEW t \in Txns, process' = [process EXCEPT ![p] = t]
    PROVE  /\ process' \in [Process -> Txns] /\ process'[p] = t
           /\ \A q \in Process \ {p} : process'[q] = process[q]
BY TypeOf, Zenon

\* Taking a free lock takes none from anybody.
LEMMA LockTaken ==
    ASSUME NEW S, NEW locks \in [S -> Process \cup {None}], NEW p \in Process, NEW new,
           Takes(p, locks, new)
    PROVE  /\ new \in [S -> Process \cup {None}]
           /\ \A q \in Process, x \in S : locks[x] = q => new[x] = q
<1>1. None \notin Process
  BY SessionAssumption, Zenon
<1>2. QED
  BY <1>1, Zenon DEF Takes

\* Giving up locks takes none from the others.
LEMMA LockFreed ==
    ASSUME NEW S, NEW locks \in [S -> Process \cup {None}], NEW p \in Process
    PROVE  /\ Unlock(p, locks) \in [S -> Process \cup {None}]
           /\ \A q \in Process \ {p}, x \in S : locks[x] = q => Unlock(p, locks)[x] = q
           /\ \A x \in S : Unlock(p, locks)[x] \in {locks[x], None}
<1>1. DOMAIN locks = S
  BY Zenon
<1>2. Unlock(p, locks) = [x \in S |-> IF locks[x] = p THEN None ELSE locks[x]]
  BY <1>1, Zenon DEF Unlock
<1>3. \A x \in S : Unlock(p, locks)[x] = IF locks[x] = p THEN None ELSE locks[x]
  BY <1>2, Zenon
<1>4. \A x \in S : locks[x] \in Process \cup {None}
  BY Zenon
<1>5. \A x \in S : Unlock(p, locks)[x] \in Process \cup {None}
  BY <1>3, <1>4, Zenon
<1>6. QED
  BY <1>2, <1>3, <1>5, Zenon

\* Rows that do not change are steady.
LEMMA Same ==
    ASSUME TypeOK, sessions' = sessions
    PROVE  SessionsSteady
BY TypeOf, Zenon DEF SessionsSteady

\* A step that writes nothing yet.
LEMMA QuietStep ==
    ASSUME TypeOK, NEW p \in Process, NEW t, Goes(p, t),
           Takes(p, userLock, userLock'), Takes(p, sessionLock, sessionLock')
    PROVE  TypeOK' /\ Acts(p)
<1>1. /\ process' \in [Process -> Txns]
      /\ \A q \in Process \ {p} : process'[q] = process[q]
  BY Becomes, Zenon DEF Goes
<1>2. userLock \in [User -> Process \cup {None}] /\ sessionLock \in [Session -> Process \cup {None}]
  BY TypeOf, Zenon
<1>3. /\ userLock' \in [User -> Process \cup {None}]
      /\ \A q \in Process, u \in User : userLock[u] = q => userLock'[u] = q
  BY <1>2, LockTaken, ZenonT(40)
<1>4. /\ sessionLock' \in [Session -> Process \cup {None}]
      /\ \A q \in Process, s \in Session : sessionLock[s] = q => sessionLock'[s] = q
  BY <1>2, LockTaken, ZenonT(40)
<1>5. TypeOK'
  <2>1. /\ process' \in [Process -> Transaction \cup {[at |-> "idle"], [at |-> "done"]}]
    BY <1>1, Zenon DEF Txns, Transaction, LoginTxn, RevokeTxn, OneTxn, Resting
  <2>2. QED
    BY <1>3, <1>4, <2>1, Zenon DEF TypeOK, Goes
<1>6. sessions' = sessions /\ status' = status
  BY Zenon DEF Goes
<1>7. SessionsSteady
  BY <1>6, Same, Zenon
<1>8. QED
  BY <1>1, <1>3, <1>4, <1>5, <1>6, <1>7, Zenon DEF Acts

\* Nothing that is said of the rows alone changes.
LEMMA QuietRows ==
    ASSUME IsolationInv, NEW p \in Process, NEW t, Goes(p, t)
    PROVE  /\ TypeOK' => DisabledHasNothing'
           /\ BindingInheritedOnce'
<1>1. sessions' = sessions /\ status' = status /\ authority' = authority
  BY Zenon DEF Goes
<1>2. TypeOK' => DisabledHasNothing'
  BY <1>1, ZenonT(40) DEF IsolationInv, DisabledHasNothing, UnrevokedSessions, Unrevoked
<1>3. BindingInheritedOnce'
  BY <1>1, Zenon DEF IsolationInv, BindingInheritedOnce, Unrevoked
<1>4. QED
  BY <1>2, <1>3, Zenon

\* Logins in flight stay apart when p's is none, or has the identifier it had.
LEMMA StayApart ==
    ASSUME IsolationInv, NEW p \in Process, NEW t, process'[p] = t,
           \A q \in Process \ {p} : process'[q] = process[q],
           Logging(t) => \A q \in Process \ {p} : Logging(process[q]) => process[q].new # t.new
    PROVE  Apart'
<1>1. ASSUME NEW x \in Process, NEW y \in Process, x # y,
             Logging(process'[x]), Logging(process'[y])
      PROVE  process'[x].new # process'[y].new
  <2>1. CASE x = p
    BY <1>1, <2>1, Zenon
  <2>2. CASE y = p
    BY <1>1, <2>2, Zenon
  <2>3. CASE x # p /\ y # p
    <3>1. process'[x] = process[x] /\ process'[y] = process[y]
      BY <2>3, Zenon
    <3>2. QED
      BY <1>1, <3>1, Zenon DEF IsolationInv, Apart
  <2>4. QED
    BY <2>1, <2>2, <2>3, Zenon
<1>2. QED
  BY <1>1, Zenon DEF Apart, Logging

\* What remains to be shown of a step of p that writes nothing.
LEMMA QuietPreserves ==
    ASSUME IsolationInv, NEW p \in Process, NEW t, Goes(p, t),
           Takes(p, userLock, userLock'), Takes(p, sessionLock, sessionLock'),
           \A s \in Session : sessionLock'[s] # sessionLock[s] => sessions[s].state # "none",
           Logging(t) => \A q \in Process \ {p} : Logging(process[q]) => process[q].new # t.new,
           LoginSound(t), RevokeSound(t), LocksSound(p)'
    PROVE  IsolationInv'
<1>1. TypeOK' /\ Acts(p)
  BY QuietStep, Zenon DEF IsolationInv
<1>2. process'[p] = t /\ \A q \in Process \ {p} : process'[q] = process[q]
  BY Becomes, Zenon DEF Goes, IsolationInv
<1>3. Apart'
  BY <1>2, StayApart, Zenon
<1>4. sessions' = sessions /\ status' = status
  BY Zenon DEF Goes
<1>5. LoginSound(t)' /\ RevokeSound(t)'
  BY <1>4, Zenon DEF LoginSound, RevokeSound, Logging, Disabling, Inherits, Live,
                     UnrevokedSessions, Unrevoked
<1>6. ProcessSound(p)'
  BY <1>2, <1>5, Zenon DEF ProcessSound
<1>7. RowsSound'
  BY <1>4, Zenon DEF IsolationInv, RowsSound
<1>8. \A q \in Process : ProcessSound(q)'
  BY <1>1, <1>6, OthersKeep, Zenon
<1>9. QED
  BY <1>1, <1>3, <1>7, <1>8, QuietRows, Zenon DEF IsolationInv

-----------------------------------------------------------------------------
(* The steps that write nothing yet, one by one.                           *)

\* A transaction that has just begun has taken no lock and seen no row.
LEMMA BeginLoginStep ==
    ASSUME IsolationInv, NEW p \in Process, NEW u \in User, NEW old \in Session \cup {None},
           NEW new \in Session, BeginLogin(p, u, old, new)
    PROVE  IsolationInv'
<1> DEFINE t == [at |-> "lockUser", op |-> "login", user |-> u, old |-> old, new |-> new,
                 binding |-> new]
<1>1. t \in LoginTxn
  BY DEF LoginTxn
<1>2. /\ t.at = "lockUser" /\ t.op = "login" /\ t.old = old /\ t.new = new /\ t.binding = new
  OBVIOUS
<1>3. Goes(p, t) /\ userLock' = userLock /\ sessionLock' = sessionLock
  BY <1>1, Zenon DEF BeginLogin, Goes, Txns
<1>4. /\ sessions[new].state = "none"
      /\ old # None => sessions[old].state # "none"
      /\ new \notin Reserved
  BY Zenon DEF BeginLogin
<1>5. process'[p] = t
  BY <1>3, Becomes, Zenon DEF Goes, IsolationInv
<1> HIDE DEF t
<1>6. LoginSound(t) /\ RevokeSound(t) /\ LocksSound(p)'
  <2>1. t.at \notin {"lockOld", "insert", "select", "lockRows"} /\ ~Disabling(t)
        /\ ~HoldsUser(t)
    BY <1>2, Zenon DEF Disabling, HoldsUser
  <2>2. LoginSound(t)
    BY <1>2, <1>4, <2>1, Zenon DEF LoginSound
  <2>3. QED
    BY <1>5, <2>1, <2>2, Zenon DEF RevokeSound, LocksSound
<1>7. \A q \in Process \ {p} : Logging(process[q]) => process[q].new # t.new
  BY <1>2, <1>4, Zenon DEF Reserved, Logging
<1>8. QED
  BY <1>3, <1>6, <1>7, QuietPreserves, Zenon DEF Takes

\* A revocation begins with no rows.
LEMMA BeginRevocationStep ==
    ASSUME IsolationInv, NEW p \in Process, NEW op \in Revocation, NEW u \in User,
           NEW current \in Session \cup {None}, BeginRevocation(p, op, u, current)
    PROVE  IsolationInv'
<1> DEFINE at == IF op = "disable" THEN "lockUser" ELSE "select"
           seen == Bindings(UnrevokedSessions(u))
           t == [at |-> at, op |-> op, user |-> u, current |-> current, todo |-> {},
                 rows |-> {}, before |-> seen]
<1>1. seen \subseteq Session
  <2>1. \A s \in UnrevokedSessions(u) : s \in Session /\ sessions[s].state # "none"
    BY Zenon DEF UnrevokedSessions, Unrevoked
  <2>2. QED
    BY <2>1, TypeOf, SessionFacts, Zenon DEF Bindings, IsolationInv
<1>2. /\ at \in {"lockUser", "select"} /\ at # "lockRows" /\ at # "insert"
      /\ op \in {"disable", "revokeAll", "revokeOthers"} /\ op # "login"
      /\ op = "disable" => at = "lockUser"
  BY Zenon DEF Revocation
<1>3. op = "disable" => current = None
  BY <1>2, Zenon DEF BeginRevocation
<1>4. Goes(p, t) /\ userLock' = userLock /\ sessionLock' = sessionLock
  <2>1. process' = [process EXCEPT ![p] = t] /\ UNCHANGED <<status, sessions, authority>>
        /\ userLock' = userLock /\ sessionLock' = sessionLock
    BY Zenon DEF BeginRevocation
  <2> HIDE DEF at, seen
  <2>2. at \in {"lockUser", "select", "lockRows"} /\ {} \in SUBSET Session
        /\ seen \in SUBSET Session
    BY <1>1, <1>2, Zenon
  <2>3. t \in RevokeTxn
    BY <2>2, Zenon DEF RevokeTxn
  <2> HIDE DEF t
  <2>4. QED
    BY <2>1, <2>3, Zenon DEF Goes, Txns
<1> HIDE DEF at, seen
<1>5. t.at = at /\ t.op = op /\ t.current = current /\ t.rows = {}
  OBVIOUS
<1> HIDE DEF t
<1>6. process'[p] = t
  BY <1>4, Becomes, Zenon DEF Goes, IsolationInv
<1>7. ~Logging(t) /\ LoginSound(t) /\ RevokeSound(t) /\ LocksSound(p)'
  <2>1. /\ t.at # "lockRows" /\ t.at # "insert" /\ ~Logging(t)
        /\ Disabling(t) => t.at = "lockUser" /\ t.current = None
    BY <1>2, <1>3, <1>5, Zenon DEF Disabling, Logging
  <2>2. ~HoldsUser(t)
    BY <2>1, Zenon DEF HoldsUser
  <2>3. QED
    BY <1>5, <1>6, <2>1, <2>2, Zenon DEF LoginSound, RevokeSound, LocksSound
<1>8. QED
  BY <1>4, <1>7, QuietPreserves, Zenon DEF Takes

\* The revocation of one session begins.
LEMMA BeginRevokeOneStep ==
    ASSUME IsolationInv, NEW p \in Process, NEW u \in User, NEW target \in Session,
           BeginRevokeOne(p, u, target)
    PROVE  IsolationInv'
<1> DEFINE t == [at |-> "lockTarget", op |-> "revokeOne", user |-> u, target |-> target]
<1>1. t \in OneTxn /\ t.at = "lockTarget"
  BY DEF OneTxn
<1>2. Goes(p, t) /\ userLock' = userLock /\ sessionLock' = sessionLock
  BY <1>1, Zenon DEF BeginRevokeOne, Goes, Txns
<1>3. process'[p] = t
  BY <1>2, Becomes, Zenon DEF Goes, IsolationInv
<1> HIDE DEF t
<1>4. ~Logging(t) /\ LoginSound(t) /\ RevokeSound(t) /\ LocksSound(p)'
  BY <1>1, <1>3, Zenon DEF LoginSound, RevokeSound, LocksSound, HoldsUser, Disabling, Logging
<1>5. QED
  BY <1>2, <1>4, QuietPreserves, Zenon DEF Takes

\* Nothing has to be known of a transaction that is over.
LEMMA OverSound ==
    ASSUME NEW p \in Process, NEW t \in Resting, process'[p] = t
    PROVE  ~Logging(t) /\ LoginSound(t) /\ RevokeSound(t) /\ LocksSound(p)'
BY RestSound, Zenon DEF LoginSound, RevokeSound, LocksSound

\* LockUserByID in CommitLogin: the user is active while the lock is held.
LEMMA LoginLockUserStep ==
    ASSUME IsolationInv, NEW p \in Process, LoginLockUser(p)
    PROVE  IsolationInv'
<1>1. PICK t : t = process[p]
  BY Zenon
<1>2. /\ t.at = "lockUser" /\ t.op = "login" /\ userLock[t.user] = None /\ TypeOK
      /\ UNCHANGED <<status, sessions, authority>> /\ sessionLock' = sessionLock
  BY <1>1, Zenon DEF LoginLockUser, IsolationInv
<1>3. Logging(t) /\ LoginSound(t) /\ t \in Txns
  BY <1>1, <1>2, TypeOf, Zenon DEF IsolationInv, ProcessSound, Logging
<1>4. t \in LoginTxn /\ t.user \in User /\ t.old \in Session \cup {None} /\ t.new \in Session
  BY <1>3, TxnFacts, LoginFacts, Zenon
<1>5. CASE status[t.user] = "active"
  <2> DEFINE x == IF t.old = None THEN "insert" ELSE "lockOld"
             u == [t EXCEPT !.at = x]
  <2>1. process' = [process EXCEPT ![p] = u] /\ userLock' = [userLock EXCEPT ![t.user] = p]
    <3>1. process' = [process EXCEPT ![p].at = x] /\ userLock' = [userLock EXCEPT ![t.user] = p]
      BY <1>1, <1>5, Zenon DEF LoginLockUser
    <3>2. QED
      BY <1>1, <3>1, Zenon
  <2>2. x \in {"lockOld", "insert"} /\ (x = "insert" <=> t.old = None)
    BY Zenon
  <2> HIDE DEF x
  <2>3. /\ u \in LoginTxn /\ u.at = x /\ u.op = "login" /\ u.user = t.user /\ u.old = t.old
        /\ u.new = t.new /\ u.binding = t.binding
    BY <1>2, <1>4, <2>2 DEF LoginTxn
  <2> HIDE DEF u
  <2>4. Goes(p, u)
    BY <1>2, <2>1, <2>3, Zenon DEF Goes, Txns
  <2>5. process'[p] = u
    BY <1>2, <2>4, Becomes, Zenon DEF Goes
  <2>6. t.binding = t.new
    BY <1>2, <1>3, Zenon DEF LoginSound
  <2>7. LoginSound(u)
    <3>1. ~(u.at = "insert" /\ Inherits(u))
      BY <2>2, <2>3, Zenon DEF Inherits
    <3>2. QED
      BY <1>3, <1>5, <2>2, <2>3, <2>6, <3>1, Zenon DEF LoginSound
  <2>8. u.at # "lockRows" /\ u.at # "select" /\ ~Disabling(u)
    BY <2>2, <2>3, Zenon DEF Disabling
  <2>9. userLock'[t.user] = p /\ Takes(p, userLock, userLock')
    <3>1. userLock \in [User -> Process \cup {None}]
      BY <1>2, TypeOf, Zenon
    <3>2. QED
      BY <1>2, <1>4, <2>1, <3>1, Zenon DEF Takes
  <2>10. RevokeSound(u) /\ LocksSound(p)'
    BY <2>2, <2>3, <2>5, <2>8, <2>9, Zenon DEF RevokeSound, LocksSound
  <2>11. \A q \in Process \ {p} : Logging(process[q]) => process[q].new # u.new
    BY <1>1, <1>3, <2>3, Zenon DEF IsolationInv, Apart
  <2>12. QED
    BY <1>2, <2>4, <2>7, <2>9, <2>10, <2>11, QuietPreserves, Zenon DEF Takes
<1>6. CASE status[t.user] # "active"
  <2> DEFINE u == [at |-> "done"]
  <2>1. u \in Resting /\ process' = [process EXCEPT ![p] = u] /\ userLock' = userLock
    BY <1>1, <1>6, RestFacts, Zenon DEF LoginLockUser
  <2> HIDE DEF u
  <2>2. Goes(p, u)
    BY <1>2, <2>1, Zenon DEF Goes, Txns
  <2>3. process'[p] = u
    BY <1>2, <2>2, Becomes, Zenon DEF Goes
  <2>4. QED
    BY <1>2, <2>1, <2>2, <2>3, OverSound, QuietPreserves, Zenon DEF Takes
<1>7. QED
  BY <1>5, <1>6, Zenon

\* LockLoginSessionByTokenHash: the binding is what the locked row says.
LEMMA LoginLockOldStep ==
    ASSUME IsolationInv, NEW p \in Process, LoginLockOld(p)
    PROVE  IsolationInv'
<1>1. PICK t : t = process[p]
  BY Zenon
<1>2. /\ t.at = "lockOld" /\ sessionLock[t.old] = None /\ TypeOK
      /\ UNCHANGED <<status, sessions, authority>> /\ userLock' = userLock
      /\ sessionLock' = [sessionLock EXCEPT ![t.old] = p]
  BY <1>1, Zenon DEF LoginLockOld, IsolationInv
<1>3. Logging(t) /\ LoginSound(t) /\ LocksSound(p) /\ t \in LoginTxn
  BY <1>1, <1>2, TypeOf, TxnFacts, Zenon DEF IsolationInv, ProcessSound
<1>4. t.user \in User /\ t.old \in Session \cup {None} /\ t.new \in Session /\ t.op = "login"
  BY <1>3, LoginFacts, Zenon
<1>5. t.binding = t.new /\ sessions[t.new].state = "none" /\ status[t.user] = "active"
      /\ t.old # None /\ sessions[t.old].state # "none"
  BY <1>2, <1>3, Zenon DEF LoginSound
<1>6. userLock[t.user] = p
  BY <1>1, <1>2, <1>3, Zenon DEF LocksSound, HoldsUser
<1> DEFINE same == Live(t.old) /\ sessions[t.old].user = t.user
           b == IF same THEN sessions[t.old].binding ELSE t.binding
           u == [t EXCEPT !.at = "insert", !.binding = b]
<1>7. process' = [process EXCEPT ![p] = u]
  BY <1>1, Zenon DEF LoginLockOld
<1>8. b \in Session
  BY <1>2, <1>3, <1>4, <1>5, LoginFacts, TypeOf, SessionFacts, Zenon
<1>9. same <=> Inherits(t)
  BY <1>5, Zenon DEF Inherits
<1>10. b = IF Inherits(t) THEN sessions[t.old].binding ELSE t.new
  BY <1>5, <1>9, Zenon
<1> HIDE DEF b, same
<1>11. /\ u \in LoginTxn /\ u.at = "insert" /\ u.binding = b /\ u.op = "login"
       /\ u.user = t.user /\ u.old = t.old /\ u.new = t.new
  BY <1>3, <1>4, <1>8, Zenon DEF LoginTxn
<1> HIDE DEF u
<1>12. Goes(p, u)
  BY <1>2, <1>7, <1>11, Zenon DEF Goes, Txns
<1>13. process'[p] = u
  BY <1>2, <1>12, Becomes, Zenon DEF Goes
<1>14. LoginSound(u)
  <2>1. Inherits(u) <=> Inherits(t)
    BY <1>11, Zenon DEF Inherits
  <2>2. u.binding = IF u.at = "insert" /\ Inherits(u) THEN sessions[u.old].binding ELSE u.new
    BY <1>10, <1>11, <2>1, Zenon
  <2>3. QED
    BY <1>5, <1>11, <2>2, Zenon DEF LoginSound
<1>15. u.at # "lockRows" /\ u.at # "select" /\ ~Disabling(u)
  BY <1>11, Zenon DEF Disabling
<1>16. /\ t.old \in Session /\ sessionLock'[t.old] = p /\ Takes(p, sessionLock, sessionLock')
       /\ \A s \in Session \ {t.old} : sessionLock'[s] = sessionLock[s]
  <2>1. sessionLock \in [Session -> Process \cup {None}] /\ t.old \in Session
    BY <1>2, <1>4, <1>5, TypeOf, Zenon
  <2>2. QED
    BY <1>2, <2>1, Zenon DEF Takes
<1>17. RevokeSound(u) /\ LocksSound(p)'
  BY <1>2, <1>6, <1>11, <1>13, <1>15, <1>16, Zenon DEF RevokeSound, LocksSound
<1>18. \A q \in Process \ {p} : Logging(process[q]) => process[q].new # u.new
  BY <1>1, <1>3, <1>11, Zenon DEF IsolationInv, Apart
<1>19. \A s \in Session : sessionLock'[s] # sessionLock[s] => sessions[s].state # "none"
  BY <1>5, <1>16, Zenon
<1>20. QED
  BY <1>2, <1>12, <1>14, <1>16, <1>17, <1>18, <1>19, QuietPreserves, Zenon DEF Takes

-----------------------------------------------------------------------------
(* A revocation takes its locks.                                           *)

\* UpdateManagedUser locks the user it disables.
LEMMA DisableLockUserStep ==
    ASSUME IsolationInv, NEW p \in Process, DisableLockUser(p)
    PROVE  IsolationInv'
<1>1. PICK t : t = process[p]
  BY Zenon
<1> DEFINE u == [t EXCEPT !.at = "select"]
<1>2. /\ t.at = "lockUser" /\ t.op = "disable" /\ userLock[t.user] = None /\ TypeOK
      /\ UNCHANGED <<status, sessions, authority>> /\ sessionLock' = sessionLock
      /\ userLock' = [userLock EXCEPT ![t.user] = p]
  BY <1>1, Zenon DEF DisableLockUser, IsolationInv
<1>3. process' = [process EXCEPT ![p] = u]
  <2>1. process' = [process EXCEPT ![p].at = "select"]
    BY Zenon DEF DisableLockUser
  <2>2. QED
    BY <1>1, <2>1, Zenon
<1>4. Disabling(t) /\ RevokeSound(t) /\ t \in RevokeTxn
  BY <1>1, <1>2, TypeOf, TxnFacts, Zenon DEF IsolationInv, ProcessSound, Disabling
<1>5. t.user \in User /\ t.current = None /\ t.rows = {}
  BY <1>2, <1>4, RevokeFacts, Zenon DEF RevokeSound
<1>6. /\ u \in RevokeTxn /\ u.at = "select" /\ u.op = t.op /\ u.user = t.user
      /\ u.current = t.current /\ u.rows = t.rows
  BY <1>4 DEF RevokeTxn
<1> HIDE DEF u
<1>7. Goes(p, u)
  BY <1>2, <1>3, <1>6, Zenon DEF Goes, Txns
<1>8. process'[p] = u
  BY <1>2, <1>7, Becomes, Zenon DEF Goes
<1>9. userLock'[t.user] = p /\ Takes(p, userLock, userLock')
  <2>1. userLock \in [User -> Process \cup {None}]
    BY <1>2, TypeOf, Zenon
  <2>2. QED
    BY <1>2, <1>5, <2>1, Zenon DEF Takes
<1>10. u.at # "insert" /\ u.at # "lockRows" /\ ~Logging(u)
  BY <1>2, <1>6, Zenon DEF Logging
<1>11. LoginSound(u) /\ RevokeSound(u) /\ LocksSound(p)'
  BY <1>5, <1>6, <1>8, <1>9, <1>10, Zenon DEF LoginSound, RevokeSound, LocksSound
<1>12. QED
  BY <1>2, <1>7, <1>9, <1>10, <1>11, QuietPreserves, Zenon DEF Takes

\* The selection's snapshot holds every session the locked user has.
LEMMA SelectSessionsStep ==
    ASSUME IsolationInv, NEW p \in Process, SelectSessions(p)
    PROVE  IsolationInv'
<1>1. PICK t : t = process[p]
  BY Zenon
<1> DEFINE all == UnrevokedSessions(t.user)
           u == [t EXCEPT !.at = "lockRows", !.todo = all]
<1>2. /\ t.at = "select" /\ process' = [process EXCEPT ![p] = u] /\ TypeOK
      /\ UNCHANGED <<status, sessions, authority>>
      /\ userLock' = userLock /\ sessionLock' = sessionLock
  BY <1>1, Zenon DEF SelectSessions, IsolationInv
<1>3. RevokeSound(t) /\ LocksSound(p) /\ t \in RevokeTxn
  BY <1>1, <1>2, TypeOf, TxnFacts, Zenon DEF IsolationInv, ProcessSound
<1>4. all \in SUBSET Session
  BY Zenon DEF UnrevokedSessions
<1>5. t.rows = {}
  BY <1>2, <1>3, Zenon DEF RevokeSound
<1> HIDE DEF all
<1>6. /\ u \in RevokeTxn /\ u.at = "lockRows" /\ u.op = t.op /\ u.user = t.user
      /\ u.current = t.current /\ u.todo = all /\ u.rows = t.rows
  BY <1>3, <1>4, Zenon DEF RevokeTxn
<1> HIDE DEF u
<1>7. Goes(p, u)
  BY <1>2, <1>6, Zenon DEF Goes, Txns
<1>8. process'[p] = u
  BY <1>2, <1>7, Becomes, Zenon DEF Goes
<1>9. /\ u.at # "insert" /\ u.at # "lockUser" /\ ~Logging(u)
      /\ Disabling(u) <=> Disabling(t)
      /\ HoldsUser(u) => HoldsUser(t)
  BY <1>2, <1>6, Zenon DEF Logging, Disabling, HoldsUser
<1>10. LoginSound(u)
  BY <1>9, Zenon DEF LoginSound
<1>11. RevokeSound(u)
  BY <1>3, <1>5, <1>6, <1>9, Zenon DEF RevokeSound, all
<1>12. LocksSound(p)'
  <2>1. HoldsUser(u) => userLock[t.user] = p
    BY <1>1, <1>3, <1>9, Zenon DEF LocksSound
  <2>2. QED
    BY <1>2, <1>5, <1>6, <1>8, <1>9, <2>1, Zenon DEF LocksSound
<1>13. QED
  BY <1>2, <1>7, <1>9, <1>10, <1>11, <1>12, QuietPreserves, Zenon DEF Takes

\* A row is locked, or dropped because it was revoked meanwhile.
LEMMA LockNextSessionStep ==
    ASSUME IsolationInv, NEW p \in Process, LockNextSession(p)
    PROVE  IsolationInv'
<1>1. PICK t : t = process[p]
  BY Zenon
<1>2. PICK s : s = NextToLock(p, t.todo)
  BY Zenon
<1>3. /\ t.at = "lockRows" /\ t.todo # {} /\ sessionLock[s] = None /\ TypeOK
      /\ UNCHANGED <<status, sessions, authority>> /\ userLock' = userLock
  BY <1>1, <1>2, Zenon DEF LockNextSession, IsolationInv
<1>4. RevokeSound(t) /\ LocksSound(p) /\ t \in RevokeTxn
  BY <1>1, <1>3, TypeOf, TxnFacts, Zenon DEF IsolationInv, ProcessSound
<1>5. t.todo \in SUBSET Session /\ t.rows \in SUBSET Session /\ t.op # "login"
  BY <1>4, RevokeFacts, Zenon
<1>6. s \in Session
  BY <1>2, <1>3, <1>5, NextIsOne, Zenon
<1>7. /\ HoldsUser(t) => userLock[t.user] = p
      /\ \A x \in t.rows : sessionLock[x] = p /\ sessions[x].state # "none"
  BY <1>1, <1>3, <1>4, Zenon DEF LocksSound, RevokeSound
<1>8. sessionLock \in [Session -> Process \cup {None}]
  BY <1>3, TypeOf, Zenon
<1> DEFINE less == t.todo \ {s}
<1>9. less \in SUBSET Session
  BY <1>5, Zenon
<1>10. CASE Unrevoked(s)
  <2> DEFINE more == t.rows \cup {s}
             u == [t EXCEPT !.todo = less, !.rows = more]
  <2>1. process' = [process EXCEPT ![p] = u] /\ sessionLock' = [sessionLock EXCEPT ![s] = p]
    BY <1>1, <1>2, <1>10, Zenon DEF LockNextSession, StillSelected
  <2>2. more \in SUBSET Session
    BY <1>5, <1>6, Zenon
  <2>3. t.rows \cup t.todo \subseteq more \cup less
    BY Zenon
  <2>4. \A x \in more : sessionLock'[x] = p /\ sessions[x].state # "none"
    BY <1>5, <1>6, <1>7, <1>8, <1>10, <2>1, Zenon DEF Unrevoked
  <2> HIDE DEF less, more
  <2>5. /\ u \in RevokeTxn /\ u.at = t.at /\ u.op = t.op /\ u.user = t.user
        /\ u.current = t.current /\ u.todo = less /\ u.rows = more
    BY <1>4, <1>9, <2>2, Zenon DEF RevokeTxn
  <2> HIDE DEF u
  <2>6. Goes(p, u)
    BY <1>3, <2>1, <2>5, Zenon DEF Goes, Txns
  <2>7. process'[p] = u
    BY <1>3, <2>6, Becomes, Zenon DEF Goes
  <2>8. /\ u.at # "insert" /\ ~Logging(u) /\ (Disabling(u) <=> Disabling(t))
        /\ HoldsUser(u) => HoldsUser(t)
    BY <1>3, <1>5, <2>5, Zenon DEF Logging, Disabling, HoldsUser
  <2>9. LoginSound(u)
    BY <2>8, Zenon DEF LoginSound
  <2>10. RevokeSound(u)
    <3>1. Disabling(t) => t.current = None /\ UnrevokedSessions(t.user) \subseteq t.rows \cup t.todo
      BY <1>3, <1>4, Zenon DEF RevokeSound
    <3>2. Disabling(u) => UnrevokedSessions(u.user) \subseteq u.rows \cup u.todo
      BY <2>3, <2>5, <2>8, <3>1, Zenon
    <3>3. QED
      BY <1>3, <2>4, <2>5, <2>8, <3>1, <3>2, Zenon DEF RevokeSound
  <2>11. LocksSound(p)'
    BY <1>3, <1>7, <2>4, <2>5, <2>7, <2>8, Zenon DEF LocksSound
  <2>12. Takes(p, sessionLock, sessionLock')
    BY <1>3, <1>6, <1>8, <2>1, Zenon DEF Takes
  <2>13. \A x \in Session : sessionLock'[x] # sessionLock[x] => sessions[x].state # "none"
    BY <1>8, <1>10, <2>1, Zenon DEF Unrevoked
  <2>14. QED
    BY <1>3, <2>6, <2>8, <2>9, <2>10, <2>11, <2>12, <2>13, QuietPreserves, Zenon DEF Takes
<1>11. CASE ~Unrevoked(s)
  <2> DEFINE u == [t EXCEPT !.todo = less]
  <2>1. process' = [process EXCEPT ![p] = u] /\ sessionLock' = sessionLock
    <3>1. process' = [process EXCEPT ![p].todo = process[p].todo \ {s}] /\ sessionLock' = sessionLock
      BY <1>1, <1>2, <1>11, Zenon DEF LockNextSession, StillSelected
    <3>2. QED
      BY <1>1, <3>1, Zenon
  <2>2. UnrevokedSessions(t.user) \subseteq t.rows \cup t.todo =>
            UnrevokedSessions(t.user) \subseteq t.rows \cup less
    BY <1>11, Zenon DEF UnrevokedSessions
  <2> HIDE DEF less
  <2>3. /\ u \in RevokeTxn /\ u.at = t.at /\ u.op = t.op /\ u.user = t.user
        /\ u.current = t.current /\ u.todo = less /\ u.rows = t.rows
    BY <1>4, <1>9 DEF RevokeTxn
  <2> HIDE DEF u
  <2>4. Goes(p, u)
    BY <1>3, <2>1, <2>3, Zenon DEF Goes, Txns
  <2>5. process'[p] = u
    BY <1>3, <2>4, Becomes, Zenon DEF Goes
  <2>6. /\ u.at # "insert" /\ ~Logging(u) /\ (Disabling(u) <=> Disabling(t))
        /\ HoldsUser(u) => HoldsUser(t)
    BY <1>3, <1>5, <2>3, Zenon DEF Logging, Disabling, HoldsUser
  <2>7. LoginSound(u)
    BY <2>6, Zenon DEF LoginSound
  <2>8. RevokeSound(u)
    <3>1. Disabling(t) => t.current = None /\ UnrevokedSessions(t.user) \subseteq t.rows \cup t.todo
      BY <1>3, <1>4, Zenon DEF RevokeSound
    <3>2. QED
      BY <1>3, <1>7, <2>2, <2>3, <2>6, <3>1, Zenon DEF RevokeSound
  <2>9. LocksSound(p)'
    BY <1>3, <1>7, <2>1, <2>3, <2>5, <2>6, Zenon DEF LocksSound
  <2>10. QED
    BY <1>3, <2>1, <2>4, <2>6, <2>7, <2>8, <2>9, QuietPreserves, Zenon DEF Takes
<1>12. QED
  BY <1>10, <1>11, Zenon

-----------------------------------------------------------------------------
(* The commits.                                                            *)

\* p is done: its locks are free, those of the others are theirs.
Ends(p) ==
    /\ process' = [process EXCEPT ![p] = [at |-> "done"]]
    /\ userLock' \in {userLock, Unlock(p, userLock)}
    /\ sessionLock' \in {sessionLock, Unlock(p, sessionLock)}

\* Rows are revoked, and one may be inserted by the login that p is.
Writes(p) ==
    /\ SessionsSteady
    /\ \A q \in Process \ {p}, s \in Session : sessionLock[s] = q => sessions'[s] = sessions[s]
    /\ \A s \in Session : sessions[s].state = "none" /\ sessions'[s].state # "none" =>
           /\ process[p].at = "insert" /\ s = process[p].new
           /\ sessions'[s].user = process[p].user
           /\ sessions'[sessions'[s].binding].state # "none"

\* A commit is a step of p that leaves the others their locks and rows.
LEMMA EndsActs ==
    ASSUME TypeOK, NEW p \in Process, Ends(p), Writes(p), authority' \subseteq authority,
           status' \in [User -> {"active", "disabled"}],
           \A u \in User : userLock[u] # p => status'[u] = status[u]
    PROVE  /\ TypeOK' /\ Acts(p) /\ process'[p] = [at |-> "done"]
           /\ \A s \in Session : sessionLock'[s] \in {sessionLock[s], None}
<1> DEFINE t == [at |-> "done"]
<1>1. t \in Resting /\ t \in Txns
  BY RestFacts, RestSound, Zenon
<1> HIDE DEF t
<1>2. /\ process' \in [Process -> Txns] /\ process'[p] = t
      /\ \A q \in Process \ {p} : process'[q] = process[q]
  BY <1>1, Becomes, Zenon DEF Ends, t
<1>3. /\ userLock \in [User -> Process \cup {None}] /\ authority \subseteq Session
      /\ sessionLock \in [Session -> Process \cup {None}]
  BY TypeOf, Zenon
<1>4. /\ userLock' \in [User -> Process \cup {None}]
      /\ \A q \in Process \ {p}, u \in User : userLock[u] = q => userLock'[u] = q
  <2>1. CASE userLock' = userLock
    BY <1>3, <2>1, Zenon
  <2>2. CASE userLock' = Unlock(p, userLock)
    <3>1. /\ Unlock(p, userLock) \in [User -> Process \cup {None}]
          /\ \A q \in Process \ {p}, x \in User : userLock[x] = q => Unlock(p, userLock)[x] = q
          /\ \A x \in User : Unlock(p, userLock)[x] \in {userLock[x], None}
      BY <1>3, LockFreed
    <3>2. QED
      BY <2>2, <3>1, Zenon
  <2>3. QED
    BY <2>1, <2>2, Zenon DEF Ends
<1>5. /\ sessionLock' \in [Session -> Process \cup {None}]
      /\ \A q \in Process \ {p}, s \in Session : sessionLock[s] = q => sessionLock'[s] = q
      /\ \A s \in Session : sessionLock'[s] \in {sessionLock[s], None}
  <2>1. CASE sessionLock' = sessionLock
    BY <1>3, <2>1, Zenon
  <2>2. CASE sessionLock' = Unlock(p, sessionLock)
    <3>1. /\ Unlock(p, sessionLock) \in [Session -> Process \cup {None}]
          /\ \A q \in Process \ {p}, x \in Session : sessionLock[x] = q => Unlock(p, sessionLock)[x] = q
          /\ \A x \in Session : Unlock(p, sessionLock)[x] \in {sessionLock[x], None}
      BY <1>3, LockFreed
    <3>2. QED
      BY <2>2, <3>1, Zenon
  <2>3. QED
    BY <2>1, <2>2, Zenon DEF Ends
<1>6. TypeOK'
  <2>1. process' \in [Process -> Transaction \cup {[at |-> "idle"], [at |-> "done"]}]
    BY <1>2, Zenon DEF Txns, Transaction, LoginTxn, RevokeTxn, OneTxn, Resting
  <2>2. sessions' \in [Session -> SessionRow \cup {NoRow}]
    BY Zenon DEF Writes, SessionsSteady, Sessions
  <2>3. QED
    BY <1>3, <1>4, <1>5, <2>1, <2>2, Zenon DEF TypeOK
<1>7. Acts(p)
  BY <1>2, <1>4, <1>5, Zenon DEF Acts, Writes
<1>8. QED
  BY <1>2, <1>5, <1>6, <1>7, Zenon DEF t

\* What remains to be shown of a commit: what it did to the rows.
LEMMA CommitPreserves ==
    ASSUME IsolationInv, NEW p \in Process, Ends(p), Writes(p), authority' \subseteq authority,
           status' \in [User -> {"active", "disabled"}],
           \A u \in User : userLock[u] # p => status'[u] = status[u],
           \A u \in User : status'[u] = "disabled" => UnrevokedSessions(u)' = {},
           \A b \in authority' : \E s \in Session : Unrevoked(s)' /\ sessions'[s].binding = b,
           BindingInheritedOnce'
    PROVE  IsolationInv'
<1>1. /\ TypeOK' /\ Acts(p) /\ process'[p] = [at |-> "done"]
      /\ \A s \in Session : sessionLock'[s] \in {sessionLock[s], None}
  BY EndsActs, Zenon DEF IsolationInv
<1>2. DisabledHasNothing'
  BY <1>1, Zenon DEF DisabledHasNothing
<1> DEFINE t == [at |-> "done"]
<1>3. t \in Resting
  BY RestFacts, Zenon
<1> HIDE DEF t
<1>4. ~Logging(t) /\ LoginSound(t)' /\ RevokeSound(t)' /\ LocksSound(p)'
  BY <1>1, <1>3, RestSound, Zenon DEF LoginSound, RevokeSound, LocksSound, t
<1>5. ProcessSound(p)'
  BY <1>1, <1>4, Zenon DEF ProcessSound, t
<1>6. \A q \in Process : ProcessSound(q)'
  BY <1>1, <1>5, OthersKeep, Zenon
<1>7. Apart'
  BY <1>1, <1>4, StayApart, Zenon DEF Acts, t
<1>8. RowsSound'
  <2>1. ASSUME NEW s \in Session, sessionLock'[s] # None PROVE sessions'[s].state # "none"
    <3>1. sessionLock[s] # None
      BY <1>1, <2>1, Zenon
    <3>2. QED
      BY <3>1, Zenon DEF IsolationInv, RowsSound, Writes, SessionsSteady
  <2>2. ASSUME NEW s \in Session, sessions'[s].state # "none"
        PROVE  sessions'[sessions'[s].binding].state # "none"
    <3>1. CASE sessions[s].state # "none"
      <4>1. sessions'[s].binding = sessions[s].binding
        BY <3>1, Zenon DEF Writes, SessionsSteady
      <4>2. sessions[s].binding \in Session /\ sessions[sessions[s].binding].state # "none"
        BY <3>1, TypeOf, SessionFacts, Zenon DEF IsolationInv, RowsSound
      <4>3. QED
        BY <4>1, <4>2, ZenonT(40) DEF Writes, SessionsSteady
    <3>2. CASE sessions[s].state = "none"
      BY <2>2, <3>2, Zenon DEF Writes
    <3>3. QED
      BY <3>1, <3>2, Zenon
  <2>3. QED
    BY <2>1, <2>2, Zenon DEF RowsSound
<1>9. QED
  BY <1>1, <1>2, <1>6, <1>7, <1>8, Zenon DEF IsolationInv

\* Revoking rows, and nothing else, keeps what the rows promise.
Revoked(S) ==
    sessions' = [s \in Session |-> IF s \in S THEN [sessions[s] EXCEPT !.state = "revoked"]
                                              ELSE sessions[s]]

\* Revoking leaves users and bindings as they are.
LEMMA RevokedRows ==
    ASSUME TypeOK, NEW S \in SUBSET Session, \A s \in S : sessions[s].state # "none", Revoked(S)
    PROVE  /\ SessionsSteady
           /\ \A s \in S : sessions'[s].state = "revoked"
           /\ \A s \in Session \ S : sessions'[s] = sessions[s]
<1>1. ASSUME NEW s \in S
      PROVE  /\ sessions'[s] \in SessionRow /\ sessions'[s].state = "revoked"
             /\ sessions'[s].user = sessions[s].user /\ sessions'[s].binding = sessions[s].binding
  <2>1. sessions[s] \in SessionRow /\ sessions'[s] = [sessions[s] EXCEPT !.state = "revoked"]
    BY TypeOf, SessionFacts, Zenon DEF Revoked
  <2>2. QED
    BY <2>1 DEF SessionRow
<1>2. \A s \in Session \ S : sessions'[s] = sessions[s]
  BY Zenon DEF Revoked
<1>3. \A s \in Session : sessions'[s] \in SessionRow \cup {NoRow}
  BY <1>1, <1>2, TypeOf, Zenon DEF Sessions
<1>4. sessions' \in Sessions
  <2>1. sessions' = [s \in Session |-> sessions'[s]]
    BY Zenon DEF Revoked
  <2>2. QED
    BY <1>3, <2>1, Zenon DEF Sessions
<1>5. QED
  BY <1>1, <1>2, <1>4, Zenon DEF SessionsSteady

\* Revoking rows and their tokens leaves tokens only on unrevoked sessions.
LEMMA RevokedKeeps ==
    ASSUME IsolationInv, NEW S \in SUBSET Session, \A s \in S : sessions[s].state # "none",
           Revoked(S)
    PROVE  /\ BindingInheritedOnce'
           /\ \A s \in Session : sessions[s].state = "none" => sessions'[s].state = "none"
           /\ \A u \in User : UnrevokedSessions(u)' = UnrevokedSessions(u) \ S
           /\ \A b \in authority \ Bindings(S) :
                \E s \in Session : Unrevoked(s)' /\ sessions'[s].binding = b
<1>1. /\ \A s \in S : sessions'[s].state = "revoked" /\ sessions[s].state # "none"
                      /\ sessions'[s].user = sessions[s].user
                      /\ sessions'[s].binding = sessions[s].binding
      /\ \A s \in Session \ S : sessions'[s] = sessions[s]
  BY RevokedRows, Zenon DEF IsolationInv, SessionsSteady
<1>2. \A s \in Session : Unrevoked(s)' <=> Unrevoked(s) /\ s \notin S
  BY <1>1, Zenon DEF Unrevoked
<1>3. \A s \in Session : sessions'[s].state # "none" =>
          /\ sessions[s].state # "none"
          /\ sessions'[s].user = sessions[s].user /\ sessions'[s].binding = sessions[s].binding
  BY <1>1, Zenon
<1>4. BindingInheritedOnce'
  <2>1. ASSUME NEW s \in Session, NEW x \in Session, sessions'[s].state # "none",
               sessions'[x].state # "none", sessions'[s].binding = sessions'[x].binding
        PROVE  /\ sessions'[s].user = sessions'[x].user
               /\ Unrevoked(s)' /\ Unrevoked(x)' => s = x
    BY <1>2, <1>3, <2>1, ZenonT(40) DEF IsolationInv, BindingInheritedOnce
  <2>2. QED
    BY <2>1, Zenon DEF BindingInheritedOnce
<1>5. ASSUME NEW u \in User PROVE UnrevokedSessions(u)' = UnrevokedSessions(u) \ S
  <2>1. \A s \in Session : Unrevoked(s)' /\ sessions'[s].user = u
                             <=> Unrevoked(s) /\ s \notin S /\ sessions[s].user = u
    BY <1>1, <1>2, Zenon
  <2>2. QED
    BY <2>1, Zenon DEF UnrevokedSessions
<1>6. ASSUME NEW b \in authority, b \notin Bindings(S)
      PROVE  \E s \in Session : Unrevoked(s)' /\ sessions'[s].binding = b
  <2>1. PICK s \in Session : Unrevoked(s) /\ sessions[s].binding = b
    BY Zenon DEF IsolationInv, DisabledHasNothing
  <2>2. s \notin S
    BY <1>6, <2>1, Zenon DEF Bindings
  <2>3. QED
    BY <1>1, <1>2, <2>1, <2>2, Zenon
<1>7. QED
  BY <1>3, <1>4, <1>5, <1>6, Zenon

\* RevokeUserSession, RevokeManagedSession, RevokeSessionByHash commit.
LEMMA RevokeOneCommitStep ==
    ASSUME IsolationInv, NEW p \in Process, RevokeOneCommit(p)
    PROVE  IsolationInv'
<1>1. PICK s : s = process[p].target
  BY Zenon
<1>2. s \in Session /\ sessionLock[s] = None /\ TypeOK
  <2>1. process[p].at = "lockTarget" /\ sessionLock[s] = None
    BY <1>1, Zenon DEF RevokeOneCommit
  <2>2. TypeOK /\ process[p] \in Txns
    BY TypeOf, Zenon DEF IsolationInv
  <2>3. QED
    BY <1>1, <2>1, <2>2, TxnFacts, OneFacts, Zenon
<1>3. PICK S \in SUBSET Session :
          /\ S = IF Unrevoked(s) THEN {s} ELSE {}
  BY <1>2, Zenon
<1>4. \A x \in S : x = s /\ sessions[x].state # "none"
  BY <1>3, Zenon DEF Unrevoked
<1>5. Revoked(S) /\ authority' = authority \ Bindings(S)
  <2>1. CASE Unrevoked(s)
    <3>1. /\ sessions' = [sessions EXCEPT ![s].state = "revoked"]
          /\ authority' = authority \ {sessions[s].binding} /\ S = {s}
      BY <1>1, <1>3, <2>1, Zenon DEF RevokeOneCommit
    <3>2. DOMAIN sessions = Session
      BY <1>2, Zenon DEF TypeOK
    <3>3. sessions' = [x \in Session |-> IF x \in S THEN [sessions[x] EXCEPT !.state = "revoked"]
                                                    ELSE sessions[x]]
      BY <1>2, <3>1, <3>2, Zenon
    <3>4. Bindings(S) = {sessions[s].binding}
      BY <3>1, Zenon DEF Bindings
    <3>5. QED
      BY <3>1, <3>3, <3>4, Zenon DEF Revoked
  <2>2. CASE ~Unrevoked(s)
    <3>1. sessions' = sessions /\ authority' = authority /\ S = {}
      BY <1>1, <1>3, <2>2, Zenon DEF RevokeOneCommit
    <3>2. sessions = [x \in Session |-> sessions[x]]
      BY <1>2, Zenon DEF TypeOK
    <3>3. Bindings(S) = {}
      BY <3>1, Zenon DEF Bindings
    <3>4. [x \in Session |-> sessions[x]] =
             [x \in Session |-> IF x \in S THEN [sessions[x] EXCEPT !.state = "revoked"]
                                           ELSE sessions[x]]
      BY <3>1, Zenon
    <3>5. QED
      BY <3>1, <3>2, <3>3, <3>4, Zenon DEF Revoked
  <2>3. QED
    BY <2>1, <2>2, Zenon
<1>6. /\ SessionsSteady
      /\ \A x \in Session \ S : sessions'[x] = sessions[x]
  BY <1>2, <1>4, <1>5, RevokedRows, Zenon
<1>7. /\ BindingInheritedOnce'
      /\ \A x \in Session : sessions[x].state = "none" => sessions'[x].state = "none"
      /\ \A u \in User : UnrevokedSessions(u)' = UnrevokedSessions(u) \ S
      /\ \A b \in authority \ Bindings(S) :
           \E x \in Session : Unrevoked(x)' /\ sessions'[x].binding = b
  BY <1>4, <1>5, RevokedKeeps, Zenon
<1>8. None \notin Process
  BY SessionAssumption, Zenon
<1>9. Writes(p)
  BY <1>2, <1>4, <1>6, <1>7, <1>8, Zenon DEF Writes
<1>10. Ends(p) /\ status' = status
  BY Zenon DEF RevokeOneCommit, Ends
<1>11. /\ status' \in [User -> {"active", "disabled"}]
       /\ \A u \in User : status'[u] = "disabled" => UnrevokedSessions(u)' = {}
  BY <1>2, <1>7, <1>10, Zenon DEF TypeOK, IsolationInv, DisabledHasNothing
<1>12. QED
  BY <1>5, <1>7, <1>9, <1>10, <1>11, CommitPreserves, Zenon

\* A revocation commits; when it disables, it revokes every session of the user.
LEMMA RevocationCommitStep ==
    ASSUME IsolationInv, NEW p \in Process, RevocationCommit(p)
    PROVE  IsolationInv'
<1>1. PICK t : t = process[p]
  BY Zenon
<1>2. /\ t.at = "lockRows" /\ t.todo = {} /\ Revoked(Targets(t)) /\ Commit(p)
      /\ authority' \subseteq authority \ Bindings(Targets(t))
      /\ status' = IF t.op = "disable" THEN [status EXCEPT ![t.user] = "disabled"] ELSE status
  BY <1>1, Zenon DEF RevocationCommit, Revoked
<1>3. /\ TypeOK /\ t \in RevokeTxn /\ t.user \in User /\ t.rows \subseteq Session
      /\ RevokeSound(t) /\ LocksSound(p)
  <2>1. TypeOK /\ t \in Txns /\ RevokeSound(t) /\ LocksSound(p)
    BY <1>1, TypeOf, Zenon DEF IsolationInv, ProcessSound
  <2>2. QED
    BY <1>2, <2>1, TxnFacts, RevokeFacts, Zenon
<1>4. PICK S \in SUBSET Session : S = Targets(t)
  BY <1>3, Zenon DEF Targets
<1>5. \A s \in S : sessions[s].state # "none" /\ sessionLock[s] = p
  BY <1>1, <1>2, <1>3, <1>4, Zenon DEF RevokeSound, LocksSound, Targets
<1>6. /\ SessionsSteady
      /\ \A s \in Session \ S : sessions'[s] = sessions[s]
  BY <1>2, <1>3, <1>4, <1>5, RevokedRows, Zenon
<1>7. /\ BindingInheritedOnce'
      /\ \A s \in Session : sessions[s].state = "none" => sessions'[s].state = "none"
      /\ \A u \in User : UnrevokedSessions(u)' = UnrevokedSessions(u) \ S
      /\ \A b \in authority \ Bindings(S) :
           \E s \in Session : Unrevoked(s)' /\ sessions'[s].binding = b
  BY <1>2, <1>4, <1>5, RevokedKeeps, Zenon
<1>8. Writes(p)
  BY <1>5, <1>6, <1>7, Zenon DEF Writes
<1>9. Ends(p)
  BY <1>2, Zenon DEF Commit, Ends
<1>10. \A b \in authority' : \E s \in Session : Unrevoked(s)' /\ sessions'[s].binding = b
  BY <1>2, <1>4, <1>7, Zenon
<1>11. CASE t.op = "disable"
  <2>1. /\ Disabling(t) /\ HoldsUser(t)
    BY <1>2, <1>11, Zenon DEF Disabling, HoldsUser
  <2>2. userLock[t.user] = p
    BY <1>1, <1>3, <2>1, Zenon DEF LocksSound
  <2>3. status \in [User -> {"active", "disabled"}]
        /\ status' = [status EXCEPT ![t.user] = "disabled"]
    BY <1>2, <1>3, <1>11, TypeOf, Zenon
  <2>4. /\ status' \in [User -> {"active", "disabled"}]
        /\ \A u \in User : u # t.user => status'[u] = status[u]
    BY <1>3, <2>3, Zenon
  <2>5. UnrevokedSessions(t.user) \subseteq S
    <3>1. t.current = None /\ UnrevokedSessions(t.user) \subseteq t.rows
      BY <1>2, <1>3, <2>1, Zenon DEF RevokeSound
    <3>2. None \notin Session
      BY SessionAssumption, Zenon
    <3>3. QED
      BY <1>3, <1>4, <3>1, <3>2, Zenon DEF Targets
  <2>6. ASSUME NEW u \in User, status'[u] = "disabled" PROVE UnrevokedSessions(u)' = {}
    <3>1. CASE u = t.user
      BY <1>7, <2>5, <3>1, Zenon
    <3>2. CASE u # t.user
      BY <1>7, <2>4, <2>6, <3>2, Zenon DEF IsolationInv, DisabledHasNothing
    <3>3. QED
      BY <3>1, <3>2, Zenon
  <2>7. authority' \subseteq authority /\ \A u \in User : userLock[u] # p => status'[u] = status[u]
    BY <1>2, <2>2, <2>4, Zenon
  <2>8. QED
    BY <1>7, <1>8, <1>9, <1>10, <2>4, <2>6, <2>7, CommitPreserves, Zenon
<1>12. CASE t.op # "disable"
  <2>1. status' = status /\ status' \in [User -> {"active", "disabled"}] /\ authority' \subseteq authority
    BY <1>2, <1>3, <1>12, TypeOf, Zenon
  <2>2. \A u \in User : status'[u] = "disabled" => UnrevokedSessions(u)' = {}
    BY <1>7, <2>1, Zenon DEF IsolationInv, DisabledHasNothing
  <2>3. QED
    BY <1>7, <1>8, <1>9, <1>10, <2>1, <2>2, CommitPreserves, Zenon
<1>13. QED
  BY <1>11, <1>12, Zenon

\* CommitLogin commits: the new row has its own binding or that of the row it replaces.
LEMMA LoginCommitStep ==
    ASSUME IsolationInv, NEW p \in Process, LoginCommit(p)
    PROVE  IsolationInv'
<1>1. PICK t : t = process[p]
  BY Zenon
<1> DEFINE replaced == t.old # None /\ Live(t.old)
           row == [state |-> "live", user |-> t.user, binding |-> t.binding]
<1>2. /\ t.at = "insert" /\ Commit(p) /\ status' = status
      /\ sessions' = [s \in Session |->
             IF s = t.new THEN row
             ELSE IF s = t.old /\ replaced
                  THEN [sessions[s] EXCEPT !.state = "revoked"] ELSE sessions[s]]
      /\ authority' = IF replaced /\ sessions[t.old].user # t.user
                      THEN authority \ {sessions[t.old].binding} ELSE authority
  BY <1>1, Zenon DEF LoginCommit
<1>3. /\ TypeOK /\ t \in Txns /\ LoginSound(t) /\ LocksSound(p) /\ sessions \in Sessions
      /\ status \in [User -> {"active", "disabled"}]
  BY <1>1, TypeOf, Zenon DEF IsolationInv, ProcessSound
<1>4. /\ Logging(t) /\ t.user \in User /\ t.old \in Session \cup {None} /\ t.new \in Session
      /\ t.binding \in Session
  BY <1>2, <1>3, TxnFacts, LoginFacts, Zenon
<1>5. /\ sessions[t.new].state = "none" /\ status[t.user] = "active"
      /\ t.old # None => sessions[t.old].state # "none" /\ t.old \in Session /\ t.old # t.new
      /\ t.binding = IF Inherits(t) THEN sessions[t.old].binding ELSE t.new
  BY <1>2, <1>3, <1>4, Zenon DEF LoginSound
<1>6. t.old # None => sessionLock[t.old] = p
  BY <1>1, <1>2, <1>3, Zenon DEF LocksSound
<1>7. row \in SessionRow /\ row.state = "live" /\ row.user = t.user /\ row.binding = t.binding
  BY <1>4 DEF SessionRow
<1>8. /\ sessions'[t.new] = row
      /\ \A s \in Session : s # t.new /\ ~(s = t.old /\ replaced) => sessions'[s] = sessions[s]
      /\ sessions' = [s \in Session |-> sessions'[s]]
  BY <1>2, <1>4, Zenon
<1>9. replaced =>
        /\ sessions[t.old] \in SessionRow /\ sessions'[t.old] \in SessionRow
        /\ sessions'[t.old].state = "revoked"
        /\ sessions'[t.old].user = sessions[t.old].user
        /\ sessions'[t.old].binding = sessions[t.old].binding
  <2>1. SUFFICES ASSUME replaced PROVE
            /\ sessions[t.old] \in SessionRow /\ sessions'[t.old] \in SessionRow
            /\ sessions'[t.old].state = "revoked"
            /\ sessions'[t.old].user = sessions[t.old].user
            /\ sessions'[t.old].binding = sessions[t.old].binding
    BY Zenon
  <2>2. sessions[t.old] \in SessionRow /\ sessions'[t.old] = [sessions[t.old] EXCEPT !.state = "revoked"]
    BY <1>2, <1>3, <1>5, <2>1, SessionFacts, Zenon
  <2>3. QED
    BY <2>2 DEF SessionRow
<1>10. Inherits(t) => replaced /\ sessions[t.old].user = t.user
  BY Zenon DEF Inherits
<1>11. replaced /\ sessions[t.old].user = t.user => Inherits(t)
  BY Zenon DEF Inherits
<1>12. replaced => sessions[t.old].state = "live" /\ t.old # None /\ t.old \in Session
  BY <1>5, Zenon DEF Live
<1> HIDE DEF row, replaced
<1>13. SessionsSteady
  <2>1. \A s \in Session : sessions'[s] \in SessionRow \cup {NoRow}
    BY <1>3, <1>7, <1>8, <1>9, Zenon DEF Sessions
  <2>2. sessions' \in Sessions
    BY <1>8, <2>1, Zenon DEF Sessions
  <2>3. ASSUME NEW s \in Session, sessions[s].state # "none"
        PROVE  /\ sessions'[s].state # "none"
               /\ sessions'[s].user = sessions[s].user /\ sessions'[s].binding = sessions[s].binding
               /\ sessions'[s].state \in {sessions[s].state, "revoked"}
    BY <1>5, <1>8, <1>9, <2>3, Zenon
  <2>4. QED
    BY <2>2, <2>3, Zenon DEF SessionsSteady
<1>14. Writes(p)
  <2>1. ASSUME NEW q \in Process \ {p}, NEW s \in Session, sessionLock[s] = q
        PROVE  sessions'[s] = sessions[s]
    <3>1. sessionLock[s] # None
      BY <2>1, SessionAssumption, Zenon
    <3>2. sessions[s].state # "none"
      BY <3>1, Zenon DEF IsolationInv, RowsSound
    <3>3. s # t.new /\ ~(s = t.old /\ replaced)
      BY <1>5, <1>6, <1>12, <2>1, <3>2, Zenon
    <3>4. QED
      BY <1>8, <3>3, Zenon
  <2>2. ASSUME NEW s \in Session, sessions[s].state = "none", sessions'[s].state # "none"
        PROVE  s = t.new
    BY <1>5, <1>8, <1>12, <2>2, Zenon
  <2>3. sessions'[t.binding].state # "none"
    <3>1. CASE Inherits(t)
      <4>1. t.binding = sessions[t.old].binding /\ sessions[t.old].state # "none" /\ t.old \in Session
        BY <1>5, <1>10, <1>12, <3>1, Zenon
      <4>2. sessions[t.binding].state # "none"
        BY <4>1, Zenon DEF IsolationInv, RowsSound
      <4>3. QED
        BY <1>4, <1>13, <4>2, Zenon DEF SessionsSteady
    <3>2. CASE ~Inherits(t)
      BY <1>5, <1>7, <1>8, <3>2, Zenon
    <3>3. QED
      BY <3>1, <3>2, Zenon
  <2>4. QED
    BY <1>1, <1>2, <1>7, <1>8, <1>13, <2>1, <2>2, <2>3, Zenon DEF Writes
<1>15. Ends(p)
  BY <1>2, Zenon DEF Commit, Ends
<1>16. authority' \subseteq authority
  BY <1>2, Zenon
<1>17. Acts(p)
  <2>1. \A u \in User : userLock[u] # p => status'[u] = status[u]
    BY <1>2, Zenon
  <2>2. status' \in [User -> {"active", "disabled"}]
    BY <1>2, <1>3, Zenon
  <2>3. QED
    BY <1>3, <1>14, <1>15, <1>16, <2>1, <2>2, EndsActs, Zenon
<1>18. ASSUME NEW u \in User, status'[u] = "disabled" PROVE UnrevokedSessions(u)' = {}
  <2>1. status[u] = "disabled" /\ u # t.user
    BY <1>2, <1>5, <1>18
  <2>2. UnrevokedSessions(u)' \subseteq UnrevokedSessions(u)
    BY <1>1, <1>3, <1>17, <2>1, FewerUnrevoked, Zenon
  <2>3. UnrevokedSessions(u) = {}
    BY <2>1, Zenon DEF IsolationInv, DisabledHasNothing
  <2>4. QED
    BY <2>2, <2>3, Zenon
<1>19. ASSUME NEW b \in authority'
       PROVE  \E s \in Session : Unrevoked(s)' /\ sessions'[s].binding = b
  <2>1. PICK s \in Session : Unrevoked(s) /\ sessions[s].binding = b
    BY <1>16, <1>19, Zenon DEF IsolationInv, DisabledHasNothing
  <2>2. s # t.new
    BY <1>5, <2>1, Zenon DEF Unrevoked
  <2>3. CASE s = t.old /\ replaced
    <3>1. sessions[t.old].user = t.user
      BY <1>2, <1>19, <2>1, <2>3, Zenon
    <3>2. t.binding = b
      BY <1>5, <1>11, <2>1, <2>3, <3>1, Zenon
    <3>3. sessions'[t.new].state = "live" /\ sessions'[t.new].binding = b
      BY <1>7, <1>8, <3>2, Zenon
    <3>4. QED
      BY <1>4, <3>3, Zenon DEF Unrevoked
  <2>4. CASE ~(s = t.old /\ replaced)
    <3>1. sessions'[s] = sessions[s]
      BY <1>8, <2>2, <2>4, Zenon
    <3>2. QED
      BY <2>1, <3>1, Zenon DEF Unrevoked
  <2>5. QED
    BY <2>3, <2>4, Zenon
<1>20. \A s \in Session \ {t.new} : sessions'[s].state # "none" =>
          /\ sessions[s].state # "none"
          /\ sessions'[s].user = sessions[s].user /\ sessions'[s].binding = sessions[s].binding
          /\ Unrevoked(s)' => Unrevoked(s)
  <2>1. ASSUME NEW s \in Session, s # t.new, sessions'[s].state # "none"
        PROVE  sessions[s].state # "none"
    BY <1>8, <1>5, <1>12, <2>1, Zenon
  <2>2. ASSUME NEW s \in Session, sessions[s].state # "none"
        PROVE  /\ sessions'[s].user = sessions[s].user /\ sessions'[s].binding = sessions[s].binding
               /\ Unrevoked(s)' => Unrevoked(s)
    <3>1. /\ sessions'[s].user = sessions[s].user /\ sessions'[s].binding = sessions[s].binding
          /\ sessions'[s].state \in {sessions[s].state, "revoked"}
      BY <1>13, <2>2, Zenon DEF SessionsSteady
    <3>2. QED
      BY <3>1, Zenon DEF Unrevoked
  <2>3. QED
    BY <2>1, <2>2, Zenon
<1>21. ASSUME NEW s \in Session \ {t.new}, sessions'[s].state # "none",
              sessions'[s].binding = t.binding
       PROVE  sessions'[s].user = t.user /\ ~Unrevoked(s)'
  <2>1. /\ sessions[s].state # "none" /\ sessions[s].binding = t.binding
        /\ sessions'[s].user = sessions[s].user
        /\ Unrevoked(s)' => Unrevoked(s)
    BY <1>20, <1>21, Zenon
  <2>2. CASE Inherits(t)
    <3>1. /\ replaced /\ sessions[t.old].user = t.user /\ sessions[t.old].binding = t.binding
          /\ t.old \in Session /\ Unrevoked(t.old) /\ sessions[t.old].state # "none"
      BY <1>5, <1>10, <1>12, <2>2, Zenon DEF Unrevoked
    <3>2. sessions[s].user = t.user /\ (Unrevoked(s) => s = t.old)
      BY <2>1, <3>1, Zenon DEF IsolationInv, BindingInheritedOnce
    <3>3. ~Unrevoked(t.old)'
      BY <1>9, <3>1, Zenon DEF Unrevoked
    <3>4. QED
      BY <2>1, <3>2, <3>3, Zenon
  <2>3. CASE ~Inherits(t)
    <3>1. sessions[s].binding = t.new
      BY <1>5, <2>1, <2>3, Zenon
    <3>2. sessions[t.new].state # "none"
      BY <2>1, <3>1, Zenon DEF IsolationInv, RowsSound
    <3>3. QED
      BY <1>5, <3>2, Zenon
  <2>4. QED
    BY <2>2, <2>3, Zenon
<1>22. BindingInheritedOnce'
  <2>1. SUFFICES ASSUME NEW s \in Session, NEW x \in Session, sessions'[s].state # "none",
                        sessions'[x].state # "none", sessions'[s].binding = sessions'[x].binding
                 PROVE  /\ sessions'[s].user = sessions'[x].user
                        /\ Unrevoked(s)' /\ Unrevoked(x)' => s = x
    BY Zenon DEF BindingInheritedOnce
  <2>2. sessions'[t.new].user = t.user /\ sessions'[t.new].binding = t.binding
    BY <1>7, <1>8, Zenon
  <2>3. CASE s = t.new
    BY <1>21, <2>1, <2>2, <2>3, Zenon
  <2>4. CASE x = t.new
    BY <1>21, <2>1, <2>2, <2>4, Zenon
  <2>5. CASE s # t.new /\ x # t.new
    <3>1. /\ sessions[s].state # "none" /\ sessions[x].state # "none"
          /\ sessions'[s].user = sessions[s].user /\ sessions'[x].user = sessions[x].user
          /\ sessions[s].binding = sessions[x].binding
          /\ Unrevoked(s)' => Unrevoked(s)
          /\ Unrevoked(x)' => Unrevoked(x)
      BY <1>20, <2>1, <2>5, Zenon
    <3>2. QED
      BY <3>1, Zenon DEF IsolationInv, BindingInheritedOnce
  <2>6. QED
    BY <2>3, <2>4, <2>5, Zenon
<1>23. /\ status' \in [User -> {"active", "disabled"}]
       /\ \A u \in User : userLock[u] # p => status'[u] = status[u]
  BY <1>2, <1>3, Zenon
<1>24. QED
  BY <1>14, <1>15, <1>16, <1>18, <1>19, <1>22, <1>23, CommitPreserves, Zenon

-----------------------------------------------------------------------------
(* The theorems about sessions.                                            *)

\* Sessions that exist at the start have a binding of their own.
LEMMA IsolationInit ==
    ASSUME Init
    PROVE  IsolationInv
<1> DEFINE rows == {[state |-> x, user |-> u, binding |-> b] :
                       x \in {"live", "expired"}, u \in User, b \in Session}
<1>0. /\ sessions \in [Session -> {NoRow} \cup rows]
      /\ \A s \in Session : Unrevoked(s) => sessions[s].binding = s
      /\ authority = {s \in Session : Unrevoked(s)}
  BY DEF Init
<1>rows. \A r \in rows : r \in SessionRow /\ r.state \in {"live", "expired"}
  BY DEF SessionRow
<1> HIDE DEF rows
<1>1. \A s \in Session : /\ sessions[s] \in SessionRow \cup {NoRow}
                         /\ sessions[s].state # "none" => Unrevoked(s) /\ sessions[s].binding = s
  <2>1. SUFFICES ASSUME NEW s \in Session
                 PROVE  /\ sessions[s] \in SessionRow \cup {NoRow}
                        /\ sessions[s].state # "none" => Unrevoked(s) /\ sessions[s].binding = s
    BY Zenon
  <2>2. sessions[s] = NoRow \/ sessions[s] \in rows
    BY <1>0, Zenon
  <2>3. sessions[s] = NoRow \/ (sessions[s] \in SessionRow /\ sessions[s].state \in {"live", "expired"})
    BY <1>rows, <2>2, Zenon
  <2>4. NoRow.state = "none"
    BY DEF NoRow
  <2>5. QED
    BY <1>0, <2>3, <2>4, Zenon DEF Unrevoked
<1>2. TypeOK
  <2>1. sessions \in [Session -> SessionRow \cup {NoRow}]
    <3>1. sessions = [s \in Session |-> sessions[s]]
      BY <1>0, Zenon
    <3>2. QED
      BY <1>1, <3>1, Zenon
  <2>2. /\ status \in [User -> {"active", "disabled"}] /\ authority \subseteq Session
        /\ userLock \in [User -> Process \cup {None}]
        /\ sessionLock \in [Session -> Process \cup {None}]
        /\ process \in [Process -> Transaction \cup {[at |-> "idle"], [at |-> "done"]}]
    BY Zenon DEF Init
  <2>3. QED
    BY <2>1, <2>2, Zenon DEF TypeOK
<1>3. \A p \in Process : process[p] = [at |-> "idle"] /\ process[p] \in Resting
  BY RestFacts, Zenon DEF Init
<1>4. \A p \in Process : ProcessSound(p)
  BY <1>3, RestSound, Zenon DEF ProcessSound, LoginSound, RevokeSound, LocksSound
<1>5. Apart
  BY <1>3, RestSound, Zenon DEF Apart
<1>6. RowsSound
  BY <1>1, Zenon DEF RowsSound, Init
<1>7. DisabledHasNothing
  <2>1. \A u \in User : status[u] # "disabled"
    BY DEF Init
  <2>2. \A b \in authority : b \in Session /\ Unrevoked(b) /\ sessions[b].binding = b
    BY <1>0, Zenon
  <2>3. QED
    BY <1>2, <2>1, <2>2, Zenon DEF DisabledHasNothing
<1>8. BindingInheritedOnce
  BY <1>1 DEF BindingInheritedOnce
<1>9. QED
  BY <1>2, <1>4, <1>5, <1>6, <1>7, <1>8, Zenon DEF IsolationInv

\* Nothing changes when nothing happens.
LEMMA IsolationStutter ==
    ASSUME IsolationInv, UNCHANGED vars
    PROVE  IsolationInv'
<1>1. /\ status' = status /\ sessions' = sessions /\ authority' = authority
      /\ userLock' = userLock /\ sessionLock' = sessionLock /\ process' = process
  BY Zenon DEF vars
<1>2. TypeOK' /\ RowsSound' /\ BindingInheritedOnce'
  BY <1>1, Zenon DEF IsolationInv, TypeOK, RowsSound, BindingInheritedOnce, Unrevoked
<1>3. Apart'
  BY <1>1, Zenon DEF IsolationInv, Apart
<1>4. DisabledHasNothing'
  BY <1>1, <1>2, Zenon DEF IsolationInv, DisabledHasNothing, Unrevoked, UnrevokedSessions
<1>5. ASSUME NEW p \in Process PROVE ProcessSound(p)'
  <2>1. LoginSound(process[p])'
    BY <1>1, Zenon DEF IsolationInv, ProcessSound, LoginSound, Inherits, Live
  <2>2. RevokeSound(process[p])'
    BY <1>1, Zenon DEF IsolationInv, ProcessSound, RevokeSound, Unrevoked, UnrevokedSessions
  <2>3. LocksSound(p)'
    BY <1>1, Zenon DEF IsolationInv, ProcessSound, LocksSound
  <2>4. QED
    BY <2>1, <2>2, <2>3, Zenon DEF ProcessSound
<1>6. QED
  BY <1>2, <1>3, <1>4, <1>5, Zenon DEF IsolationInv

\* Every statement of every transaction preserves the invariant.
LEMMA IsolationStep ==
    ASSUME IsolationInv, [Next]_vars
    PROVE  IsolationInv'
<1>1. ASSUME NEW p \in Process, Begin(p)
      PROVE  IsolationInv'
  BY <1>1, BeginLoginStep, BeginRevocationStep, BeginRevokeOneStep, Zenon DEF Begin
<1>2. ASSUME NEW p \in Process, Step(p)
      PROVE  IsolationInv'
  BY <1>2, LoginLockUserStep, LoginLockOldStep, LoginCommitStep, DisableLockUserStep,
     SelectSessionsStep, LockNextSessionStep, RevocationCommitStep, RevokeOneCommitStep,
     Zenon DEF Step
<1>3. QED
  BY <1>1, <1>2, IsolationStutter, Zenon DEF Next

\* Whatever statements of concurrent logins and revocations are interleaved,
\* what each of them read under its row locks holds until it commits.
THEOREM IsolationInvariant == Spec => []IsolationInv
<1>1. Init => IsolationInv
  BY IsolationInit, Zenon
<1>2. IsolationInv /\ [Next]_vars => IsolationInv'
  BY IsolationStep, Zenon
<1>3. QED
  BY <1>1, <1>2, PTL DEF Spec

\* A disabled user has no session, and tokens hang on unrevoked sessions only,
\* for any number of CommitLogin, UpdateManagedUser and Revoke... transactions.
THEOREM DisabledHasNothingHolds == Spec => []DisabledHasNothing
<1>1. IsolationInv => DisabledHasNothing
  BY Zenon DEF IsolationInv
<1>2. QED
  BY <1>1, IsolationInvariant, PTL

\* However many CommitLogin transactions race for one cookie, at most one of
\* them inherits its binding, and never for another user.
THEOREM BindingInheritedOnceHolds == Spec => []BindingInheritedOnce
<1>1. IsolationInv => BindingInheritedOnce
  BY Zenon DEF IsolationInv
<1>2. QED
  BY <1>1, IsolationInvariant, PTL

-----------------------------------------------------------------------------
(* ClientRegistry: the requests and the invariant.                         *)

UpdateReq == [op: {"update", "updating"}, client: Client, patch: Patch, value: ClientRow]
RotateReq == [op: {"rotate", "rotating"}, client: Client, secret: Secret, at: 0..MaxNow]
RevokedReq == [op: {"revoked"}, client: Client, secret: Secret, at: 0..MaxNow,
               targets: SUBSET Secret]
FoundReq == [op: {"found"}, client: Client, secret: Secret \cup {None}]
ListedReq == [op: {"listed"}, client: Client, secret: Secret \cup {None},
              hashes: SUBSET Secret]
AnsweredReq == [op: {"answered"}, client: Client, success: BOOLEAN]

Rotating(r) == r.op \in {"rotate", "rotating", "revoked"}

\* The row says what the administrator ordered last, and the active secrets
\* are as many as the client's type asks for.
ClientSound(c) ==
    /\ ~Registered(c) => ordered[c] = "active"
    /\ Registered(c) => clients[c].status = ordered[c]
    /\ Registered(c) /\ clients[c].type = "confidential" => \E s \in Secret : ActiveSecrets(c) = {s}
    /\ Registered(c) /\ clients[c].type # "confidential" => ActiveSecrets(c) = {}

\* A prepared patch is of an earlier version, or of what the row still says.
UpdateSound(r) ==
    r.op \in {"update", "updating"} =>
        /\ Registered(r.client) /\ r.value.type = clients[r.client].type
        /\ r.value.version < MaxVersion /\ r.value.version <= clients[r.client].version
        /\ r.value.version = clients[r.client].version =>
               r.value.status = IF r.patch.status = None THEN clients[r.client].status
                                                         ELSE r.patch.status

\* A rotation's secret is not stored yet, and what it revokes is all there is.
RotateSound(r) ==
    Rotating(r) => /\ Registered(r.client) /\ clients[r.client].type = "confidential"
                   /\ secrets[r.secret] = None
                   /\ r.op = "revoked" => r.targets = ActiveSecrets(r.client)

\* What an authentication under way found is what it watched.
AuthSound(r, w) ==
    r.op \in {"found", "listed"} =>
        /\ Registered(r.client) /\ ordered[r.client] \in w.ordered
        /\ r.secret # None => secrets[r.secret] # None
        /\ w.spent => r.secret \notin ActiveSecrets(r.client)
        /\ ~w.spent => clients[r.client].type = "confidential"
        /\ ~w.spent /\ ~w.rotated => r.secret \in ActiveSecrets(r.client)
        /\ r.op = "listed" => /\ w.spent => r.secret \notin r.hashes
                              /\ ~w.spent /\ ~w.rotated => r.secret \in r.hashes

AnswerSound(r, w) ==
    r.op = "answered" => IF r.success THEN ~w.spent /\ "active" \in w.ordered
                         ELSE w.spent \/ "disabled" \in w.ordered \/ w.rotated

LockSound(p) == req[p].op \in {"updating", "rotating", "revoked"} => lock[req[p].client] = p

RequestSound(p) ==
    /\ UpdateSound(req[p]) /\ RotateSound(req[p]) /\ LockSound(p)
    /\ AuthSound(req[p], watch[p]) /\ AnswerSound(req[p], watch[p])

\* A secret belongs to a registered client; rotations generate different ones.
SecretsSound ==
    /\ \A s \in Secret : secrets[s] # None => Registered(secrets[s].client)
    /\ \A p, q \in Process : p # q /\ Rotating(req[p]) /\ Rotating(req[q]) =>
           req[p].secret # req[q].secret

RegistryInv ==
    /\ RegistryTypeOK /\ SecretsSound
    /\ \A c \in Client : ClientSound(c)
    /\ \A p \in Process : RequestSound(p)

-----------------------------------------------------------------------------
(* Rows and requests of the registry.                                      *)

\* The fields of a prepared patch.
LEMMA UpdateReqFacts ==
    ASSUME NEW r \in UpdateReq
    PROVE  /\ r.op \in {"update", "updating"} /\ r.client \in Client /\ r.patch \in Patch
           /\ r.value \in ClientRow /\ r.patch.status \in Status \cup {None}
           /\ [r EXCEPT !.op = "updating"] \in UpdateReq
           /\ [r EXCEPT !.op = "updating"].op = "updating"
           /\ [r EXCEPT !.op = "updating"].client = r.client
           /\ [r EXCEPT !.op = "updating"].patch = r.patch
           /\ [r EXCEPT !.op = "updating"].value = r.value
BY DEF UpdateReq, Patch

\* The fields of a rotation before it has selected what it revokes.
LEMMA RotateReqFacts ==
    ASSUME NEW r \in RotateReq
    PROVE  /\ r.op \in {"rotate", "rotating"} /\ r.client \in Client /\ r.secret \in Secret
           /\ r.at \in 0..MaxNow
           /\ [r EXCEPT !.op = "rotating"] \in RotateReq
           /\ [r EXCEPT !.op = "rotating"].op = "rotating"
           /\ [r EXCEPT !.op = "rotating"].client = r.client
           /\ [r EXCEPT !.op = "rotating"].secret = r.secret
BY DEF RotateReq

\* The fields of a rotation about to commit.
LEMMA RevokedReqFacts ==
    ASSUME NEW r \in RevokedReq
    PROVE  /\ r.op = "revoked" /\ r.client \in Client /\ r.secret \in Secret
           /\ r.at \in 0..MaxNow /\ r.targets \subseteq Secret
BY DEF RevokedReq

\* The fields of an authentication.
LEMMA FoundReqFacts ==
    ASSUME NEW r \in FoundReq
    PROVE  r.op = "found" /\ r.client \in Client /\ r.secret \in Secret \cup {None}
BY DEF FoundReq

\* The fields of an authentication that has listed the digests.
LEMMA ListedReqFacts ==
    ASSUME NEW r \in ListedReq
    PROVE  /\ r.op = "listed" /\ r.client \in Client /\ r.secret \in Secret \cup {None}
           /\ r.hashes \subseteq Secret
BY DEF ListedReq

\* The fields of an authentication that has been answered.
LEMMA AnsweredReqFacts ==
    ASSUME NEW r \in AnsweredReq
    PROVE  r.op = "answered" /\ r.client \in Client /\ r.success \in BOOLEAN
BY DEF AnsweredReq

\* A process with nothing to do.
LEMMA IdleFacts == Idle.op = "idle" /\ Idle \in Request
BY DEF Idle, Request

\* The operation tells the kind of request.
LEMMA RequestKinds ==
    ASSUME NEW r \in Request
    PROVE  /\ r.op \in {"update", "updating"} => r \in UpdateReq
           /\ r.op \in {"rotate", "rotating"} => r \in RotateReq
           /\ r.op = "revoked" => r \in RevokedReq
           /\ r.op = "found" => r \in FoundReq
           /\ r.op = "listed" => r \in ListedReq
           /\ r.op = "answered" => r \in AnsweredReq
<1>1. \/ r = Idle \/ r \in UpdateReq \/ r \in RotateReq \/ r \in RevokedReq
      \/ r \in FoundReq \/ r \in ListedReq \/ r \in AnsweredReq
  BY Zenon DEF Request, UpdateReq, RotateReq, RevokedReq, FoundReq, ListedReq, AnsweredReq
<1>2. CASE r = Idle
  BY <1>2, IdleFacts
<1>3. CASE r \in UpdateReq
  <2>1. r.op \in {"update", "updating"}
    BY <1>3, UpdateReqFacts, Zenon
  <2>2. QED
    BY <1>3, <2>1
<1>4. CASE r \in RotateReq
  <2>1. r.op \in {"rotate", "rotating"}
    BY <1>4, RotateReqFacts, Zenon
  <2>2. QED
    BY <1>4, <2>1
<1>5. CASE r \in RevokedReq
  BY <1>5, RevokedReqFacts
<1>6. CASE r \in FoundReq
  BY <1>6, FoundReqFacts
<1>7. CASE r \in ListedReq
  BY <1>7, ListedReqFacts
<1>8. CASE r \in AnsweredReq
  BY <1>8, AnsweredReqFacts
<1>9. QED
  BY <1>1, <1>2, <1>3, <1>4, <1>5, <1>6, <1>7, <1>8, Zenon

\* Each kind of request is a request.
LEMMA RequestIn ==
    UpdateReq \cup RotateReq \cup RevokedReq \cup FoundReq \cup ListedReq \cup AnsweredReq
        \subseteq Request
BY Zenon DEF Request, UpdateReq, RotateReq, RevokedReq, FoundReq, ListedReq, AnsweredReq

\* Every request but an idle one names a client.
LEMMA RequestClient ==
    ASSUME NEW r \in Request
    PROVE  /\ r.op \in {"update", "updating", "rotate", "rotating", "revoked", "found", "listed"}
                 => r.client \in Client
           /\ Rotating(r) => r.client \in Client /\ r.secret \in Secret
           /\ r.op \in {"found", "listed"} => r.client \in Client /\ r.secret \in Secret \cup {None}
<1>1. CASE r.op \in {"update", "updating"}
  BY <1>1, RequestKinds, UpdateReqFacts, Zenon DEF Rotating
<1>2. CASE r.op \in {"rotate", "rotating"}
  BY <1>2, RequestKinds, RotateReqFacts, Zenon
<1>3. CASE r.op = "revoked"
  BY <1>3, RequestKinds, RevokedReqFacts, Zenon
<1>4. CASE r.op = "found"
  BY <1>4, RequestKinds, FoundReqFacts, Zenon DEF Rotating
<1>5. CASE r.op = "listed"
  BY <1>5, RequestKinds, ListedReqFacts, Zenon DEF Rotating
<1>6. QED
  BY <1>1, <1>2, <1>3, <1>4, <1>5, Zenon DEF Rotating

\* The fields of a client row, and that it is a row.
LEMMA ClientFacts ==
    ASSUME NEW row \in ClientRow
    PROVE  /\ row # None /\ row.status \in Status /\ row.type \in Type /\ row.profile \in Profile
           /\ row.version \in Nat /\ row.version >= 1 /\ row.version <= MaxVersion
           /\ \A v \in 1..MaxVersion :
                /\ [row EXCEPT !.version = v] \in ClientRow
                /\ [row EXCEPT !.version = v].version = v
                /\ [row EXCEPT !.version = v].status = row.status
                /\ [row EXCEPT !.version = v].type = row.type
<1>1. row # None
  BY RowAssumption, Zenon
<1>2. /\ row.status \in Status /\ row.type \in Type /\ row.profile \in Profile
      /\ row.version \in 1..MaxVersion
  BY DEF ClientRow
<1>3. ASSUME NEW v \in 1..MaxVersion
      PROVE  /\ [row EXCEPT !.version = v] \in ClientRow
             /\ [row EXCEPT !.version = v].version = v
             /\ [row EXCEPT !.version = v].status = row.status
             /\ [row EXCEPT !.version = v].type = row.type
  BY DEF ClientRow
<1>4. row.version \in Nat /\ row.version >= 1 /\ row.version <= MaxVersion
  BY <1>2, ConstantsAssumption
<1>5. QED
  BY <1>1, <1>2, <1>3, <1>4, Zenon

\* A registered client has a row.
LEMMA RegisteredRow ==
    ASSUME RegistryTypeOK, NEW c \in Client
    PROVE  Registered(c) => clients[c] \in ClientRow
BY Zenon DEF RegistryTypeOK, Registered

\* The fields of a secret row, and that revoking it keeps them.
LEMMA SecretFacts ==
    ASSUME NEW row \in SecretRow
    PROVE  /\ row # None /\ row.client \in Client /\ row.state \in {"active", "revoked"}
           /\ [row EXCEPT !.state = "revoked"] \in SecretRow
           /\ [row EXCEPT !.state = "revoked"].state = "revoked"
           /\ [row EXCEPT !.state = "revoked"].client = row.client
<1>1. row # None
  BY RowAssumption, Zenon
<1>2. QED
  BY <1>1 DEF SecretRow

\* A secret that is inserted is active and of its client.
LEMMA NewSecret ==
    ASSUME NEW c \in Client, NEW t \in 0..MaxNow
    PROVE  LET row == [state |-> "active", client |-> c, created |-> t]
           IN  row \in SecretRow /\ row.state = "active" /\ row.client = c
BY DEF SecretRow

\* A request moves on, and the others do not.
LEMMA RequestMoves ==
    ASSUME RegistryTypeOK, NEW p \in Process, NEW r \in Request, req' = [req EXCEPT ![p] = r]
    PROVE  /\ req' \in [Process -> Request] /\ req'[p] = r
           /\ \A q \in Process \ {p} : req'[q] = req[q]
BY Zenon DEF RegistryTypeOK

\* The lock of a client passes between p and nobody.
PassesLock(p, c) ==
    \/ lock' = lock
    \/ /\ lock[c] \in {p, None}
       /\ lock' = [lock EXCEPT ![c] = p] \/ lock' = [lock EXCEPT ![c] = None]

\* The others keep their locks.
LEMMA OthersLocks ==
    ASSUME RegistryTypeOK, NEW p \in Process, NEW c \in Client, PassesLock(p, c)
    PROVE  /\ lock' \in [Client -> Process \cup {None}]
           /\ \A q \in Process \ {p}, x \in Client : lock[x] = q => lock'[x] = q
<1>1. lock \in [Client -> Process \cup {None}] /\ None \notin Process
  BY ConstantsAssumption, Zenon DEF RegistryTypeOK
<1>2. QED
  BY <1>1, Zenon DEF PassesLock

-----------------------------------------------------------------------------
(* Steps that write no row.                                                *)

\* What is said of the rows, and of a request against the rows, is as before.
LEMMA SameRows ==
    ASSUME clients' = clients, secrets' = secrets, ordered' = ordered
    PROVE  /\ \A c \in Client : ClientSound(c) => ClientSound(c)'
           /\ \A r : UpdateSound(r) => UpdateSound(r)'
           /\ \A r : RotateSound(r) => RotateSound(r)'
           /\ \A r, w : AuthSound(r, w) => AuthSound(r, w)'
<1>1. \A c : (Registered(c)' <=> Registered(c)) /\ ActiveSecrets(c)' = ActiveSecrets(c)
  BY Zenon DEF Registered, ActiveSecrets
<1>2. ASSUME NEW c \in Client, ClientSound(c) PROVE ClientSound(c)'
  BY <1>1, <1>2, Zenon DEF ClientSound
<1>3. ASSUME NEW r, UpdateSound(r) PROVE UpdateSound(r)'
  BY <1>1, <1>3, Zenon DEF UpdateSound
<1>4. ASSUME NEW r, RotateSound(r) PROVE RotateSound(r)'
  BY <1>1, <1>4, Zenon DEF RotateSound
<1>5. ASSUME NEW r, NEW w, AuthSound(r, w) PROVE AuthSound(r, w)'
  BY <1>1, <1>5, Zenon DEF AuthSound
<1>6. QED
  BY <1>2, <1>3, <1>4, <1>5, Zenon

\* The clock ticks, or nothing happens.
LEMMA Unmoved ==
    ASSUME RegistryInv, UNCHANGED <<clients, secrets, lock, req, ordered, watch>>,
           now' \in 0..MaxNow
    PROVE  RegistryInv'
<1>1. /\ clients' = clients /\ secrets' = secrets /\ lock' = lock /\ req' = req
      /\ ordered' = ordered /\ watch' = watch
  BY Zenon
<1>2. RegistryTypeOK'
  BY <1>1, Zenon DEF RegistryInv, RegistryTypeOK
<1>3. SecretsSound'
  BY <1>1, Zenon DEF RegistryInv, SecretsSound, Registered
<1>4. \A c \in Client : ClientSound(c)'
  BY <1>1, SameRows, Zenon DEF RegistryInv
<1>5. ASSUME NEW p \in Process PROVE RequestSound(p)'
  <2>1. PICK r : r = req[p]
    BY Zenon
  <2>1b. PICK w : w = watch[p]
    BY Zenon
  <2>2. req'[p] = r /\ watch'[p] = w /\ lock' = lock
    BY <1>1, <2>1, <2>1b, Zenon
  <2>3. /\ UpdateSound(r) /\ RotateSound(r) /\ LockSound(p)
        /\ AuthSound(r, w) /\ AnswerSound(r, w)
    BY <2>1, <2>1b, Zenon DEF RegistryInv, RequestSound
  <2>4. UpdateSound(r)' /\ RotateSound(r)' /\ AuthSound(r, w)'
    BY <1>1, <2>3, SameRows, Zenon
  <2>5. LockSound(p)'
    BY <2>1, <2>1b, <2>2, <2>3, Zenon DEF LockSound
  <2>6. QED
    BY <2>2, <2>3, <2>4, <2>5, Zenon DEF RequestSound
<1>6. QED
  BY <1>2, <1>3, <1>4, <1>5, Zenon DEF RegistryInv

\* What has to be shown of a request p that becomes r, watched by w, while no
\* row changes.
LEMMA QuietRequest ==
    ASSUME RegistryInv, NEW p \in Process, NEW r \in Request, NEW w \in Watch,
           NEW c \in Client, PassesLock(p, c),
           req' = [req EXCEPT ![p] = r], watch' = [watch EXCEPT ![p] = w],
           UNCHANGED <<clients, secrets, ordered, now>>,
           r.op \in {"updating", "rotating", "revoked"} => lock'[r.client] = p,
           UpdateSound(r), RotateSound(r), AuthSound(r, w), AnswerSound(r, w),
           Rotating(r) => \A q \in Process \ {p} : Rotating(req[q]) => req[q].secret # r.secret
    PROVE  RegistryInv'
<1>1. clients' = clients /\ secrets' = secrets /\ ordered' = ordered /\ now' = now /\ RegistryTypeOK
  BY Zenon DEF RegistryInv
<1>2. /\ req' \in [Process -> Request] /\ req'[p] = r
      /\ \A q \in Process \ {p} : req'[q] = req[q]
  BY <1>1, RequestMoves, Zenon
<1>3. /\ watch' \in [Process -> Watch] /\ watch'[p] = w
      /\ \A q \in Process \ {p} : watch'[q] = watch[q]
  BY <1>1, Zenon DEF RegistryTypeOK
<1>4. /\ lock' \in [Client -> Process \cup {None}]
      /\ \A q \in Process \ {p}, x \in Client : lock[x] = q => lock'[x] = q
  BY <1>1, OthersLocks, Zenon
<1>5. RegistryTypeOK'
  BY <1>1, <1>2, <1>3, <1>4, Zenon DEF RegistryTypeOK
<1>6. SecretsSound'
  <2>1. \A s \in Secret : secrets'[s] # None => clients'[secrets'[s].client] # None
    BY <1>1, Zenon DEF RegistryInv, SecretsSound, Registered
  <2>2. ASSUME NEW x \in Process, NEW y \in Process, x # y, Rotating(req'[x]), Rotating(req'[y])
        PROVE  req'[x].secret # req'[y].secret
    <3>1. CASE x = p
      BY <1>2, <2>2, <3>1, Zenon
    <3>2. CASE y = p
      BY <1>2, <2>2, <3>2, Zenon
    <3>3. CASE x # p /\ y # p
      BY <1>2, <2>2, <3>3, Zenon DEF RegistryInv, SecretsSound
    <3>4. QED
      BY <3>1, <3>2, <3>3, Zenon
  <2>3. QED
    BY <2>1, <2>2, Zenon DEF SecretsSound, Rotating, Registered
<1>7. \A x \in Client : ClientSound(x)'
  BY <1>1, SameRows, Zenon DEF RegistryInv
<1>8. RequestSound(p)'
  <2>1. UpdateSound(r)' /\ RotateSound(r)' /\ AuthSound(r, w)'
    BY <1>1, SameRows, Zenon
  <2>2. LockSound(p)'
    BY <1>2, Zenon DEF LockSound
  <2>3. QED
    BY <1>2, <1>3, <2>1, <2>2, Zenon DEF RequestSound, AnswerSound
<1>9. ASSUME NEW q \in Process, q # p PROVE RequestSound(q)'
  <2>1. PICK t : t = req[q]
    BY Zenon
  <2>1b. PICK v : v = watch[q]
    BY Zenon
  <2>2. req'[q] = t /\ watch'[q] = v /\ t \in Request
    BY <1>1, <1>2, <1>3, <1>9, <2>1, <2>1b, Zenon DEF RegistryTypeOK
  <2>3. UpdateSound(t) /\ RotateSound(t) /\ LockSound(q) /\ AuthSound(t, v) /\ AnswerSound(t, v)
    BY <2>1, <2>1b, Zenon DEF RegistryInv, RequestSound
  <2>4. UpdateSound(t)' /\ RotateSound(t)' /\ AuthSound(t, v)'
    BY <1>1, <2>3, SameRows, Zenon
  <2>5. t.op \in {"updating", "rotating", "revoked"} => t.client \in Client
    BY <2>2, RequestClient, Zenon
  <2>6. LockSound(q)'
    BY <1>4, <1>9, <2>1, <2>1b, <2>2, <2>3, <2>5, Zenon DEF LockSound
  <2>7. QED
    BY <2>2, <2>3, <2>4, <2>6, Zenon DEF RequestSound, AnswerSound
<1>10. QED
  BY <1>5, <1>6, <1>7, <1>8, <1>9, Zenon DEF RegistryInv

\* Of a request that is idle there is nothing to show.
LEMMA IdleSound ==
    ASSUME NEW w
    PROVE  /\ UpdateSound(Idle) /\ RotateSound(Idle) /\ AuthSound(Idle, w) /\ AnswerSound(Idle, w)
           /\ ~Rotating(Idle) /\ Idle.op \notin {"updating", "rotating", "revoked"}
BY IdleFacts, Zenon DEF UpdateSound, RotateSound, AuthSound, AnswerSound, Rotating

\* Nor of an authentication as a patch or a rotation, or the reverse.
LEMMA OtherKind ==
    ASSUME NEW r, NEW w
    PROVE  /\ r.op \in {"update", "updating"} =>
                RotateSound(r) /\ AuthSound(r, w) /\ AnswerSound(r, w) /\ ~Rotating(r)
           /\ r.op \in {"rotate", "rotating", "revoked"} =>
                UpdateSound(r) /\ AuthSound(r, w) /\ AnswerSound(r, w)
           /\ r.op \in {"found", "listed"} =>
                UpdateSound(r) /\ RotateSound(r) /\ AnswerSound(r, w) /\ ~Rotating(r)
           /\ r.op = "answered" =>
                UpdateSound(r) /\ RotateSound(r) /\ AuthSound(r, w) /\ ~Rotating(r)
<1>1. CASE r.op \in {"update", "updating"}
  BY <1>1, Zenon DEF UpdateSound, RotateSound, AuthSound, AnswerSound, Rotating
<1>2. CASE r.op \in {"rotate", "rotating", "revoked"}
  BY <1>2, Zenon DEF UpdateSound, RotateSound, AuthSound, AnswerSound, Rotating
<1>3. CASE r.op \in {"found", "listed"}
  BY <1>3, Zenon DEF UpdateSound, RotateSound, AuthSound, AnswerSound, Rotating
<1>4. CASE r.op = "answered"
  BY <1>4, Zenon DEF UpdateSound, RotateSound, AuthSound, AnswerSound, Rotating
<1>5. QED
  BY <1>1, <1>2, <1>3, <1>4, Zenon

\* A step that does not touch what is watched.
LEMMA SameWatch ==
    ASSUME RegistryInv, NEW p \in Process, watch' = watch
    PROVE  \E w \in Watch : w = watch[p] /\ watch' = [watch EXCEPT ![p] = w]
BY Zenon DEF RegistryInv, RegistryTypeOK

\* prepareUpdate: the patch is applied to the row that was read.
LEMMA UpdateReadStep ==
    ASSUME RegistryInv, NEW p \in Process, NEW c \in Client, NEW patch \in Patch,
           UpdateRead(p, c, patch)
    PROVE  RegistryInv'
<1>1. PICK row : row = clients[c]
  BY Zenon
<1> DEFINE value == Patched(row, patch)
           r == [op |-> "update", client |-> c, patch |-> patch, value |-> value]
<1>2. /\ Registered(c) /\ row.version < MaxVersion /\ req' = [req EXCEPT ![p] = r]
      /\ UNCHANGED <<clients, secrets, lock, now, ordered, watch>>
  BY <1>1, Zenon DEF UpdateRead
<1>3. row \in ClientRow
  BY <1>1, <1>2, RegisteredRow, Zenon DEF RegistryInv
<1>4. /\ value \in ClientRow /\ value.version = row.version /\ value.type = row.type
      /\ value.status = IF patch.status = None THEN row.status ELSE patch.status
  <2>1. patch.status \in Status \cup {None} /\ patch.profile \in Profile \cup {None}
    BY DEF Patch
  <2>2. QED
    BY <1>3, <2>1, Zenon DEF Patched, ClientRow
<1> HIDE DEF value
<1>5. /\ r \in UpdateReq /\ r.op = "update" /\ r.client = c /\ r.patch = patch /\ r.value = value
  BY <1>4 DEF UpdateReq
<1> HIDE DEF r
<1>6. value.version <= row.version
  BY <1>3, <1>4, ClientFacts
<1>7. UpdateSound(r)
  BY <1>1, <1>2, <1>4, <1>5, <1>6, Zenon DEF UpdateSound
<1>8. PICK w \in Watch : w = watch[p] /\ watch' = [watch EXCEPT ![p] = w]
  BY <1>2, SameWatch, Zenon
<1>9. r \in Request /\ RotateSound(r) /\ AuthSound(r, w) /\ AnswerSound(r, w) /\ ~Rotating(r)
  BY <1>5, RequestIn, OtherKind, Zenon
<1>10. r.op \notin {"updating", "rotating", "revoked"}
  BY <1>5
<1>11. PassesLock(p, c)
  BY <1>2, Zenon DEF PassesLock
<1>12. QED
  BY <1>2, <1>7, <1>8, <1>9, <1>10, <1>11, QuietRequest, Zenon

\* UpdateClient locks the row.
LEMMA UpdateLockStep ==
    ASSUME RegistryInv, NEW p \in Process, UpdateLock(p)
    PROVE  RegistryInv'
<1>1. PICK r : r = req[p]
  BY Zenon
<1> DEFINE u == [r EXCEPT !.op = "updating"]
<1>2. /\ r.op = "update" /\ lock[r.client] = None /\ lock' = [lock EXCEPT ![r.client] = p]
      /\ req' = [req EXCEPT ![p] = u]
      /\ UNCHANGED <<clients, secrets, now, ordered, watch>>
  BY <1>1, Zenon DEF UpdateLock
<1>3. r \in Request /\ UpdateSound(r) /\ lock \in [Client -> Process \cup {None}]
  BY <1>1, Zenon DEF RegistryInv, RegistryTypeOK, RequestSound
<1>4. r \in UpdateReq
  BY <1>2, <1>3, RequestKinds, Zenon
<1>5. /\ u \in UpdateReq /\ u.op = "updating" /\ u.client = r.client /\ u.patch = r.patch
      /\ u.value = r.value /\ r.client \in Client
  BY <1>4, UpdateReqFacts, Zenon
<1> HIDE DEF u
<1>6. UpdateSound(u)
  BY <1>2, <1>3, <1>5, Zenon DEF UpdateSound
<1>7. lock'[u.client] = p /\ PassesLock(p, r.client)
  BY <1>2, <1>3, <1>5, Zenon DEF PassesLock
<1>8. PICK w \in Watch : w = watch[p] /\ watch' = [watch EXCEPT ![p] = w]
  BY <1>2, SameWatch, Zenon
<1>9. u \in Request /\ RotateSound(u) /\ AuthSound(u, w) /\ AnswerSound(u, w) /\ ~Rotating(u)
  BY <1>5, RequestIn, OtherKind, Zenon
<1>10. QED
  BY <1>2, <1>5, <1>6, <1>7, <1>8, <1>9, QuietRequest, Zenon

\* RotateSecret reads the clock and the client and generates a secret.
LEMMA RotateReadStep ==
    ASSUME RegistryInv, NEW p \in Process, NEW c \in Client, NEW s \in Secret,
           RotateRead(p, c, s)
    PROVE  RegistryInv'
<1>1. PICK t : t = now
  BY Zenon
<1> DEFINE r == [op |-> "rotate", client |-> c, secret |-> s, at |-> t]
<1>2. /\ Registered(c) /\ clients[c].type = "confidential" /\ Unused(s)
      /\ req' = [req EXCEPT ![p] = r]
      /\ UNCHANGED <<clients, secrets, lock, now, ordered, watch>>
  BY <1>1, Zenon DEF RotateRead
<1>3. t \in 0..MaxNow
  BY <1>1, Zenon DEF RegistryInv, RegistryTypeOK
<1>4. r \in RotateReq /\ r.op = "rotate" /\ r.client = c /\ r.secret = s
  BY <1>3 DEF RotateReq
<1> HIDE DEF r
<1>5. /\ secrets[s] = None
      /\ \A q \in Process : Rotating(req[q]) => req[q].secret # s
  BY <1>2, Zenon DEF Unused, Rotating
<1>6. r.op # "revoked" /\ r.op \notin {"updating", "rotating", "revoked"}
  BY <1>4
<1>7. RotateSound(r)
  BY <1>2, <1>4, <1>5, <1>6, Zenon DEF RotateSound
<1>8. PICK w \in Watch : w = watch[p] /\ watch' = [watch EXCEPT ![p] = w]
  BY <1>2, SameWatch, Zenon
<1>9. r \in Request /\ UpdateSound(r) /\ AuthSound(r, w) /\ AnswerSound(r, w)
  BY <1>4, RequestIn, OtherKind, Zenon
<1>10. PassesLock(p, c)
  BY <1>2, Zenon DEF PassesLock
<1>11. QED
  BY <1>2, <1>4, <1>5, <1>6, <1>7, <1>8, <1>9, <1>10, QuietRequest, Zenon

\* RotateClientSecret locks the row.
LEMMA RotateLockStep ==
    ASSUME RegistryInv, NEW p \in Process, RotateLock(p)
    PROVE  RegistryInv'
<1>1. PICK r : r = req[p]
  BY Zenon
<1> DEFINE u == [r EXCEPT !.op = "rotating"]
<1>2. /\ r.op = "rotate" /\ lock[r.client] = None /\ lock' = [lock EXCEPT ![r.client] = p]
      /\ req' = [req EXCEPT ![p] = u]
      /\ UNCHANGED <<clients, secrets, now, ordered, watch>>
  BY <1>1, Zenon DEF RotateLock
<1>3. r \in Request /\ RotateSound(r) /\ lock \in [Client -> Process \cup {None}]
  BY <1>1, Zenon DEF RegistryInv, RegistryTypeOK, RequestSound
<1>4. r \in RotateReq /\ Rotating(r)
  BY <1>2, <1>3, RequestKinds, Zenon DEF Rotating
<1>5. /\ u \in RotateReq /\ u.op = "rotating" /\ u.client = r.client /\ u.secret = r.secret
      /\ r.client \in Client
  BY <1>4, RotateReqFacts, Zenon
<1> HIDE DEF u
<1>6. u.op # "revoked"
  BY <1>5
<1>7. RotateSound(u)
  BY <1>3, <1>4, <1>5, <1>6, Zenon DEF RotateSound
<1>8. lock'[u.client] = p /\ PassesLock(p, r.client)
  BY <1>2, <1>3, <1>5, Zenon DEF PassesLock
<1>9. \A q \in Process \ {p} : Rotating(req[q]) => req[q].secret # u.secret
  BY <1>1, <1>4, <1>5, Zenon DEF RegistryInv, SecretsSound
<1>10. PICK w \in Watch : w = watch[p] /\ watch' = [watch EXCEPT ![p] = w]
  BY <1>2, SameWatch, Zenon
<1>11. u \in Request /\ UpdateSound(u) /\ AuthSound(u, w) /\ AnswerSound(u, w)
  BY <1>5, RequestIn, OtherKind, Zenon
<1>12. QED
  BY <1>2, <1>5, <1>7, <1>8, <1>9, <1>10, <1>11, QuietRequest, Zenon

\* The revoking UPDATE selects all the active secrets, or fails a CHECK.
LEMMA RotateRevokeStep ==
    ASSUME RegistryInv, NEW p \in Process, RotateRevoke(p)
    PROVE  RegistryInv'
<1>1. PICK r : r = req[p]
  BY Zenon
<1>2. PICK targets : targets = ActiveSecrets(r.client)
  BY Zenon
<1> DEFINE u == [op |-> "revoked", client |-> r.client, secret |-> r.secret, at |-> r.at,
                 targets |-> targets]
<1>3. /\ r.op = "rotating"
      /\ \/ req' = [req EXCEPT ![p] = Idle] /\ lock' = [lock EXCEPT ![r.client] = None]
         \/ req' = [req EXCEPT ![p] = u] /\ lock' = lock
      /\ UNCHANGED <<clients, secrets, now, ordered, watch>>
  BY <1>1, <1>2, Zenon DEF RotateRevoke
<1>4. /\ r \in Request /\ RotateSound(r) /\ LockSound(p)
      /\ lock \in [Client -> Process \cup {None}]
  BY <1>1, Zenon DEF RegistryInv, RegistryTypeOK, RequestSound
<1>5. r \in RotateReq /\ Rotating(r)
  BY <1>3, <1>4, RequestKinds, Zenon DEF Rotating
<1>6. r.client \in Client /\ r.secret \in Secret /\ r.at \in 0..MaxNow /\ targets \in SUBSET Secret
  BY <1>2, <1>5, RotateReqFacts, Zenon DEF ActiveSecrets
<1>7. u \in RevokedReq /\ u.op = "revoked" /\ u.client = r.client /\ u.secret = r.secret
      /\ u.targets = targets
  BY <1>6 DEF RevokedReq
<1> HIDE DEF u
<1>8. lock[r.client] = p
  BY <1>1, <1>3, <1>4, Zenon DEF LockSound
<1>9. RotateSound(u)
  BY <1>2, <1>4, <1>5, <1>7, Zenon DEF RotateSound
<1>10. PICK w \in Watch : w = watch[p] /\ watch' = [watch EXCEPT ![p] = w]
  BY <1>3, SameWatch, Zenon
<1>11. CASE req' = [req EXCEPT ![p] = Idle] /\ lock' = [lock EXCEPT ![r.client] = None]
  <2>1. PassesLock(p, r.client)
    BY <1>8, <1>11, Zenon DEF PassesLock
  <2>2. QED
    BY <1>3, <1>6, <1>10, <1>11, <2>1, IdleFacts, IdleSound, QuietRequest, Zenon
<1>12. CASE req' = [req EXCEPT ![p] = u] /\ lock' = lock
  <2>1. PassesLock(p, r.client) /\ lock'[u.client] = p
    BY <1>7, <1>8, <1>12, Zenon DEF PassesLock
  <2>2. u \in Request /\ UpdateSound(u) /\ AuthSound(u, w) /\ AnswerSound(u, w)
    BY <1>7, RequestIn, OtherKind, Zenon
  <2>3. \A q \in Process \ {p} : Rotating(req[q]) => req[q].secret # u.secret
    BY <1>1, <1>5, <1>7, Zenon DEF RegistryInv, SecretsSound
  <2>4. QED
    BY <1>3, <1>6, <1>9, <1>10, <1>12, <2>1, <2>2, <2>3, QuietRequest, Zenon
<1>13. QED
  BY <1>3, <1>11, <1>12, Zenon

-----------------------------------------------------------------------------
(* Authentication.                                                         *)

\* The client is found by its public identifier.
LEMMA FindClientStep ==
    ASSUME RegistryInv, NEW p \in Process, NEW c \in Client, NEW s \in Secret \cup {None},
           FindClient(p, c, s)
    PROVE  RegistryInv'
<1>1. PICK spent : spent = (s \notin ActiveSecrets(c))
  BY Zenon
<1>1b. PICK o : o = ordered[c]
  BY Zenon
<1> DEFINE r == [op |-> "found", client |-> c, secret |-> s]
           w == [spent |-> spent, ordered |-> {o}, rotated |-> FALSE]
<1>2. /\ Registered(c)
      /\ req' = [req EXCEPT ![p] = r] /\ watch' = [watch EXCEPT ![p] = w]
      /\ UNCHANGED <<clients, secrets, lock, now, ordered>>
  BY <1>1, <1>1b, Zenon DEF FindClient
<1>3. /\ Registered(c)
      /\ s # None => secrets[s] # None
  BY Zenon DEF FindClient
<1>4. spent \in BOOLEAN /\ o \in Status
  BY <1>1, <1>1b, Zenon DEF RegistryInv, RegistryTypeOK
<1>5. r \in FoundReq /\ r.op = "found" /\ r.client = c /\ r.secret = s
  BY DEF FoundReq
<1>6. w \in Watch /\ w.spent = spent /\ w.ordered = {o} /\ w.rotated = FALSE
  BY <1>4 DEF Watch
<1> HIDE DEF r, w
<1>7. ~spent => s \in ActiveSecrets(c) /\ clients[c].type = "confidential"
  BY <1>1, <1>1b, <1>3, Zenon DEF RegistryInv, ClientSound
<1>8. AuthSound(r, w)
  <2>1. r.op # "listed"
    BY <1>5
  <2>2. QED
    BY <1>1, <1>1b, <1>3, <1>5, <1>6, <1>7, <2>1, Zenon DEF AuthSound
<1>9. r \in Request /\ UpdateSound(r) /\ RotateSound(r) /\ AnswerSound(r, w) /\ ~Rotating(r)
  BY <1>5, RequestIn, OtherKind, Zenon
<1>10. r.op \notin {"updating", "rotating", "revoked"} /\ PassesLock(p, c)
  BY <1>2, <1>5, Zenon DEF PassesLock
<1>11. QED
  BY <1>2, <1>6, <1>8, <1>9, <1>10, QuietRequest, Zenon

\* ListActiveSecretHashes.
LEMMA ListActiveHashesStep ==
    ASSUME RegistryInv, NEW p \in Process, ListActiveHashes(p)
    PROVE  RegistryInv'
<1>1. PICK r : r = req[p]
  BY Zenon
<1>1b. PICK hashes : hashes = ActiveSecrets(r.client)
  BY Zenon
<1> DEFINE u == [op |-> "listed", client |-> r.client, secret |-> r.secret, hashes |-> hashes]
<1>2. /\ r.op = "found" /\ req' = [req EXCEPT ![p] = u]
      /\ UNCHANGED <<clients, secrets, lock, now, ordered, watch>>
  BY <1>1, <1>1b, Zenon DEF ListActiveHashes
<1>3. PICK w \in Watch : w = watch[p] /\ watch' = [watch EXCEPT ![p] = w]
  BY <1>2, SameWatch, Zenon
<1>4. r \in Request /\ AuthSound(r, w)
  BY <1>1, <1>1b, <1>3, Zenon DEF RegistryInv, RegistryTypeOK, RequestSound
<1>5. r.client \in Client /\ r.secret \in Secret \cup {None} /\ hashes \in SUBSET Secret
  BY <1>1, <1>1b, <1>2, <1>4, RequestKinds, FoundReqFacts, Zenon DEF ActiveSecrets
<1>6. /\ u \in ListedReq /\ u.op = "listed" /\ u.client = r.client /\ u.secret = r.secret
      /\ u.hashes = hashes
  BY <1>5 DEF ListedReq
<1> HIDE DEF u
<1>7. AuthSound(u, w)
  BY <1>1, <1>1b, <1>2, <1>4, <1>6, Zenon DEF AuthSound
<1>8. u \in Request /\ UpdateSound(u) /\ RotateSound(u) /\ AnswerSound(u, w) /\ ~Rotating(u)
  BY <1>6, RequestIn, OtherKind, Zenon
<1>9. u.op \notin {"updating", "rotating", "revoked"} /\ PassesLock(p, r.client)
  BY <1>2, <1>6, Zenon DEF PassesLock
<1>10. QED
  BY <1>2, <1>3, <1>5, <1>7, <1>8, <1>9, QuietRequest, Zenon

\* The fields of an answer.
LEMMA AnswerFacts ==
    ASSUME NEW c \in Client, NEW b \in BOOLEAN
    PROVE  /\ Answered(c, b) \in AnsweredReq /\ Answered(c, b).op = "answered"
           /\ Answered(c, b).success = b
BY DEF Answered, AnsweredReq

\* ValidateSecret: the client is read again and the listed digests compared.
LEMMA ValidateSecretStep ==
    ASSUME RegistryInv, NEW p \in Process, ValidateSecret(p)
    PROVE  RegistryInv'
<1>1. PICK r : r = req[p]
  BY Zenon
<1>1b. PICK value : value = clients[r.client]
  BY Zenon
<1>2. PICK b \in BOOLEAN : b <=> value.status = "active" /\ value.type = "confidential"
                                 /\ r.secret \in r.hashes
  BY Zenon
<1> DEFINE u == Answered(r.client, b)
<1>3. /\ r.op = "listed"
      /\ UNCHANGED <<clients, secrets, lock, now, ordered, watch>>
  BY <1>1, <1>1b, Zenon DEF ValidateSecret
<1>4. req' = [req EXCEPT ![p] = u]
  <2>1. b = (/\ value.status = "active" /\ value.type = "confidential"
             /\ r.secret \in r.hashes)
    BY <1>2, Zenon
  <2>2. QED
    BY <1>1, <1>1b, <2>1, Zenon DEF ValidateSecret
<1>5. PICK w \in Watch : w = watch[p] /\ watch' = [watch EXCEPT ![p] = w]
  BY <1>3, SameWatch, Zenon
<1>6. r \in Request /\ AuthSound(r, w)
  BY <1>1, <1>1b, <1>5, Zenon DEF RegistryInv, RegistryTypeOK, RequestSound
<1>7. r.client \in Client
  BY <1>3, <1>6, RequestKinds, ListedReqFacts, Zenon
<1>8. u \in AnsweredReq /\ u.op = "answered" /\ u.success = b
  BY <1>7, AnswerFacts, Zenon
<1> HIDE DEF u
<1>9. /\ Registered(r.client) /\ ordered[r.client] \in w.ordered
      /\ ~w.spent => value.type = "confidential"
      /\ w.spent => r.secret \notin r.hashes
      /\ ~w.spent /\ ~w.rotated => r.secret \in r.hashes
  BY <1>1, <1>1b, <1>3, <1>6, Zenon DEF AuthSound
<1>10. value.status \in {"active", "disabled"} /\ value.status \in w.ordered
  <2>1. value.status = ordered[r.client]
    BY <1>1, <1>1b, <1>7, <1>9, Zenon DEF RegistryInv, ClientSound
  <2>2. ordered[r.client] \in Status
    BY <1>7, Zenon DEF RegistryInv, RegistryTypeOK
  <2>3. QED
    BY <1>9, <2>1, <2>2, Zenon DEF Status
<1>11. IF b THEN ~w.spent /\ "active" \in w.ordered
            ELSE w.spent \/ "disabled" \in w.ordered \/ w.rotated
  <2>1. b => ~w.spent /\ "active" \in w.ordered
    BY <1>2, <1>9, <1>10, Zenon
  <2>2. ~b => w.spent \/ "disabled" \in w.ordered \/ w.rotated
    BY <1>2, <1>9, <1>10, Zenon
  <2>3. QED
    BY <2>1, <2>2, Zenon
<1>12. AnswerSound(u, w)
  BY <1>8, <1>11, Zenon DEF AnswerSound
<1>13. u \in Request /\ UpdateSound(u) /\ RotateSound(u) /\ AuthSound(u, w) /\ ~Rotating(u)
  BY <1>8, RequestIn, OtherKind, Zenon
<1>14. u.op \notin {"updating", "rotating", "revoked"} /\ PassesLock(p, r.client)
  BY <1>3, <1>8, Zenon DEF PassesLock
<1>15. QED
  BY <1>3, <1>4, <1>5, <1>7, <1>12, <1>13, <1>14, QuietRequest, Zenon

\* ResolvePublicClient.
LEMMA ResolvePublicStep ==
    ASSUME RegistryInv, NEW p \in Process, NEW c \in Client, ResolvePublic(p, c)
    PROVE  RegistryInv'
<1>1. PICK value : value = clients[c]
  BY Zenon
<1>1b. PICK o : o = ordered[c]
  BY Zenon
<1>2. PICK b \in BOOLEAN : b = (value.status = "active" /\ value.type = "public")
  BY Zenon
<1>3. PICK spent \in BOOLEAN : spent = (value.type # "public")
  BY Zenon
<1> DEFINE u == Answered(c, b)
           w == [spent |-> spent, ordered |-> {o}, rotated |-> FALSE]
<1>4. /\ Registered(c) /\ req' = [req EXCEPT ![p] = u] /\ watch' = [watch EXCEPT ![p] = w]
      /\ UNCHANGED <<clients, secrets, lock, now, ordered>>
  BY <1>1, <1>1b, <1>2, <1>3, Zenon DEF ResolvePublic
<1>5. o \in Status /\ value.status = o
  BY <1>1, <1>1b, <1>4, Zenon DEF RegistryInv, RegistryTypeOK, ClientSound
<1>6. u \in AnsweredReq /\ u.op = "answered" /\ u.success = b
  BY AnswerFacts, Zenon
<1>7. w \in Watch /\ w.spent = spent /\ w.ordered = {o}
  BY <1>5 DEF Watch
<1> HIDE DEF u, w
<1>8. AnswerSound(u, w)
  BY <1>2, <1>3, <1>5, <1>6, <1>7, Zenon DEF AnswerSound, Status
<1>9. u \in Request /\ UpdateSound(u) /\ RotateSound(u) /\ AuthSound(u, w) /\ ~Rotating(u)
  BY <1>6, RequestIn, OtherKind, Zenon
<1>10. u.op \notin {"updating", "rotating", "revoked"} /\ PassesLock(p, c)
  BY <1>4, <1>6, Zenon DEF PassesLock
<1>11. QED
  BY <1>4, <1>7, <1>8, <1>9, <1>10, QuietRequest, Zenon

\* The response is written.
LEMMA RespondStep ==
    ASSUME RegistryInv, NEW p \in Process, Respond(p)
    PROVE  RegistryInv'
<1>1. /\ req' = [req EXCEPT ![p] = Idle] /\ watch' = [watch EXCEPT ![p] = Quiet]
      /\ UNCHANGED <<clients, secrets, lock, now, ordered>> /\ req[p].op = "answered"
  BY Zenon DEF Respond
<1>2. req[p] \in Request
  BY Zenon DEF RegistryInv, RegistryTypeOK
<1>3. PICK c \in Client : c = req[p].client
  BY <1>1, <1>2, RequestKinds, AnsweredReqFacts, Zenon
<1>4. Quiet \in Watch
  BY DEF Quiet, Watch
<1>5. PassesLock(p, c)
  BY <1>1, Zenon DEF PassesLock
<1>6. QED
  BY <1>1, <1>4, <1>5, IdleFacts, IdleSound, QuietRequest, Zenon

-----------------------------------------------------------------------------
(* Steps that write rows: they change what is true of one client only.     *)

OnlyClient(c) ==
    /\ \A x \in Client \ {c} :
           /\ clients'[x] = clients[x] /\ ordered'[x] = ordered[x]
           /\ ActiveSecrets(x)' = ActiveSecrets(x)
    /\ \A s \in Secret : secrets[s] # None => secrets'[s] # None

\* The other clients, and the requests for them, see no difference.
LEMMA Elsewhere ==
    ASSUME NEW c \in Client, OnlyClient(c)
    PROVE  /\ \A x \in Client \ {c} : ClientSound(x) => ClientSound(x)'
           /\ \A r \in Request : r.client # c /\ UpdateSound(r) => UpdateSound(r)'
           /\ \A r \in Request : /\ r.client # c /\ RotateSound(r)
                                 /\ Rotating(r) => secrets'[r.secret] = None
                                 => RotateSound(r)'
           /\ \A r \in Request : \A w : r.client # c /\ AuthSound(r, w) => AuthSound(r, w)'
<1>1. \A x \in Client \ {c} : /\ Registered(x)' <=> Registered(x)
                              /\ clients'[x] = clients[x] /\ ordered'[x] = ordered[x]
                              /\ ActiveSecrets(x)' = ActiveSecrets(x)
  BY Zenon DEF OnlyClient, Registered
<1>2. ASSUME NEW x \in Client \ {c}, ClientSound(x) PROVE ClientSound(x)'
  BY <1>1, <1>2, Zenon DEF ClientSound
<1>3. ASSUME NEW r \in Request, r.client # c, UpdateSound(r) PROVE UpdateSound(r)'
  <2>1. SUFFICES ASSUME r.op \in {"update", "updating"} PROVE UpdateSound(r)'
    BY Zenon DEF UpdateSound
  <2>2. r.client \in Client \ {c}
    BY <1>3, <2>1, RequestClient, Zenon
  <2>3. QED
    BY <1>1, <1>3, <2>2, Zenon DEF UpdateSound
<1>4. ASSUME NEW r \in Request, r.client # c, RotateSound(r),
             Rotating(r) => secrets'[r.secret] = None
      PROVE  RotateSound(r)'
  <2>1. SUFFICES ASSUME Rotating(r) PROVE RotateSound(r)'
    BY Zenon DEF RotateSound, Rotating
  <2>2. r.client \in Client \ {c}
    BY <1>4, <2>1, RequestClient, Zenon
  <2>3. QED
    BY <1>1, <1>4, <2>1, <2>2, Zenon DEF RotateSound
<1>5. ASSUME NEW r \in Request, NEW w, r.client # c, AuthSound(r, w) PROVE AuthSound(r, w)'
  <2>1. SUFFICES ASSUME r.op \in {"found", "listed"} PROVE AuthSound(r, w)'
    BY Zenon DEF AuthSound
  <2>2. r.client \in Client \ {c} /\ r.secret \in Secret \cup {None}
    BY <1>5, <2>1, RequestClient, Zenon
  <2>3. r.secret # None => secrets'[r.secret] # None
    BY <1>5, <2>1, <2>2, Zenon DEF AuthSound, OnlyClient
  <2>4. QED
    BY <1>1, <1>5, <2>2, <2>3, Zenon DEF AuthSound
<1>6. QED
  BY <1>2, <1>3, <1>4, <1>5, Zenon

\* A secret is stored for c, which had none or loses those it had.
Stores(c, s, t, targets) ==
    secrets' = [x \in Secret |->
        IF x \in targets THEN [secrets[x] EXCEPT !.state = "revoked"]
        ELSE IF x = s THEN [state |-> "active", client |-> c, created |-> t]
        ELSE secrets[x]]

\* The stored secret is the only active one of its client.
LEMMA StoredSecrets ==
    ASSUME RegistryInv, NEW c \in Client, NEW s \in Secret, NEW t \in 0..MaxNow,
           secrets[s] = None, Stores(c, s, t, ActiveSecrets(c))
    PROVE  /\ secrets' \in [Secret -> SecretRow \cup {None}]
           /\ ActiveSecrets(c)' = {s}
           /\ \A x \in Client \ {c} : ActiveSecrets(x)' = ActiveSecrets(x)
           /\ \A x \in Secret \ {s} : (secrets'[x] = None <=> secrets[x] = None)
                                      /\ secrets'[x].client = secrets[x].client
           /\ secrets'[s] # None /\ secrets'[s].client = c
<1> DEFINE row == [state |-> "active", client |-> c, created |-> t]
<1>1. row \in SecretRow /\ row.state = "active" /\ row.client = c /\ row # None
  BY NewSecret, RowAssumption
<1> HIDE DEF row
<1>2. secrets \in [Secret -> SecretRow \cup {None}]
  BY Zenon DEF RegistryInv, RegistryTypeOK
<1>3. \A x \in Secret : x \in ActiveSecrets(c) <=>
          secrets[x] # None /\ secrets[x].client = c /\ secrets[x].state = "active"
  BY Zenon DEF ActiveSecrets
<1>4. /\ secrets' = [x \in Secret |-> secrets'[x]]
      /\ \A x \in Secret : secrets'[x] =
             IF x \in ActiveSecrets(c) THEN [secrets[x] EXCEPT !.state = "revoked"]
             ELSE IF x = s THEN row ELSE secrets[x]
  BY Zenon DEF Stores, row
<1>5. secrets'[s] = row
  BY <1>3, <1>4, Zenon
<1>6. ASSUME NEW x \in ActiveSecrets(c)
      PROVE  /\ x \in Secret /\ x # s /\ secrets[x] # None /\ secrets[x].client = c
             /\ secrets'[x] \in SecretRow /\ secrets'[x] # None /\ secrets'[x].client = c
             /\ secrets'[x].state = "revoked"
  <2>1. x \in Secret /\ x # s /\ secrets[x] # None /\ secrets[x].client = c
    BY <1>3, Zenon DEF ActiveSecrets
  <2>2. secrets[x] \in SecretRow /\ secrets'[x] = [secrets[x] EXCEPT !.state = "revoked"]
    BY <1>2, <1>4, <2>1, Zenon
  <2>3. QED
    BY <2>1, <2>2, SecretFacts, RowAssumption, ZenonT(40)
<1>7. \A x \in Secret : x # s /\ x \notin ActiveSecrets(c) => secrets'[x] = secrets[x]
  BY <1>4, Zenon
<1>8. \A x \in Secret : secrets'[x] \in SecretRow \cup {None}
  BY <1>1, <1>2, <1>5, <1>6, <1>7, Zenon
<1>9. \A x \in Secret \ {s} : (secrets'[x] = None <=> secrets[x] = None)
                              /\ secrets'[x].client = secrets[x].client
  BY <1>6, <1>7, Zenon
<1>10. ActiveSecrets(c)' = {s}
  <2>1. \A x \in Secret : secrets'[x] # None /\ secrets'[x].client = c /\ secrets'[x].state = "active"
                            <=> x = s
    <3>1. \A x \in Secret : x \in ActiveSecrets(c) => secrets'[x].state # "active"
      BY <1>6
    <3>2. QED
      BY <1>1, <1>3, <1>5, <1>6, <1>7, <3>1, Zenon
  <2>2. QED
    BY <2>1, Zenon DEF ActiveSecrets
<1>11. ASSUME NEW d \in Client \ {c} PROVE ActiveSecrets(d)' = ActiveSecrets(d)
  <2>1. \A x \in Secret :
            secrets'[x] # None /\ secrets'[x].client = d /\ secrets'[x].state = "active"
              <=> secrets[x] # None /\ secrets[x].client = d /\ secrets[x].state = "active"
    BY <1>1, <1>3, <1>5, <1>6, <1>7, <1>11, Zenon
  <2>2. QED
    BY <2>1, Zenon DEF ActiveSecrets
<1>12. secrets' \in [Secret -> SecretRow \cup {None}]
  BY <1>4, <1>8, Zenon
<1>13. QED
  BY <1>1, <1>5, <1>9, <1>10, <1>11, <1>12, Zenon

\* RegisterClient: the row, and its first secret when it is confidential.
LEMMA CreateClientStep ==
    ASSUME RegistryInv, NEW c \in Client, NEW type \in Type, NEW profile \in Profile,
           NEW s \in Secret, CreateClient(c, type, profile, s)
    PROVE  RegistryInv'
<1> DEFINE row == [status |-> "active", type |-> type, profile |-> profile, version |-> 1]
<1>1. /\ ~Registered(c) /\ Unused(s) /\ clients' = [clients EXCEPT ![c] = row]
      /\ UNCHANGED <<lock, req, now, ordered, watch>>
      /\ secrets' = IF type = "public" THEN secrets
                    ELSE [secrets EXCEPT ![s] =
                              [state |-> "active", client |-> c, created |-> now]]
  BY Zenon DEF CreateClient
<1>2. /\ RegistryTypeOK /\ clients \in [Client -> ClientRow \cup {None}]
      /\ secrets \in [Secret -> SecretRow \cup {None}] /\ now \in 0..MaxNow
      /\ secrets[s] = None
      /\ \A q \in Process : Rotating(req[q]) => req[q].secret # s
  BY <1>1, Zenon DEF RegistryInv, RegistryTypeOK, Unused, Rotating
<1>3. row \in ClientRow /\ row.status = "active" /\ row.type = type /\ row # None
  <2>1. row \in ClientRow /\ row.status = "active" /\ row.type = type
    BY ConstantsAssumption DEF ClientRow, Status
  <2>2. QED
    BY <2>1, RowAssumption, Zenon
<1> HIDE DEF row
<1>4. /\ clients' \in [Client -> ClientRow \cup {None}] /\ clients'[c] = row
      /\ \A x \in Client \ {c} : clients'[x] = clients[x]
      /\ lock' = lock /\ req' = req /\ now' = now /\ ordered' = ordered /\ watch' = watch
  BY <1>1, <1>2, <1>3, Zenon
<1>5. ActiveSecrets(c) = {}
  BY <1>1, Zenon DEF ActiveSecrets, RegistryInv, SecretsSound
<1>6. /\ secrets' \in [Secret -> SecretRow \cup {None}]
      /\ type = "confidential" => ActiveSecrets(c)' = {s}
      /\ type # "confidential" => ActiveSecrets(c)' = {}
      /\ \A x \in Client \ {c} : ActiveSecrets(x)' = ActiveSecrets(x)
      /\ \A x \in Secret \ {s} : (secrets'[x] = None <=> secrets[x] = None)
                                 /\ secrets'[x].client = secrets[x].client
      /\ secrets'[s] # None => secrets'[s].client = c
  <2>1. CASE type = "public"
    <3>1. secrets' = secrets /\ type # "confidential"
      BY <1>1, <2>1
    <3>2. \A x : ActiveSecrets(x)' = ActiveSecrets(x)
      BY <3>1, Zenon DEF ActiveSecrets
    <3>3. QED
      BY <1>2, <1>5, <3>1, <3>2, Zenon
  <2>2. CASE type # "public"
    <3>1. /\ secrets' = [secrets EXCEPT ![s] =
                             [state |-> "active", client |-> c, created |-> now]]
          /\ type = "confidential"
      BY <1>1, <2>2, Zenon DEF Type
    <3>2. PICK t \in 0..MaxNow : t = now
      BY <1>2, Zenon
    <3>3. Stores(c, s, t, ActiveSecrets(c))
      BY <1>2, <1>5, <3>1, <3>2, Zenon DEF Stores
    <3>4. QED
      BY <1>2, <3>1, <3>3, StoredSecrets, Zenon
  <2>3. QED
    BY <2>1, <2>2, Zenon
<1>7. OnlyClient(c)
  <2>1. \A x \in Secret : secrets[x] # None => secrets'[x] # None
    BY <1>2, <1>6, Zenon
  <2>2. QED
    BY <1>4, <1>6, <2>1, Zenon DEF OnlyClient
<1>8. RegistryTypeOK'
  BY <1>2, <1>4, <1>6, Zenon DEF RegistryTypeOK
<1>9. SecretsSound'
  <2>1. ASSUME NEW x \in Secret, secrets'[x] # None PROVE clients'[secrets'[x].client] # None
    <3>1. CASE x = s
      BY <1>3, <1>4, <1>6, <2>1, <3>1, Zenon
    <3>2. CASE x # s
      <4>1. /\ secrets[x] # None /\ secrets'[x].client = secrets[x].client
            /\ secrets[x].client \in Client
        BY <1>2, <1>6, <2>1, <3>2, SecretFacts, Zenon
      <4>2. Registered(secrets[x].client)
        BY <4>1, Zenon DEF RegistryInv, SecretsSound
      <4>3. QED
        BY <1>3, <1>4, <4>1, <4>2, Zenon DEF Registered
    <3>3. QED
      BY <3>1, <3>2, Zenon
  <2>2. QED
    BY <1>4, <2>1, Zenon DEF RegistryInv, SecretsSound, Registered
<1>10. ClientSound(c)'
  <2>1. Registered(c)' /\ ordered'[c] = "active"
    BY <1>1, <1>3, <1>4, Zenon DEF RegistryInv, ClientSound, Registered
  <2>2. QED
    BY <1>3, <1>4, <1>6, <2>1, Zenon DEF ClientSound
<1>11. \A x \in Client : ClientSound(x)'
  BY <1>7, <1>10, Elsewhere, Zenon DEF RegistryInv
<1>12. ASSUME NEW q \in Process PROVE RequestSound(q)'
  <2>1. PICK t : t = req[q]
    BY Zenon
  <2>1b. PICK w : w = watch[q]
    BY Zenon
  <2>2. req'[q] = t /\ watch'[q] = w /\ t \in Request /\ lock' = lock
    BY <1>2, <1>4, <2>1, <2>1b, Zenon DEF RegistryTypeOK
  <2>3. UpdateSound(t) /\ RotateSound(t) /\ LockSound(q) /\ AuthSound(t, w) /\ AnswerSound(t, w)
    BY <2>1, <2>1b, Zenon DEF RegistryInv, RequestSound
  <2>4. Rotating(t) => secrets'[t.secret] = None
    <3>1. Rotating(t) => t.secret \in Secret /\ t.secret # s /\ secrets[t.secret] = None
      BY <1>2, <2>1, <2>1b, <2>2, <2>3, RequestClient, Zenon DEF RotateSound
    <3>2. QED
      BY <1>6, <3>1, Zenon
  <2>5. CASE t.client # c
    <3>1. UpdateSound(t)' /\ RotateSound(t)' /\ AuthSound(t, w)'
      BY <1>7, <2>2, <2>3, <2>4, <2>5, Elsewhere, Zenon
    <3>2. LockSound(q)'
      BY <2>1, <2>1b, <2>2, <2>3, Zenon DEF LockSound
    <3>3. QED
      BY <2>2, <2>3, <3>1, <3>2, Zenon DEF RequestSound, AnswerSound
  <2>6. CASE t.client = c
    <3>1. /\ t.op \notin {"update", "updating"} /\ ~Rotating(t)
          /\ t.op \notin {"found", "listed"}
      BY <1>1, <2>3, <2>6, Zenon DEF UpdateSound, RotateSound, AuthSound
    <3>2. UpdateSound(t)' /\ RotateSound(t)' /\ AuthSound(t, w)'
      BY <3>1, Zenon DEF UpdateSound, RotateSound, AuthSound, Rotating
    <3>3. LockSound(q)'
      BY <2>1, <2>1b, <2>2, <2>3, Zenon DEF LockSound
    <3>4. QED
      BY <2>2, <2>3, <3>2, <3>3, Zenon DEF RequestSound, AnswerSound
  <2>7. QED
    BY <2>5, <2>6, Zenon
<1>13. QED
  BY <1>8, <1>9, <1>11, <1>12, Zenon DEF RegistryInv

\* What has to be shown of a transaction of p that commits or is rolled back.
LEMMA Finishes ==
    ASSUME RegistryInv, NEW p \in Process, NEW c \in Client, lock[c] = p,
           req' = [req EXCEPT ![p] = Idle], lock' = [lock EXCEPT ![c] = None], now' = now,
           clients' \in [Client -> ClientRow \cup {None}], ordered' \in [Client -> Status],
           secrets' \in [Secret -> SecretRow \cup {None}], watch' \in [Process -> Watch],
           \A s \in Secret : secrets'[s] # None => clients'[secrets'[s].client] # None,
           \A x \in Client : ClientSound(x)',
           \A q \in Process \ {p}, t \in Request : \A w : t = req[q] /\ w = watch'[q] =>
               UpdateSound(t)' /\ RotateSound(t)' /\ AuthSound(t, w)' /\ AnswerSound(t, w)
    PROVE  RegistryInv'
<1>1. /\ req' \in [Process -> Request] /\ req'[p] = Idle
      /\ \A q \in Process \ {p} : req'[q] = req[q]
  BY IdleFacts, RequestMoves, Zenon DEF RegistryInv
<1>2. /\ lock' \in [Client -> Process \cup {None}]
      /\ \A q \in Process \ {p}, x \in Client : lock[x] = q => lock'[x] = q
  <2>1. PassesLock(p, c)
    BY Zenon DEF PassesLock
  <2>2. QED
    BY <2>1, OthersLocks, Zenon DEF RegistryInv
<1>3. RegistryTypeOK'
  BY <1>1, <1>2, Zenon DEF RegistryInv, RegistryTypeOK
<1>4. SecretsSound'
  <2>1. ASSUME NEW x \in Process, NEW y \in Process, x # y, Rotating(req'[x]), Rotating(req'[y])
        PROVE  req'[x].secret # req'[y].secret
    <3>1. x # p /\ y # p
      BY <1>1, <2>1, IdleSound, Zenon
    <3>2. QED
      BY <1>1, <2>1, <3>1, Zenon DEF RegistryInv, SecretsSound
  <2>2. QED
    BY <2>1, Zenon DEF SecretsSound, Rotating, Registered
<1>5. RequestSound(p)'
  <2>1. \A w : AuthSound(Idle, w)' /\ AnswerSound(Idle, w)
    BY IdleFacts, Zenon DEF AuthSound, AnswerSound
  <2>2. UpdateSound(Idle)' /\ RotateSound(Idle)'
    BY IdleFacts, Zenon DEF UpdateSound, RotateSound, Rotating
  <2>3. LockSound(p)'
    BY <1>1, IdleFacts, Zenon DEF LockSound
  <2>4. PICK w : w = watch'[p]
    BY Zenon
  <2>5. QED
    BY <1>1, <2>1, <2>2, <2>3, <2>4, Zenon DEF RequestSound, AnswerSound
<1>6. ASSUME NEW q \in Process, q # p PROVE RequestSound(q)'
  <2>1. PICK t : t = req[q]
    BY Zenon
  <2>1b. PICK w : w = watch'[q]
    BY Zenon
  <2>2. req'[q] = t /\ t \in Request
    BY <1>1, <1>6, <2>1, <2>1b, Zenon DEF RegistryInv, RegistryTypeOK
  <2>3. UpdateSound(t)' /\ RotateSound(t)' /\ AuthSound(t, w)' /\ AnswerSound(t, w)
    BY <1>6, <2>1, <2>1b, <2>2, Zenon
  <2>4. LockSound(q)
    BY Zenon DEF RegistryInv, RequestSound
  <2>5. t.op \in {"updating", "rotating", "revoked"} => t.client \in Client
    BY <2>2, RequestClient, Zenon
  <2>6. LockSound(q)'
    BY <1>2, <1>6, <2>1, <2>1b, <2>2, <2>4, <2>5, Zenon DEF LockSound
  <2>7. QED
    BY <2>1, <2>1b, <2>2, <2>3, <2>6, Zenon DEF RequestSound, AnswerSound
<1>7. QED
  BY <1>3, <1>4, <1>5, <1>6, Zenon DEF RegistryInv

\* UPDATE ... WHERE version = expected_version, or a conflict.
LEMMA UpdateWriteStep ==
    ASSUME RegistryInv, NEW p \in Process, UpdateWrite(p)
    PROVE  RegistryInv'
<1>1. PICK r : r = req[p]
  BY Zenon
<1>2. PICK c : c = r.client
  BY Zenon
<1>3. /\ r.op = "updating" /\ lock' = [lock EXCEPT ![c] = None]
      /\ req' = [req EXCEPT ![p] = Idle] /\ secrets' = secrets /\ now' = now
  BY <1>1, <1>2, Zenon DEF UpdateWrite
<1>4. /\ r \in Request /\ RegistryTypeOK /\ UpdateSound(r) /\ LockSound(p)
  BY <1>1, Zenon DEF RegistryInv, RegistryTypeOK, RequestSound
<1>5. /\ r \in UpdateReq /\ c \in Client /\ r.value \in ClientRow
      /\ r.patch.status \in Status \cup {None}
  BY <1>2, <1>3, <1>4, RequestKinds, UpdateReqFacts, Zenon
<1>6. lock[c] = p
  BY <1>1, <1>2, <1>3, <1>4, Zenon DEF LockSound
<1>7. PICK old : old = clients[c]
  BY Zenon
<1>8. /\ Registered(c) /\ old \in ClientRow /\ r.value.type = old.type
      /\ r.value.version < MaxVersion /\ r.value.version <= old.version
      /\ r.value.version = old.version =>
            r.value.status = IF r.patch.status = None THEN old.status ELSE r.patch.status
  BY <1>2, <1>3, <1>4, <1>5, <1>7, RegisteredRow, Zenon DEF UpdateSound
<1>9. CASE ~VersionMatches(r)
  <2>1. clients' = clients /\ ordered' = ordered /\ watch' = watch
    BY <1>1, <1>9, Zenon DEF UpdateWrite
  <2>2. /\ clients' \in [Client -> ClientRow \cup {None}] /\ ordered' \in [Client -> Status]
        /\ secrets' \in [Secret -> SecretRow \cup {None}] /\ watch' \in [Process -> Watch]
    BY <1>3, <1>4, <2>1, Zenon DEF RegistryTypeOK
  <2>3. \A s \in Secret : secrets'[s] # None => clients'[secrets'[s].client] # None
    BY <1>3, <2>1, Zenon DEF RegistryInv, SecretsSound, Registered
  <2>4. \A x \in Client : ClientSound(x)'
    BY <1>3, <2>1, SameRows, Zenon DEF RegistryInv
  <2>5. ASSUME NEW q \in Process \ {p}, NEW t \in Request, NEW w, t = req[q], w = watch'[q]
        PROVE  UpdateSound(t)' /\ RotateSound(t)' /\ AuthSound(t, w)' /\ AnswerSound(t, w)
    <3>1. UpdateSound(t) /\ RotateSound(t) /\ AuthSound(t, w) /\ AnswerSound(t, w)
      BY <2>1, <2>5, Zenon DEF RegistryInv, RequestSound
    <3>2. QED
      BY <1>3, <2>1, <3>1, SameRows, Zenon
  <2>6. QED
    BY <1>3, <1>5, <1>6, <2>2, <2>3, <2>4, <2>5, Finishes, Zenon
<1>10. CASE VersionMatches(r)
  <2>1. old.version = r.value.version
    BY <1>2, <1>7, <1>10, Zenon DEF VersionMatches
  <2>2. PICK v : v = old.version + 1
    BY Zenon
  <2>3. v \in 1..MaxVersion /\ v > old.version /\ old.version \in Nat
    BY <1>8, <2>1, <2>2, ClientFacts, ConstantsAssumption
  <2>4. PICK o : o = ordered[c]
    BY Zenon
  <2>5. PICK asked : asked = IF r.patch.status = None THEN o ELSE r.patch.status
    BY Zenon
  <2> DEFINE row == [r.value EXCEPT !.version = v]
  <2>6. /\ clients' = [clients EXCEPT ![c] = row] /\ ordered' = [ordered EXCEPT ![c] = asked]
        /\ watch' = [q \in Process |->
               IF q \in Authenticating(c)
               THEN [watch[q] EXCEPT !.ordered = @ \cup {asked}] ELSE watch[q]]
    BY <1>1, <1>2, <1>7, <1>10, <2>2, <2>4, <2>5, Zenon DEF UpdateWrite
  <2>7. row \in ClientRow /\ row.version = v /\ row.type = old.type /\ row.status = r.value.status
        /\ row # None
    BY <1>5, <1>8, <2>3, ClientFacts, RowAssumption, Zenon
  <2> HIDE DEF row
  <2>8. o \in Status /\ asked \in Status /\ old.status = o
    <3>1. o \in Status /\ old.status = o
      BY <1>4, <1>5, <1>7, <1>8, <2>4, Zenon DEF RegistryTypeOK, RegistryInv, ClientSound
    <3>2. QED
      BY <1>5, <2>5, <3>1, Zenon
  <2>9. row.status = asked
    BY <1>8, <2>1, <2>5, <2>7, <2>8, Zenon
  <2>10. /\ clients' \in [Client -> ClientRow \cup {None}] /\ clients'[c] = row
         /\ \A x \in Client \ {c} : clients'[x] = clients[x]
    BY <1>4, <1>5, <2>6, <2>7, Zenon DEF RegistryTypeOK
  <2>11. /\ ordered' \in [Client -> Status] /\ ordered'[c] = asked
         /\ \A x \in Client \ {c} : ordered'[x] = ordered[x]
    BY <1>4, <1>5, <2>6, <2>8, Zenon DEF RegistryTypeOK
  <2>12. ASSUME NEW q \in Process
         PROVE  /\ watch'[q] \in Watch /\ watch'[q].spent = watch[q].spent
                /\ watch'[q].rotated = watch[q].rotated
                /\ q \in Authenticating(c) => asked \in watch'[q].ordered
                /\ q \notin Authenticating(c) => watch'[q] = watch[q]
    <3>1. watch[q] \in Watch
      BY <1>4, Zenon DEF RegistryTypeOK
    <3>2. CASE q \in Authenticating(c)
      <4>1. watch'[q] = [watch[q] EXCEPT !.ordered = @ \cup {asked}]
        BY <2>6, <3>2, Zenon
      <4>2. /\ watch'[q] \in Watch /\ watch'[q].spent = watch[q].spent
            /\ watch'[q].rotated = watch[q].rotated /\ asked \in watch'[q].ordered
        BY <2>8, <3>1, <4>1 DEF Watch
      <4>3. QED
        BY <3>2, <4>2, Zenon
    <3>3. CASE q \notin Authenticating(c)
      BY <2>6, <3>1, <3>3, Zenon
    <3>4. QED
      BY <3>2, <3>3, Zenon
  <2>13. watch' \in [Process -> Watch]
    <3>1. watch' = [q \in Process |-> watch'[q]]
      BY <2>6, Zenon
    <3>2. QED
      BY <2>12, <3>1, Zenon
  <2>14. secrets' \in [Secret -> SecretRow \cup {None}]
         /\ \A x : ActiveSecrets(x)' = ActiveSecrets(x)
    BY <1>3, <1>4, Zenon DEF RegistryTypeOK, ActiveSecrets
  <2>15. OnlyClient(c)
    BY <1>3, <2>10, <2>11, <2>14, Zenon DEF OnlyClient
  <2>16. Registered(c)'
    BY <2>7, <2>10, Zenon DEF Registered
  <2>17. ClientSound(c)'
    <3>1. ClientSound(c)
      BY <1>5, Zenon DEF RegistryInv
    <3>2. QED
      BY <1>7, <1>8, <2>7, <2>9, <2>10, <2>11, <2>14, <2>16, <3>1, Zenon DEF ClientSound
  <2>18. \A x \in Client : ClientSound(x)'
    BY <1>5, <2>15, <2>17, Elsewhere, Zenon DEF RegistryInv
  <2>19. ASSUME NEW s \in Secret, secrets'[s] # None PROVE clients'[secrets'[s].client] # None
    <3>1. secrets[s] # None /\ secrets'[s] = secrets[s] /\ secrets[s].client \in Client
      BY <1>3, <1>4, <2>19, SecretFacts, Zenon DEF RegistryTypeOK
    <3>2. clients[secrets[s].client] # None
      BY <3>1, Zenon DEF RegistryInv, SecretsSound, Registered
    <3>3. QED
      BY <2>7, <2>10, <3>1, <3>2, Zenon
  <2>20. ASSUME NEW q \in Process \ {p}, NEW t \in Request, NEW w, t = req[q], w = watch'[q]
         PROVE  UpdateSound(t)' /\ RotateSound(t)' /\ AuthSound(t, w)' /\ AnswerSound(t, w)
    <3>1. PICK z : z = watch[q]
      BY Zenon
    <3>2. UpdateSound(t) /\ RotateSound(t) /\ AuthSound(t, z) /\ AnswerSound(t, z)
      BY <2>20, <3>1, Zenon DEF RegistryInv, RequestSound
    <3>3. q \in Authenticating(c) <=> t.op \in {"found", "listed"} /\ t.client = c
      BY <2>20, Zenon DEF Authenticating
    <3>4. Rotating(t) => secrets'[t.secret] = None
      BY <1>3, <3>2, Zenon DEF RotateSound
    <3>5. AnswerSound(t, w)
      <4>1. t.op = "answered" => w = z
        BY <2>12, <2>20, <3>1, <3>3
      <4>2. QED
        BY <3>2, <4>1, Zenon DEF AnswerSound
    <3>6. CASE t.client # c
      <4>1. w = z
        BY <2>12, <2>20, <3>1, <3>3, <3>6, Zenon
      <4>2. QED
        BY <1>5, <2>15, <3>2, <3>4, <3>5, <3>6, <4>1, Elsewhere, Zenon
    <3>7. CASE t.client = c
      <4>1. UpdateSound(t)'
        <5>1. SUFFICES ASSUME t.op \in {"update", "updating"} PROVE UpdateSound(t)'
          BY Zenon DEF UpdateSound
        <5>2. /\ t.value.type = old.type /\ t.value.version < MaxVersion
              /\ t.value.version <= old.version /\ t.value \in ClientRow
          BY <1>7, <3>2, <3>7, <5>1, RequestKinds, UpdateReqFacts, Zenon DEF UpdateSound
        <5>3. t.value.version <= v /\ t.value.version # v
          BY <2>3, <5>2, ClientFacts
        <5>4. QED
          BY <2>7, <2>10, <2>16, <3>7, <5>2, <5>3, Zenon DEF UpdateSound
      <4>2. RotateSound(t)'
        BY <1>7, <2>7, <2>10, <2>14, <2>16, <3>2, <3>4, <3>7, Zenon DEF RotateSound, Rotating
      <4>3. AuthSound(t, w)'
        <5>1. SUFFICES ASSUME t.op \in {"found", "listed"} PROVE AuthSound(t, w)'
          BY Zenon DEF AuthSound
        <5>2. asked \in w.ordered /\ w.spent = z.spent /\ w.rotated = z.rotated
          BY <2>12, <2>20, <3>1, <3>3, <3>7, <5>1, Zenon
        <5>3. QED
          BY <1>3, <1>7, <2>7, <2>10, <2>11, <2>14, <2>16, <3>2, <3>7, <5>1, <5>2, Zenon DEF AuthSound
      <4>4. QED
        BY <3>5, <4>1, <4>2, <4>3, Zenon
    <3>8. QED
      BY <3>6, <3>7, Zenon
  <2>21. QED
    BY <1>3, <1>5, <1>6, <2>10, <2>11, <2>13, <2>14, <2>18, <2>19, <2>20, Finishes, Zenon
<1>11. QED
  BY <1>9, <1>10, Zenon

\* RotateClientSecret commits: the replacement is the only active secret.
LEMMA RotateCommitStep ==
    ASSUME RegistryInv, NEW p \in Process, RotateCommit(p)
    PROVE  RegistryInv'
<1>1. PICK r : r = req[p]
  BY Zenon
<1>2. PICK c : c = r.client
  BY Zenon
<1>2b. PICK s : s = r.secret
  BY Zenon
<1>2c. PICK at : at = r.at
  BY Zenon
<1>3. /\ r.op = "revoked" /\ lock' = [lock EXCEPT ![c] = None] /\ Stores(c, s, at, r.targets)
      /\ req' = [req EXCEPT ![p] = Idle] /\ clients' = clients /\ now' = now /\ ordered' = ordered
      /\ watch' = [q \in Process |->
             IF q \in Authenticating(c) THEN [watch[q] EXCEPT !.rotated = TRUE] ELSE watch[q]]
  BY <1>1, <1>2, <1>2b, <1>2c, Zenon DEF RotateCommit, Stores
<1>4. r \in Request /\ RegistryTypeOK /\ RotateSound(r) /\ LockSound(p)
  BY <1>1, Zenon DEF RegistryInv, RegistryTypeOK, RequestSound
<1>5. c \in Client /\ s \in Secret /\ at \in 0..MaxNow
  BY <1>2, <1>2b, <1>2c, <1>3, <1>4, RequestKinds, RevokedReqFacts, Zenon
<1>6. lock[c] = p /\ Rotating(r)
  BY <1>1, <1>2, <1>2b, <1>2c, <1>3, <1>4, Zenon DEF LockSound, Rotating
<1>7. /\ Registered(c) /\ clients[c].type = "confidential" /\ secrets[s] = None
      /\ r.targets = ActiveSecrets(c)
  BY <1>2, <1>2b, <1>2c, <1>3, <1>4, <1>6, Zenon DEF RotateSound
<1>8. Stores(c, s, at, ActiveSecrets(c))
  BY <1>3, <1>7, Zenon
<1>9. /\ secrets' \in [Secret -> SecretRow \cup {None}]
      /\ ActiveSecrets(c)' = {s}
      /\ \A x \in Client \ {c} : ActiveSecrets(x)' = ActiveSecrets(x)
      /\ \A x \in Secret \ {s} : (secrets'[x] = None <=> secrets[x] = None)
                                 /\ secrets'[x].client = secrets[x].client
      /\ secrets'[s] # None /\ secrets'[s].client = c
  BY <1>5, <1>7, <1>8, StoredSecrets, Zenon
<1>10. ASSUME NEW q \in Process
       PROVE  /\ watch'[q] \in Watch /\ watch'[q].spent = watch[q].spent
              /\ watch'[q].ordered = watch[q].ordered
              /\ q \in Authenticating(c) => watch'[q].rotated
              /\ q \notin Authenticating(c) => watch'[q] = watch[q]
  <2>1. watch[q] \in Watch
    BY <1>4, Zenon DEF RegistryTypeOK
  <2>2. CASE q \in Authenticating(c)
    <3>1. watch'[q] = [watch[q] EXCEPT !.rotated = TRUE]
      BY <1>3, <2>2, Zenon
    <3>2. /\ watch'[q] \in Watch /\ watch'[q].spent = watch[q].spent
          /\ watch'[q].ordered = watch[q].ordered /\ watch'[q].rotated
      BY <2>1, <3>1, Zenon DEF Watch
    <3>3. QED
      BY <2>2, <3>2, Zenon
  <2>3. CASE q \notin Authenticating(c)
    BY <1>3, <2>1, <2>3, Zenon
  <2>4. QED
    BY <2>2, <2>3, Zenon
<1>11. watch' \in [Process -> Watch]
  <2>1. watch' = [q \in Process |-> watch'[q]]
    BY <1>3, Zenon
  <2>2. QED
    BY <1>10, <2>1, Zenon
<1>12. OnlyClient(c)
  <2>1. \A x \in Secret : secrets[x] # None => secrets'[x] # None
    BY <1>7, <1>9, Zenon
  <2>2. QED
    BY <1>3, <1>9, <2>1, Zenon DEF OnlyClient
<1>13. Registered(c)' /\ clients'[c] = clients[c] /\ ordered'[c] = ordered[c]
  BY <1>3, <1>7, Zenon DEF Registered
<1>14. ClientSound(c)'
  <2>1. clients[c].status = ordered[c]
    BY <1>5, <1>7, Zenon DEF RegistryInv, ClientSound
  <2>2. QED
    BY <1>5, <1>7, <1>9, <1>13, <2>1, Zenon DEF ClientSound
<1>15. \A x \in Client : ClientSound(x)'
  BY <1>5, <1>12, <1>14, Elsewhere, Zenon DEF RegistryInv
<1>16. ASSUME NEW x \in Secret, secrets'[x] # None PROVE clients'[secrets'[x].client] # None
  <2>1. CASE x = s
    BY <1>3, <1>7, <1>9, <2>1, Zenon DEF Registered
  <2>2. CASE x # s
    <3>1. secrets[x] # None /\ secrets'[x].client = secrets[x].client
      BY <1>9, <1>16, <2>2, Zenon
    <3>2. QED
      BY <1>3, <3>1, Zenon DEF RegistryInv, SecretsSound, Registered
  <2>3. QED
    BY <2>1, <2>2, Zenon
<1>17. ASSUME NEW q \in Process \ {p}, NEW t \in Request, NEW w, t = req[q], w = watch'[q]
       PROVE  UpdateSound(t)' /\ RotateSound(t)' /\ AuthSound(t, w)' /\ AnswerSound(t, w)
  <2>1. PICK z : z = watch[q]
    BY Zenon
  <2>2. UpdateSound(t) /\ RotateSound(t) /\ AuthSound(t, z) /\ AnswerSound(t, z) /\ LockSound(q)
    BY <1>17, <2>1, Zenon DEF RegistryInv, RequestSound
  <2>3. q \in Authenticating(c) <=> t.op \in {"found", "listed"} /\ t.client = c
    BY <1>17, Zenon DEF Authenticating
  <2>4. Rotating(t) => secrets'[t.secret] = None
    <3>1. Rotating(t) => t.secret \in Secret /\ t.secret # s /\ secrets[t.secret] = None
      BY <1>1, <1>2, <1>2b, <1>2c, <1>6, <1>17, <2>2, RequestClient, Zenon DEF RegistryInv, SecretsSound, RotateSound
    <3>2. QED
      BY <1>9, <3>1, Zenon
  <2>5. AnswerSound(t, w)
    <3>1. t.op = "answered" => w = z
      BY <1>10, <1>17, <2>1, <2>3
    <3>2. QED
      BY <2>2, <3>1, Zenon DEF AnswerSound
  <2>6. CASE t.client # c
    <3>1. w = z
      BY <1>10, <1>17, <2>1, <2>3, <2>6, Zenon
    <3>2. QED
      BY <1>5, <1>12, <2>2, <2>4, <2>5, <2>6, <3>1, Elsewhere, Zenon
  <2>7. CASE t.client = c
    <3>1. UpdateSound(t)'
      BY <1>3, <1>13, <2>2, <2>7, Zenon DEF UpdateSound
    <3>2. t.op # "revoked"
      BY <1>6, <1>17, <2>2, <2>7, Zenon DEF LockSound
    <3>3. RotateSound(t)'
      BY <1>3, <1>13, <2>2, <2>4, <2>7, <3>2, Zenon DEF RotateSound, Rotating
    <3>4. AuthSound(t, w)'
      <4>1. SUFFICES ASSUME t.op \in {"found", "listed"} PROVE AuthSound(t, w)'
        BY Zenon DEF AuthSound
      <4>2. w.rotated /\ w.spent = z.spent /\ w.ordered = z.ordered
        BY <1>10, <1>17, <2>1, <2>3, <2>7, <4>1, Zenon
      <4>3. t.secret \in Secret \cup {None} /\ None \notin Secret
        BY <4>1, RequestClient, ConstantsAssumption, Zenon
      <4>4. t.secret # None => secrets[t.secret] # None /\ t.secret # s
        BY <1>7, <2>2, <4>1, Zenon DEF AuthSound
      <4>5. /\ t.secret # None => secrets'[t.secret] # None
            /\ t.secret \notin ActiveSecrets(c)'
        BY <1>5, <1>9, <4>3, <4>4, Zenon
      <4>6. QED
        BY <1>3, <1>13, <2>2, <2>7, <4>1, <4>2, <4>5, Zenon DEF AuthSound
    <3>5. QED
      BY <2>5, <3>1, <3>3, <3>4, Zenon
  <2>8. QED
    BY <2>6, <2>7, Zenon
<1>18. clients' \in [Client -> ClientRow \cup {None}] /\ ordered' \in [Client -> Status]
  BY <1>3, <1>4, Zenon DEF RegistryTypeOK
<1>19. QED
  BY <1>3, <1>5, <1>6, <1>9, <1>11, <1>15, <1>16, <1>17, <1>18, Finishes, ZenonT(40)

-----------------------------------------------------------------------------
(* The theorems about clients.                                             *)

\* Nothing is registered at the start.
LEMMA RegistryInitial ==
    ASSUME RegistryInit
    PROVE  RegistryInv
<1>1. RegistryTypeOK
  <2>1. 0 \in 0..MaxNow
    BY ConstantsAssumption
  <2>2. Quiet \in Watch
    BY DEF Quiet, Watch
  <2>3. QED
    BY <2>1, <2>2, IdleFacts, Zenon DEF RegistryInit, RegistryTypeOK, Status
<1>2. \A p \in Process : req[p] = Idle
  BY Zenon DEF RegistryInit
<1>3. SecretsSound
  BY <1>2, IdleSound, Zenon DEF RegistryInit, SecretsSound
<1>4. \A c \in Client : ClientSound(c)
  BY Zenon DEF RegistryInit, ClientSound, Registered
<1>5. \A p \in Process : RequestSound(p)
  BY <1>2, IdleSound, Zenon DEF RequestSound, LockSound
<1>6. QED
  BY <1>1, <1>3, <1>4, <1>5, Zenon DEF RegistryInv

\* Every statement of every request preserves the invariant.
LEMMA RegistryStep ==
    ASSUME RegistryInv, [RegistryNext]_registryVars
    PROVE  RegistryInv'
<1>1. now \in 0..MaxNow
  BY Zenon DEF RegistryInv, RegistryTypeOK
<1>2. CASE Tick
  <2>1. now' \in 0..MaxNow
    BY <1>1, <1>2, ConstantsAssumption DEF Tick
  <2>2. QED
    BY <1>2, <2>1, Unmoved, Zenon DEF Tick
<1>3. CASE UNCHANGED registryVars
  BY <1>1, <1>3, Unmoved, Zenon DEF registryVars
<1>4. ASSUME NEW c \in Client, NEW type \in Type, NEW profile \in Profile, NEW s \in Secret,
             CreateClient(c, type, profile, s)
      PROVE  RegistryInv'
  BY <1>4, CreateClientStep, Zenon
<1>5. ASSUME NEW p \in Process,
             \/ \E c \in Client, patch \in Patch : UpdateRead(p, c, patch)
             \/ UpdateLock(p) \/ UpdateWrite(p)
             \/ \E c \in Client, s \in Secret : RotateRead(p, c, s)
             \/ RotateLock(p) \/ RotateRevoke(p) \/ RotateCommit(p)
      PROVE  RegistryInv'
  BY <1>5, UpdateReadStep, UpdateLockStep, UpdateWriteStep, RotateReadStep, RotateLockStep,
     RotateRevokeStep, RotateCommitStep, Zenon
<1>6. ASSUME NEW p \in Process,
             \/ \E c \in Client, s \in Secret \cup {None} : FindClient(p, c, s)
             \/ ListActiveHashes(p) \/ ValidateSecret(p)
             \/ \E c \in Client : ResolvePublic(p, c)
             \/ Respond(p)
      PROVE  RegistryInv'
  BY <1>6, FindClientStep, ListActiveHashesStep, ValidateSecretStep, ResolvePublicStep,
     RespondStep, Zenon
<1>7. QED
  BY <1>2, <1>3, <1>4, <1>5, <1>6, Zenon DEF RegistryNext

\* What a patch, a rotation and an authentication have read stays a fair
\* account of the rows, however their statements are interleaved.
THEOREM RegistryInvariant == RegistrySpec => []RegistryInv
<1>1. RegistryInit => RegistryInv
  BY RegistryInitial, Zenon
<1>2. RegistryInv /\ [RegistryNext]_registryVars => RegistryInv'
  BY RegistryStep, Zenon
<1>3. QED
  BY <1>1, <1>2, PTL DEF RegistrySpec

\* However many RotateClientSecret transactions overlap, a confidential client
\* has exactly one active secret and a public one none.
THEOREM OneActiveSecretHolds == RegistrySpec => []OneActiveSecret
<1>1. RegistryInv => OneActiveSecret
  <2>1. SUFFICES ASSUME RegistryInv PROVE OneActiveSecret
    BY Zenon
  <2>2. ASSUME NEW c \in Client, Registered(c)
        PROVE  Cardinality(ActiveSecrets(c)) = IF clients[c].type = "confidential" THEN 1 ELSE 0
    <3>1. ClientSound(c)
      BY <2>1, Zenon DEF RegistryInv
    <3>2. CASE clients[c].type = "confidential"
      <4>1. PICK s \in Secret : ActiveSecrets(c) = {s}
        BY <2>2, <3>1, <3>2, Zenon DEF ClientSound
      <4>2. QED
        BY <3>2, <4>1, FS_Singleton, Zenon
    <3>3. CASE clients[c].type # "confidential"
      <4>1. ActiveSecrets(c) = {}
        BY <2>2, <3>1, <3>3, Zenon DEF ClientSound
      <4>2. QED
        BY <3>3, <4>1, FS_EmptySet
    <3>4. QED
      BY <3>2, <3>3, Zenon
  <2>3. QED
    BY <2>1, <2>2, Zenon DEF OneActiveSecret, RegistryInv
<1>2. QED
  BY <1>1, RegistryInvariant, PTL

\* What the three reads of a client authentication add up to was true during the
\* request, the secret and the status each at some moment of it, whatever patches
\* and rotations commit between them.
THEOREM AnswerIsCurrentHolds == RegistrySpec => []AnswerIsCurrent
<1>1. RegistryInv => AnswerIsCurrent
  <2>1. SUFFICES ASSUME RegistryInv, NEW p \in Process, req[p].op = "answered"
                 PROVE  IF req[p].success THEN ~watch[p].spent /\ "active" \in watch[p].ordered
                        ELSE watch[p].spent \/ "disabled" \in watch[p].ordered \/ watch[p].rotated
    BY Zenon DEF AnswerIsCurrent
  <2>2. AnswerSound(req[p], watch[p])
    BY <2>1, Zenon DEF RegistryInv, RequestSound
  <2>3. QED
    BY <2>1, <2>2, Zenon DEF AnswerSound
<1>2. QED
  BY <1>1, RegistryInvariant, PTL

=============================================================================
