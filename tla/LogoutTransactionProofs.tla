----------------------- MODULE LogoutTransactionProofs -----------------------
(***************************************************************************)
(* Proofs about LogoutTransaction, for any number of users, sessions,       *)
(* transactions, pages and concurrent requests: whom a logout ends, where   *)
(* it may lead, what guessing costs, and that it implements OneShot.        *)
(*                                                                          *)
(* A transaction is bound to one session and stays with it, so the pages    *)
(* and the requests of a bound transaction are all of that session.  What a *)
(* binding has checked and counted stays true until it writes, because it   *)
(* holds the locks of the transaction and of the session.                   *)
(***************************************************************************)
EXTENDS LogoutTransaction, FiniteSetTheorems, TLAPS

Deleted == [stage |-> "deleted"]

\* A remembered redirect has a client and a hint; once the transaction is bound
\* the hint is the session's user, and once it is confirmed the session is gone.
RowSound(row) ==
    row.stage \notin {"none", "deleted"} =>
        /\ row.uri # None => row.client # None /\ row.hint # None
        /\ row.stage # "pre_confirm" =>
               /\ row.session \in Session /\ sessions[row.session].state # "none"
               /\ row.uri # None => row.hint = sessions[row.session].user
        /\ row.stage = "confirmed" => sessions[row.session].state = "revoked"

\* A page was rendered for the session its transaction is bound to.
PageSound(p) ==
    /\ txns[p.txn].stage \notin {"none", "pre_confirm"}
    /\ txns[p.txn].stage # "deleted" => txns[p.txn].session = p.session

\* What the browser is sent to is what the confirmed transaction carries.
SentSound(t, client, uri) ==
    /\ txns[t].stage \in {"confirmed", "deleted"}
    /\ txns[t].stage = "confirmed" => txns[t].client = client /\ txns[t].uri = uri

RequestSound(q) ==
    /\ q.phase \in {"get", "bind", "post"} => q.at <= now
    /\ q.phase = "post" => PageSound(q.proof)
    /\ q.phase = "recheck" => SentSound(q.txn, q.client, q.uri)

\* What a binding has found under its locks, and that locks exclude each other.
Counted(q) ==
    /\ txns[q.txn].stage = "pre_confirm" /\ Open(q.txn, q.at)
    /\ Unrevoked(q.session) /\ ~AtCapacity(q.session, q.at)

LockInv ==
    /\ \A r \in Request : requests[r].phase = "bind" => Counted(requests[r])
    /\ \A r, x \in Request :
          r # x /\ requests[r].phase = "bind" /\ requests[x].phase = "bind" =>
              requests[r].txn # requests[x].txn /\ requests[r].session # requests[x].session

BudgetInv ==
    /\ IsFiniteSet({t \in Txn : txns[t].stage # "none"})
    /\ \A s \in Session : Cardinality(LiveBound(s, now)) <= MaxActive

LogoutInv ==
    /\ TypeOK
    /\ \A t \in Txn : RowSound(txns[t])
    /\ \A p \in pages : PageSound(p)
    /\ \A r \in Request : RequestSound(requests[r])
    /\ LockInv /\ BudgetInv

-----------------------------------------------------------------------------
(* Rows and requests.                                                      *)

Sessions == [Session -> SessionRow \cup {NoRow}]
Txns == [Txn -> TxnRow \cup {NoTxn, Deleted}]
Jar == [lookup : Txn \cup {None}, auth : Session \cup {None}]

LEMMA TypeOf ==
    TypeOK <=> /\ now \in Nat /\ sessions \in Sessions /\ clients \in [Client -> SUBSET Uri]
               /\ txns \in Txns /\ jar \in Jar /\ pages \subseteq Page
               /\ requests \in [Request -> RequestRow] /\ outcomes \in [Txn -> Nat]
               /\ redirects \subseteq Txn \X Uri
BY Zenon DEF TypeOK, Sessions, Txns, Jar, Deleted

LEMMA Kinds ==
    /\ NoRow.state = "none" /\ NoTxn.stage = "none" /\ Deleted.stage = "deleted"
    /\ Idle.phase = "idle" /\ Idle \in RequestRow
BY DEF NoRow, NoTxn, Deleted, Idle, RequestRow

LEMMA SessionFacts ==
    ASSUME NEW table \in Sessions, NEW s \in Session
    PROVE  table[s].state # "none" =>
             /\ table[s] \in SessionRow /\ table[s].user \in User
             /\ table[s].binding \in Session
             /\ table[s].state \in {"live", "expired", "revoked"}
<1>1. table[s] \in SessionRow \cup {NoRow}
  BY Zenon DEF Sessions
<1>2. QED
  BY <1>1 DEF SessionRow, NoRow

LEMMA TxnFacts ==
    ASSUME NEW table \in Txns, NEW t \in Txn
    PROVE  /\ table[t].stage \in {"none", "deleted", "pre_confirm", "bound_confirmable",
                                  "confirmed", "canceled"}
           /\ table[t].stage \notin {"none", "deleted"} => table[t] \in TxnRow
<1>1. table[t] \in TxnRow \cup {NoTxn, Deleted}
  BY Zenon DEF Txns
<1>2. QED
  BY <1>1 DEF TxnRow, NoTxn, Deleted

LEMMA RowFacts ==
    ASSUME NEW row \in TxnRow
    PROVE  /\ row.stage \in {"pre_confirm", "bound_confirmable", "confirmed", "canceled"}
           /\ row.client \in Client \cup {None} /\ row.uri \in Uri \cup {None}
           /\ row.hint \in User \cup {None} /\ row.session \in Session \cup {None}
           /\ row.proof \in Nat /\ row.expires \in Nat /\ row.attempts \in Nat
BY DEF TxnRow

LEMMA RequestFacts ==
    ASSUME NEW q \in RequestRow
    PROVE  /\ q.phase \in {"idle", "get", "bind", "post", "recheck"}
           /\ q.phase \in {"get", "bind", "post"} => q.txn \in Txn /\ q.session \in Session /\ q.at \in Nat
           /\ q.phase = "post" => /\ q.proof \in Page /\ q.proof.txn \in Txn
                                  /\ q.decision \in {"confirm", "cancel"}
           /\ q.phase = "recheck" => q.txn \in Txn /\ q.client \in Client /\ q.uri \in Uri
BY DEF RequestRow, Idle, Page

LEMMA LockedRow ==
    ASSUME NEW q \in RequestRow, q.phase = "get"
    PROVE  /\ [q EXCEPT !.phase = "bind"] \in RequestRow
           /\ [q EXCEPT !.phase = "bind"].phase = "bind"
           /\ [q EXCEPT !.phase = "bind"].txn = q.txn
           /\ [q EXCEPT !.phase = "bind"].session = q.session
           /\ [q EXCEPT !.phase = "bind"].at = q.at
<1>1. q \in [phase : {"get", "bind"}, txn : Txn, session : Session, at : Nat]
  BY DEF RequestRow, Idle
<1>2. QED
  BY <1>1 DEF RequestRow

\* What a request becomes, and what the browser gets.
LEMMA Becomes ==
    ASSUME TypeOK, NEW r \in Request, NEW q \in RequestRow,
           requests' = [requests EXCEPT ![r] = q]
    PROVE  /\ requests' \in [Request -> RequestRow] /\ requests'[r] = q
           /\ \A x \in Request \ {r} : requests'[x] = requests[x]
BY TypeOf, Zenon

LEMMA JarFacts ==
    ASSUME NEW j \in Jar
    PROVE  /\ j.lookup \in Txn \cup {None} /\ j.auth \in Session \cup {None}
           /\ \A t \in Txn \cup {None} : [j EXCEPT !.lookup = t] \in Jar
           /\ \A s \in Session \cup {None} : [j EXCEPT !.auth = s] \in Jar
           /\ \A t \in Txn \cup {None}, s \in Session \cup {None} :
                [lookup |-> t, auth |-> s] \in Jar
BY DEF Jar

LEMMA Responds ==
    ASSUME TypeOK, NEW clear \in BOOLEAN, NEW signout \in BOOLEAN, NEW rendered \in SUBSET Page,
           Respond(clear, signout, rendered)
    PROVE  jar' \in Jar /\ pages' \subseteq Page /\ pages' \subseteq pages \cup rendered
<1>1. jar \in Jar /\ pages \subseteq Page
  BY TypeOf, Zenon
<1>2. [lookup |-> IF clear THEN None ELSE jar.lookup,
       auth |-> IF signout THEN None ELSE jar.auth] \in Jar
  BY <1>1, JarFacts, Zenon
<1>3. QED
  BY <1>1, <1>2, Zenon DEF Respond

-----------------------------------------------------------------------------
(* A session keeps its user, and stays revoked once it is.                 *)

SessionsSteady ==
    /\ sessions' \in Sessions
    /\ \A s \in Session : sessions[s].state # "none" =>
           /\ sessions'[s].state # "none" /\ sessions'[s].user = sessions[s].user
           /\ sessions[s].state = "revoked" => sessions'[s].state = "revoked"

LEMMA SameSessions ==
    ASSUME TypeOK, sessions' = sessions
    PROVE  SessionsSteady
BY TypeOf, Zenon DEF SessionsSteady

LEMMA StateChange ==
    ASSUME NEW row \in SessionRow, NEW v \in {"live", "expired", "revoked"}
    PROVE  /\ [row EXCEPT !.state = v] \in SessionRow
           /\ [row EXCEPT !.state = v].user = row.user
           /\ [row EXCEPT !.state = v].state = v
BY DEF SessionRow

LEMMA StateChanges ==
    ASSUME TypeOK, NEW s \in Session, NEW v \in {"expired", "revoked"},
           sessions[s].state # "none", sessions[s].state = "revoked" => v = "revoked",
           sessions' = [sessions EXCEPT ![s].state = v]
    PROVE  SessionsSteady /\ sessions'[s].state = v
<1> DEFINE row == [sessions[s] EXCEPT !.state = v]
<1>1. sessions \in Sessions /\ sessions[s] \in SessionRow
  BY TypeOf, SessionFacts, Zenon
<1>2. row \in SessionRow /\ row.user = sessions[s].user /\ row.state = v
  BY <1>1, StateChange, ZenonT(40)
<1>3. sessions' = [sessions EXCEPT ![s] = row]
  BY Zenon
<1> HIDE DEF row
<1>4. sessions' \in Sessions /\ sessions'[s] = row
  BY <1>1, <1>2, <1>3, Zenon DEF Sessions
<1>5. \A x \in Session \ {s} : sessions'[x] = sessions[x]
  BY <1>1, <1>3, Zenon DEF Sessions
<1>6. v # "none"
  OBVIOUS
<1>7. QED
  BY <1>2, <1>4, <1>5, <1>6, Zenon DEF SessionsSteady

LEMMA LoginMoves ==
    ASSUME TypeOK, NEW u \in User, NEW new \in Session, Login(u, new)
    PROVE  SessionsSteady /\ jar' \in Jar
<1> DEFINE old == jar.auth
           replaced == old # None /\ sessions[old].state = "live"
           same == replaced /\ sessions[old].user = u
           row == [state |-> "live", user |-> u,
                   binding |-> IF same THEN sessions[old].binding ELSE new]
<1>1. sessions \in Sessions /\ jar \in Jar /\ sessions[new].state = "none"
  BY TypeOf, Zenon DEF Login
<1>2. jar' \in Jar
  BY <1>1, JarFacts, Zenon DEF Login
<1>3. row \in SessionRow
  <2>1. same => sessions[old].binding \in Session
    BY <1>1, JarFacts, SessionFacts, Zenon
  <2> HIDE DEF same
  <2>2. QED
    BY <2>1 DEF SessionRow
<1>4. /\ sessions'[new] = row
      /\ \A s \in Session \ {new} : sessions'[s] = IF s = old /\ replaced
                                                   THEN [sessions[s] EXCEPT !.state = "revoked"]
                                                   ELSE sessions[s]
      /\ sessions' = [s \in Session |-> sessions'[s]]
  BY Zenon DEF Login
<1>5. ASSUME NEW s \in Session, s # new
      PROVE  /\ sessions'[s] \in SessionRow \cup {NoRow}
             /\ sessions[s].state # "none" =>
                  /\ sessions'[s].state # "none" /\ sessions'[s].user = sessions[s].user
                  /\ sessions[s].state = "revoked" => sessions'[s].state = "revoked"
  <2>1. sessions[s] \in SessionRow \cup {NoRow}
    BY <1>1, Zenon DEF Sessions
  <2>2. CASE s = old /\ replaced
    <3>1. /\ sessions[s] \in SessionRow
          /\ sessions'[s] = [sessions[s] EXCEPT !.state = "revoked"]
      BY <1>1, <1>4, <1>5, <2>2, SessionFacts, Zenon
    <3>2. QED
      BY <3>1 DEF SessionRow
  <2>3. CASE ~(s = old /\ replaced)
    BY <1>4, <1>5, <2>1, <2>3, Zenon
  <2>4. QED
    BY <2>2, <2>3, Zenon
<1> HIDE DEF row, same, replaced, old
<1>6. \A s \in Session : sessions'[s] \in SessionRow \cup {NoRow}
  BY <1>3, <1>4, <1>5, Zenon
<1>7. sessions' \in Sessions
  BY <1>4, <1>6, Zenon DEF Sessions
<1>8. QED
  BY <1>1, <1>2, <1>5, <1>7, Zenon DEF SessionsSteady

-----------------------------------------------------------------------------
(* What a step does to the transactions.                                   *)

\* One row is written.
Moved(t, row) ==
    /\ t \in Txn /\ row \in TxnRow /\ txns' \in Txns /\ txns'[t] = row
    /\ \A u \in Txn \ {t} : txns'[u] = txns[u]

\* The rows agree on whom the transaction is for and where it leads.
Alike(row, old) ==
    /\ row.client = old.client /\ row.uri = old.uri /\ row.hint = old.hint
    /\ row.session = old.session /\ row.expires = old.expires

LEMMA Writes ==
    ASSUME TypeOK, NEW t \in Txn, NEW row \in TxnRow, txns' = [txns EXCEPT ![t] = row]
    PROVE  Moved(t, row)
<1>1. txns \in Txns
  BY TypeOf, Zenon
<1>2. QED
  BY <1>1, Zenon DEF Moved, Txns

LEMMA StartMoves ==
    ASSUME TypeOK, NEW t \in Txn, NEW c \in Client, NEW hint \in User \cup {None},
           NEW uri \in Uri \cup {None}, NEW active \in BOOLEAN, NEW delivered \in BOOLEAN,
           Start(t, c, active, hint, uri, delivered)
    PROVE  /\ txns[t].stage = "none" /\ jar' \in Jar
           /\ \E row \in TxnRow : /\ Moved(t, row) /\ row.stage = "pre_confirm"
                                  /\ row.uri # None => row.client # None /\ row.hint # None
<1> DEFINE row == NewTransaction(c, active, hint, uri)
<1>1. txns[t].stage = "none" /\ txns' = [txns EXCEPT ![t] = row]
  BY Zenon DEF Start
<1>2. jar' \in Jar
  BY TypeOf, JarFacts, Zenon DEF Start
<1>3. /\ row \in TxnRow /\ row.stage = "pre_confirm"
      /\ row.uri # None => row.client # None /\ row.hint # None
  <2>1. now + TTL \in Nat
    BY LimitAssumption DEF TypeOK
  <2>2. c # None
    BY NoneAssumption
  <2>3. QED
    BY <2>1, <2>2 DEF NewTransaction, TxnRow
<1>4. Moved(t, row)
  BY <1>1, <1>3, Writes, Zenon
<1>5. QED
  BY <1>1, <1>2, <1>3, <1>4, Zenon

\* A transaction is bound, or its page is rendered again for the same session.
Binds(q, row) ==
    /\ Moved(q.txn, row) /\ row.stage = "bound_confirmable" /\ row.session = q.session
    /\ row.expires = txns[q.txn].expires
    /\ Open(q.txn, q.at) /\ Unrevoked(q.session)
    /\ pages' \subseteq pages \cup {[txn |-> q.txn, session |-> q.session, proof |-> row.proof]}
    /\ \/ /\ txns[q.txn].stage = "pre_confirm" /\ ~AtCapacity(q.session, q.at)
          /\ row.client = txns[q.txn].client /\ row.hint = txns[q.txn].hint
          /\ row.uri # None => /\ row.uri = txns[q.txn].uri
                               /\ row.hint \in {None, sessions[q.session].user}
       \/ txns[q.txn].stage = "bound_confirmable" /\ Alike(row, txns[q.txn])

LEMMA BoundRows ==
    ASSUME NEW old \in TxnRow, NEW s \in Session
    PROVE  /\ BoundRow(old, s) \in TxnRow
           /\ BoundRow(old, s).stage = "bound_confirmable" /\ BoundRow(old, s).session = s
           /\ BoundRow(old, s).expires = old.expires
           /\ BoundRow(old, s).client = old.client /\ BoundRow(old, s).hint = old.hint
           /\ BoundRow(old, s).uri # None => /\ BoundRow(old, s).uri = old.uri
                                             /\ old.hint \in {None, sessions[s].user}
<1> DEFINE uri == IF old.hint \in {None, sessions[s].user} THEN old.uri ELSE None
           row == [old EXCEPT !.stage = "bound_confirmable", !.session = s, !.proof = 1,
                              !.uri = uri]
<1>1. BoundRow(old, s) = row
  BY Zenon DEF BoundRow
<1>2. /\ uri \in Uri \cup {None}
      /\ uri # None => uri = old.uri /\ old.hint \in {None, sessions[s].user}
  BY RowFacts, Zenon
<1> HIDE DEF uri
<1>3. /\ row \in TxnRow /\ row.stage = "bound_confirmable" /\ row.session = s
      /\ row.expires = old.expires /\ row.client = old.client /\ row.hint = old.hint
      /\ row.uri = uri
  BY <1>2, Zenon DEF TxnRow
<1> HIDE DEF row
<1>4. QED
  BY <1>1, <1>2, <1>3, Zenon

LEMMA ProofRows ==
    ASSUME NEW old \in TxnRow
    PROVE  /\ [old EXCEPT !.proof = @ + 1] \in TxnRow
           /\ [old EXCEPT !.proof = @ + 1].stage = old.stage
           /\ Alike([old EXCEPT !.proof = @ + 1], old)
BY DEF TxnRow, Alike

\* A request ends, or keeps the locks of what it has counted.
Ends(r) == requests' = [requests EXCEPT ![r] = Idle]
KeepsLocks(r) ==
    /\ requests[r].phase = "get" /\ Counted(requests[r])
    /\ ~TxnLocked(requests[r].txn) /\ ~SessionLocked(requests[r].session)
    /\ requests' = [requests EXCEPT ![r] = [requests[r] EXCEPT !.phase = "bind"]]

LEMMA BindMoves ==
    ASSUME TypeOK, LockInv, NEW r \in Request, LockBind(r) \/ Bind(r)
    PROVE  /\ requests[r].phase \in {"get", "bind"} /\ requests[r].txn \in Txn
           /\ requests[r].session \in Session /\ requests[r].at \in Nat
           /\ jar' \in Jar /\ pages' \subseteq Page
           /\ \/ txns' = txns /\ pages' \subseteq pages /\ (Ends(r) \/ KeepsLocks(r))
              \/ Ends(r) /\ \E row \in TxnRow : Binds(requests[r], row)
<1> DEFINE q == requests[r]
           row == txns[q.txn]
           usable == Open(q.txn, q.at) /\ Unrevoked(q.session)
           Page1(new) == {[txn |-> q.txn, session |-> q.session, proof |-> new.proof]}
           Writ(new) == /\ txns' = [txns EXCEPT ![q.txn] = new] /\ Ends(r)
                        /\ Respond(FALSE, FALSE, Page1(new))
<1>1. q.phase \in {"get", "bind"}
  BY Zenon DEF LockBind, Bind
<1>2. /\ q.txn \in Txn /\ q.session \in Session /\ q.at \in Nat /\ txns \in Txns
      /\ jar \in Jar /\ pages \subseteq Page
  BY <1>1, TypeOf, RequestFacts, Zenon
<1>3. \/ txns' = txns /\ Ends(r) /\ (Respond(TRUE, FALSE, {}) \/ Respond(FALSE, FALSE, {}))
      \/ txns' = txns /\ jar' = jar /\ pages' = pages /\ KeepsLocks(r)
      \/ /\ usable /\ row.stage = "pre_confirm" /\ ~AtCapacity(q.session, q.at)
         /\ Writ(BoundRow(row, q.session))
      \/ /\ usable /\ row.stage = "bound_confirmable" /\ row.session = q.session
         /\ Writ([row EXCEPT !.proof = @ + 1])
  <2>1. CASE LockBind(r)
    BY <2>1, Zenon DEF LockBind, Render, Ends, KeepsLocks, Counted
  <2>2. CASE Bind(r)
    <3>1. q.phase = "bind" /\ Writ(BoundRow(row, q.session))
      BY <2>2, Zenon DEF Bind, Render, Ends
    <3>2. Counted(q)
      BY <3>1, Zenon DEF LockInv
    <3> HIDE DEF Writ
    <3>3. QED
      BY <3>1, <3>2, Zenon DEF Counted
  <2>3. QED
    BY <2>1, <2>2, Zenon
<1>4. CASE txns' = txns /\ Ends(r) /\ (Respond(TRUE, FALSE, {}) \/ Respond(FALSE, FALSE, {}))
  <2>1. jar' \in Jar /\ pages' \subseteq Page /\ pages' \subseteq pages \cup {}
    BY <1>4, Responds, Zenon
  <2>2. QED
    BY <1>1, <1>2, <1>4, <2>1, Zenon
<1>5. ASSUME NEW new \in TxnRow, Writ(new)
      PROVE  /\ Moved(q.txn, new) /\ jar' \in Jar /\ pages' \subseteq Page /\ Ends(r)
             /\ pages' \subseteq pages \cup Page1(new)
  <2>1. Page1(new) \in SUBSET Page
    BY <1>2, RowFacts DEF Page
  <2> HIDE DEF Page1
  <2>2. QED
    BY <1>2, <1>5, <2>1, Responds, Writes, Zenon
<1>6. ASSUME usable, row.stage \in {"pre_confirm", "bound_confirmable"} PROVE row \in TxnRow
  BY <1>2, <1>6, TxnFacts, Zenon
<1> HIDE DEF Writ
<1>7. CASE /\ usable /\ row.stage = "pre_confirm" /\ ~AtCapacity(q.session, q.at)
           /\ Writ(BoundRow(row, q.session))
  <2> DEFINE new == BoundRow(row, q.session)
  <2>1. /\ new \in TxnRow /\ new.stage = "bound_confirmable" /\ new.session = q.session
        /\ new.expires = row.expires /\ new.client = row.client /\ new.hint = row.hint
        /\ new.uri # None => new.uri = row.uri /\ row.hint \in {None, sessions[q.session].user}
    BY <1>2, <1>6, <1>7, BoundRows, Zenon
  <2> HIDE DEF new
  <2>2. /\ Moved(q.txn, new) /\ jar' \in Jar /\ pages' \subseteq Page /\ Ends(r)
        /\ pages' \subseteq pages \cup Page1(new)
    BY <1>5, <1>7, <2>1, Zenon DEF new
  <2>3. Binds(q, new)
    BY <1>7, <2>1, <2>2, Zenon DEF Binds
  <2>4. QED
    BY <1>1, <1>2, <2>1, <2>2, <2>3, Zenon
<1>8. CASE /\ usable /\ row.stage = "bound_confirmable" /\ row.session = q.session
           /\ Writ([row EXCEPT !.proof = @ + 1])
  <2> DEFINE new == [row EXCEPT !.proof = @ + 1]
  <2>1. new \in TxnRow /\ new.stage = "bound_confirmable" /\ Alike(new, row)
    BY <1>6, <1>8, ProofRows, Zenon
  <2> HIDE DEF new
  <2>2. /\ Moved(q.txn, new) /\ jar' \in Jar /\ pages' \subseteq Page /\ Ends(r)
        /\ pages' \subseteq pages \cup Page1(new)
    BY <1>5, <1>8, <2>1, Zenon DEF new
  <2>3. Binds(q, new)
    BY <1>8, <2>1, <2>2, Zenon DEF Binds, Alike
  <2>4. QED
    BY <1>1, <1>2, <2>1, <2>2, <2>3, Zenon
<1>9. CASE txns' = txns /\ jar' = jar /\ pages' = pages /\ KeepsLocks(r)
  BY <1>1, <1>2, <1>9, Zenon
<1>10. QED
  BY <1>3, <1>4, <1>7, <1>8, <1>9, Zenon

\* A submitted form costs an attempt, or decides the transaction.
Fails(q, row) ==
    /\ Moved(q.txn, row) /\ Alike(row, txns[q.txn]) /\ row.stage = "bound_confirmable"
    /\ Completable(q) /\ sessions' = sessions /\ outcomes' = outcomes

Decides(q, row) ==
    /\ Moved(q.txn, row) /\ Alike(row, txns[q.txn]) /\ Completable(q) /\ ProofMatches(q)
    /\ outcomes' = [outcomes EXCEPT ![q.txn] = @ + 1]
    /\ \/ row.stage = "canceled" /\ sessions' = sessions
       \/ /\ row.stage = "confirmed"
          /\ sessions' = [sessions EXCEPT ![q.session].state = "revoked"]

LEMMA AttemptRows ==
    ASSUME NEW old \in TxnRow
    PROVE  /\ [old EXCEPT !.attempts = @ + 1] \in TxnRow
           /\ [old EXCEPT !.attempts = @ + 1].stage = old.stage
           /\ Alike([old EXCEPT !.attempts = @ + 1], old)
BY DEF TxnRow, Alike

\* A request goes on to check the redirect of what it confirmed.
GoesOn(r, q, row) ==
    /\ row.stage = "confirmed" /\ row.uri # None
    /\ requests' = [requests EXCEPT ![r] =
           [phase |-> "recheck", txn |-> q.txn, client |-> row.client, uri |-> row.uri]]

LEMMA CompleteMoves ==
    ASSUME TypeOK, NEW r \in Request, Complete(r)
    PROVE  /\ requests[r].phase = "post" /\ requests[r].txn \in Txn
           /\ requests[r].session \in Session /\ requests[r].at \in Nat
           /\ jar' \in Jar /\ pages' \subseteq Page /\ pages' \subseteq pages
           /\ \/ /\ txns' = txns /\ sessions' = sessions /\ outcomes' = outcomes
                 /\ Ends(r)
              \/ \E row \in TxnRow :
                    \/ Fails(requests[r], row) /\ Ends(r)
                    \/ Decides(requests[r], row) /\ (Ends(r) \/ GoesOn(r, requests[r], row))
<1> DEFINE q == requests[r]
           row == txns[q.txn]
           Answered(c, s) == Respond(c, s, {})
           Outcome == outcomes' = [outcomes EXCEPT ![q.txn] = @ + 1]
<1>1. q.phase = "post"
  BY Zenon DEF Complete
<1>2. /\ q.txn \in Txn /\ q.session \in Session /\ q.at \in Nat /\ txns \in Txns
      /\ q.decision \in {"confirm", "cancel"} /\ jar \in Jar /\ pages \subseteq Page
  BY <1>1, TypeOf, RequestFacts, Zenon
<1>3. \A c, s \in BOOLEAN : Respond(c, s, {}) =>
         jar' \in Jar /\ pages' \subseteq Page /\ pages' \subseteq pages
  <2>1. {} \in SUBSET Page /\ pages \cup {} = pages
    BY Zenon
  <2>2. QED
    BY <2>1, Responds, Zenon
<1>4. Completable(q) => row \in TxnRow /\ row.stage = "bound_confirmable"
  BY <1>2, TxnFacts, Zenon DEF Completable
<1>5. CASE ~Completable(q)
  <2>1. /\ Respond(TRUE, FALSE, {}) /\ Ends(r) /\ txns' = txns /\ sessions' = sessions
        /\ outcomes' = outcomes
    BY <1>5, Zenon DEF Complete, Ends
  <2>2. QED
    BY <1>1, <1>2, <1>3, <2>1, Zenon
<1>6. CASE Completable(q) /\ ~ProofMatches(q)
  <2>1. /\ Respond(TRUE, FALSE, {}) /\ Ends(r) /\ CountAttempt(q) /\ sessions' = sessions
        /\ outcomes' = outcomes
    BY <1>6, Zenon DEF Complete, Ends
  <2> DEFINE new == [row EXCEPT !.attempts = @ + 1]
  <2>2. new \in TxnRow /\ new.stage = "bound_confirmable" /\ Alike(new, row)
    BY <1>4, <1>6, AttemptRows, Zenon
  <2>3. txns' = [txns EXCEPT ![q.txn] = new]
    BY <2>1, Zenon DEF CountAttempt
  <2> HIDE DEF new
  <2>4. Fails(q, new)
    BY <1>2, <1>6, <2>1, <2>2, <2>3, Writes, Zenon DEF Fails
  <2>5. QED
    BY <1>1, <1>2, <1>3, <2>1, <2>2, <2>4, Zenon
<1>7. CASE Completable(q) /\ ProofMatches(q)
  <2> DEFINE v == IF q.decision = "confirm" THEN "confirmed" ELSE "canceled"
             new == [row EXCEPT !.stage = v, !.consumed = q.at]
  <2>1. Consume(q) /\ Outcome
    BY <1>2, <1>7, Zenon DEF Complete
  <2>2. v \in {"confirmed", "canceled"} /\ txns' = [txns EXCEPT ![q.txn] = new]
    BY <2>1, Zenon DEF Consume
  <2>3. \/ /\ v = "canceled" /\ Respond(TRUE, FALSE, {}) /\ Ends(r) /\ sessions' = sessions
        \/ /\ v = "confirmed" /\ sessions' = [sessions EXCEPT ![q.session].state = "revoked"]
           /\ \/ Respond(TRUE, TRUE, {}) /\ Ends(r)
              \/ /\ row.uri # None /\ jar' = jar /\ pages' = pages
                 /\ requests' = [requests EXCEPT ![r] =
                       [phase |-> "recheck", txn |-> q.txn,
                        client |-> row.client, uri |-> row.uri]]
    BY <1>2, <1>7, Zenon DEF Complete, Ends
  <2> HIDE DEF v
  <2>4. new \in TxnRow /\ new.stage = v /\ Alike(new, row)
    <3>1. row \in TxnRow /\ v \in {"confirmed", "canceled"} /\ q.at \in Nat
      BY <1>2, <1>4, <1>7, <2>2, Zenon
    <3> HIDE DEF q, row
    <3>2. QED
      BY <3>1, Zenon DEF TxnRow, Alike
  <2> HIDE DEF new
  <2>5. Moved(q.txn, new)
    BY <1>2, <2>2, <2>4, Writes, Zenon
  <2>6. Decides(q, new)
    BY <1>7, <2>1, <2>3, <2>4, <2>5, Zenon DEF Decides
  <2>7. Ends(r) \/ GoesOn(r, q, new)
    BY <2>3, <2>4, Zenon DEF GoesOn, Alike
  <2>8. jar' \in Jar /\ pages' \subseteq Page /\ pages' \subseteq pages
    BY <1>2, <1>3, <2>3, Zenon
  <2>9. QED
    BY <1>1, <1>2, <2>4, <2>6, <2>7, <2>8, Zenon
<1>8. QED
  BY <1>5, <1>6, <1>7, Zenon

\* Retired rows go, and nothing else happens to the transactions.
LEMMA DeleteMoves ==
    ASSUME TypeOK, DeleteRetiredLogoutTransactions
    PROVE  /\ txns' \in Txns
           /\ \A t \in Txn : \/ ~Retired(t) /\ txns'[t] = txns[t]
                             \/ /\ Retired(t) /\ txns'[t] = Deleted
                                /\ txns[t].stage \notin {"none", "deleted"}
           /\ \E t \in Txn : Retired(t)
<1>1. txns \in Txns /\ txns' = [t \in Txn |-> IF Retired(t) THEN Deleted ELSE txns[t]]
  BY TypeOf, Zenon DEF DeleteRetiredLogoutTransactions, Deleted
<1>2. \A t \in Txn : Retired(t) => txns[t].stage \notin {"none", "deleted"}
  BY Zenon DEF Retired
<1>3. QED
  BY <1>1, <1>2, Zenon DEF Txns, DeleteRetiredLogoutTransactions

\* The steps that leave the transactions alone.
Around ==
    \/ Tick \/ UnusableRequest
    \/ \E u \in User, s \in Session : Login(u, s)
    \/ \E s \in Session : SessionExpires(s) \/ RevokeSession(s)
    \/ \E c \in Client, uris \in SUBSET Uri : UpdateClient(c, uris)
    \/ \E r \in Request :
        \/ GetConfirmation(r) \/ Recheck(r)
        \/ \E page \in pages, decision \in {"confirm", "cancel"} :
               PostConfirmation(r, page, decision)

Starts == \E t \in Txn, c \in Client, hint \in User \cup {None}, uri \in Uri \cup {None},
             active \in BOOLEAN, delivered \in BOOLEAN :
                 Start(t, c, active, hint, uri, delivered)

LEMMA StartsOne ==
    ASSUME TypeOK, Starts
    PROVE  /\ jar' \in Jar
           /\ \E t \in Txn, row \in TxnRow :
                /\ txns[t].stage = "none" /\ Moved(t, row) /\ row.stage = "pre_confirm"
                /\ row.uri # None => row.client # None /\ row.hint # None
<1>1. PICK t \in Txn, c \in Client, hint \in User \cup {None}, uri \in Uri \cup {None},
           active \in BOOLEAN, delivered \in BOOLEAN :
               Start(t, c, active, hint, uri, delivered)
  BY Zenon DEF Starts
<1>2. /\ txns[t].stage = "none" /\ jar' \in Jar
      /\ \E row \in TxnRow : /\ Moved(t, row) /\ row.stage = "pre_confirm"
                             /\ row.uri # None => row.client # None /\ row.hint # None
  BY <1>1, StartMoves, Zenon
<1>3. QED
  BY <1>2, Zenon

LEMMA Steps ==
    ASSUME Next
    PROVE  \/ Around \/ Starts \/ DeleteRetiredLogoutTransactions
           \/ \E r \in Request : LockBind(r) \/ Bind(r) \/ Complete(r)
BY Zenon DEF Next, Around, Starts

LEMMA AroundRows ==
    ASSUME TypeOK, Around
    PROVE  txns' = txns /\ outcomes' = outcomes /\ pages' \subseteq pages /\ SessionsSteady
<1>1. ASSUME NEW u \in User, NEW s \in Session, Login(u, s)
      PROVE  /\ txns' = txns /\ outcomes' = outcomes /\ pages' \subseteq pages
             /\ SessionsSteady
  BY <1>1, LoginMoves, Zenon DEF Login
<1>2. ASSUME NEW s \in Session, SessionExpires(s) \/ RevokeSession(s)
      PROVE  /\ txns' = txns /\ outcomes' = outcomes /\ pages' \subseteq pages
             /\ SessionsSteady
  <2>1. txns' = txns /\ outcomes' = outcomes /\ pages' = pages
    BY <1>2, Zenon DEF SessionExpires, RevokeSession
  <2>2. CASE SessionExpires(s)
    BY <2>1, <2>2, StateChanges, Zenon DEF SessionExpires
  <2>3. CASE RevokeSession(s)
    BY <2>1, <2>3, StateChanges, Zenon DEF RevokeSession, Unrevoked
  <2>4. QED
    BY <1>2, <2>2, <2>3, Zenon
<1>3. ASSUME NEW r \in Request, Recheck(r)
      PROVE  /\ txns' = txns /\ outcomes' = outcomes /\ pages' \subseteq pages
             /\ sessions' = sessions
  BY <1>3, Zenon DEF Recheck, Respond
<1>4. ASSUME \/ Tick \/ UnusableRequest
             \/ \E c \in Client, uris \in SUBSET Uri : UpdateClient(c, uris)
             \/ \E r \in Request :
                 \/ GetConfirmation(r)
                 \/ \E page \in pages, decision \in {"confirm", "cancel"} :
                        PostConfirmation(r, page, decision)
      PROVE  txns' = txns /\ outcomes' = outcomes /\ pages' = pages /\ sessions' = sessions
  BY <1>4, Zenon DEF Tick, UnusableRequest, UpdateClient, GetConfirmation, PostConfirmation
<1>5. QED
  BY <1>1, <1>2, <1>3, <1>4, SameSessions, Zenon DEF Around

-----------------------------------------------------------------------------
(* Typing.                                                                 *)

LEMMA TypeAfter ==
    ASSUME now' \in Nat, sessions' \in Sessions, clients' \in [Client -> SUBSET Uri],
           txns' \in Txns, jar' \in Jar, pages' \subseteq Page,
           requests' \in [Request -> RequestRow], outcomes' \in [Txn -> Nat],
           redirects' \subseteq Txn \X Uri
    PROVE  TypeOK'
BY Zenon DEF TypeOK, Sessions, Txns, Jar, Deleted

LEMMA OutcomeType ==
    ASSUME TypeOK, NEW t \in Txn, outcomes' = [outcomes EXCEPT ![t] = @ + 1]
    PROVE  outcomes' \in [Txn -> Nat]
<1>1. outcomes \in [Txn -> Nat]
  BY TypeOf, Zenon
<1>2. QED
  BY <1>1

LEMMA AroundType ==
    ASSUME TypeOK, Around
    PROVE  TypeOK'
<1>1. txns' = txns /\ outcomes' = outcomes /\ pages' \subseteq pages /\ SessionsSteady
  BY AroundRows, Zenon
<1>2. txns' \in Txns /\ outcomes' \in [Txn -> Nat] /\ pages' \subseteq Page /\ sessions' \in Sessions
  BY <1>1, TypeOf, Zenon DEF SessionsSteady
<1>3. now' \in Nat
  <2>1. now' = now \/ Tick
    BY Zenon DEF Around, UnusableRequest, Login, SessionExpires, RevokeSession, UpdateClient,
                 GetConfirmation, PostConfirmation, Recheck
  <2>2. now \in Nat
    BY TypeOf, Zenon
  <2>3. QED
    BY <2>1, <2>2 DEF Tick
<1>4. clients' \in [Client -> SUBSET Uri]
  BY TypeOf, Zenon DEF Around, Tick, UnusableRequest, Login, SessionExpires, RevokeSession,
                       UpdateClient, GetConfirmation, PostConfirmation, Recheck
<1>5. jar' \in Jar
  <2>1. jar \in Jar /\ {} \in SUBSET Page
    BY TypeOf, Zenon
  <2>2. ASSUME NEW r \in Request, Recheck(r) PROVE jar' \in Jar
    BY <2>1, <2>2, Responds, Zenon DEF Recheck
  <2>3. ASSUME UnusableRequest PROVE jar' \in Jar
    BY <2>1, <2>3, JarFacts, Zenon DEF UnusableRequest
  <2>4. QED
    BY <2>1, <2>2, <2>3, LoginMoves, Zenon
       DEF Around, Tick, SessionExpires, RevokeSession, UpdateClient, GetConfirmation,
           PostConfirmation
<1>6. requests' \in [Request -> RequestRow]
  <2>1. requests \in [Request -> RequestRow] /\ now \in Nat /\ jar \in Jar /\ pages \subseteq Page
    BY TypeOf, Zenon
  <2>2. ASSUME NEW r \in Request, GetConfirmation(r) PROVE requests' \in [Request -> RequestRow]
    <3> DEFINE q == [phase |-> "get", txn |-> jar.lookup, session |-> jar.auth, at |-> now]
    <3>1. jar.lookup \in Txn /\ jar.auth \in Session
      BY <2>1, <2>2, JarFacts, Zenon DEF GetConfirmation, Authenticated
    <3>2. q \in RequestRow
      BY <2>1, <3>1 DEF RequestRow
    <3>3. requests' = [requests EXCEPT ![r] = q]
      BY <2>2, Zenon DEF GetConfirmation
    <3> HIDE DEF q
    <3>4. QED
      BY <3>2, <3>3, Becomes, Zenon
  <2>3. ASSUME NEW r \in Request, NEW page \in pages, NEW d \in {"confirm", "cancel"},
               PostConfirmation(r, page, d)
        PROVE  requests' \in [Request -> RequestRow]
    <3> DEFINE q == [phase |-> "post", txn |-> jar.lookup, session |-> jar.auth, at |-> now,
                     proof |-> page, decision |-> d]
    <3>1. jar.lookup \in Txn /\ jar.auth \in Session /\ page \in Page
      BY <2>1, <2>3, JarFacts, Zenon DEF PostConfirmation, Authenticated
    <3>2. q \in RequestRow
      BY <2>1, <3>1 DEF RequestRow
    <3>3. requests' = [requests EXCEPT ![r] = q]
      BY <2>3, Zenon DEF PostConfirmation
    <3> HIDE DEF q
    <3>4. QED
      BY <3>2, <3>3, Becomes, Zenon
  <2>4. ASSUME NEW r \in Request, Recheck(r) PROVE requests' \in [Request -> RequestRow]
    BY <2>4, Becomes, Kinds, Zenon DEF Recheck
  <2>5. QED
    BY <2>1, <2>2, <2>3, <2>4, Zenon
       DEF Around, Tick, UnusableRequest, Login, SessionExpires, RevokeSession, UpdateClient
<1>7. redirects' \subseteq Txn \X Uri
  <2>1. redirects \subseteq Txn \X Uri
    BY TypeOf, Zenon
  <2>2. ASSUME NEW r \in Request, Recheck(r) PROVE redirects' \subseteq Txn \X Uri
    <3> DEFINE q == requests[r]
    <3>1. /\ q.txn \in Txn /\ q.uri \in Uri
          /\ redirects' = redirects \/ redirects' = redirects \cup {<<q.txn, q.uri>>}
      BY <2>2, TypeOf, RequestFacts, Zenon DEF Recheck
    <3> HIDE DEF q
    <3>2. QED
      BY <2>1, <3>1
  <2>3. QED
    BY <2>1, <2>2, Zenon
       DEF Around, Tick, UnusableRequest, Login, SessionExpires, RevokeSession, UpdateClient,
           GetConfirmation, PostConfirmation
<1>8. QED
  BY <1>2, <1>3, <1>4, <1>5, <1>6, <1>7, TypeAfter, Zenon

LEMMA ServedType ==
    ASSUME TypeOK, LockInv, \A t \in Txn : RowSound(txns[t]), NEW r \in Request,
           LockBind(r) \/ Bind(r) \/ Complete(r)
    PROVE  TypeOK' /\ SessionsSteady
<1>1. /\ now' = now /\ clients' = clients /\ redirects' = redirects
      /\ sessions \in Sessions /\ outcomes \in [Txn -> Nat] /\ txns \in Txns
      /\ now \in Nat /\ clients \in [Client -> SUBSET Uri] /\ redirects \subseteq Txn \X Uri
  BY TypeOf, Zenon DEF LockBind, Bind, Complete
<1>2. CASE LockBind(r) \/ Bind(r)
  <2>1. txns' \in Txns /\ jar' \in Jar /\ pages' \subseteq Page /\ (Ends(r) \/ KeepsLocks(r))
    BY <1>1, <1>2, BindMoves, Zenon DEF Binds, Moved
  <2>2. requests' \in [Request -> RequestRow]
    <3>1. CASE Ends(r)
      BY <3>1, Becomes, Kinds, Zenon DEF Ends
    <3>2. CASE KeepsLocks(r)
      <4>1. requests[r] \in RequestRow
        BY TypeOf, Zenon
      <4>2. QED
        BY <3>2, <4>1, LockedRow, Becomes, Zenon DEF KeepsLocks
    <3>3. QED
      BY <2>1, <3>1, <3>2, Zenon
  <2>3. sessions' = sessions /\ outcomes' = outcomes
    BY <1>2, Zenon DEF LockBind, Bind
  <2>4. QED
    BY <1>1, <2>1, <2>2, <2>3, SameSessions, TypeAfter, Zenon
<1>3. CASE Complete(r)
  <2> DEFINE q == requests[r]
  <2>1. q.txn \in Txn /\ q.session \in Session /\ jar' \in Jar /\ pages' \subseteq Page
    BY <1>3, CompleteMoves, Zenon
  <2>2. txns' \in Txns
    BY <1>1, <1>3, CompleteMoves, Zenon DEF Fails, Decides, Moved
  <2>3. ASSUME Completable(q), sessions' = [sessions EXCEPT ![q.session].state = "revoked"]
        PROVE  SessionsSteady
    BY <2>1, <2>3, StateChanges, Zenon DEF Completable, Unrevoked
  <2>4. SessionsSteady
    BY <1>3, <2>3, CompleteMoves, SameSessions, Zenon DEF Fails, Decides
  <2>5. outcomes' \in [Txn -> Nat]
    BY <1>1, <1>3, <2>1, CompleteMoves, OutcomeType, Zenon DEF Fails, Decides
  <2>6. ASSUME Ends(r) PROVE requests' \in [Request -> RequestRow]
    BY <2>6, Becomes, Kinds, Zenon DEF Ends
  <2>7. ASSUME NEW row \in TxnRow, Decides(q, row), GoesOn(r, q, row)
        PROVE  requests' \in [Request -> RequestRow]
    <3> DEFINE new == [phase |-> "recheck", txn |-> q.txn, client |-> row.client, uri |-> row.uri]
    <3>1. row.client \in Client /\ row.uri \in Uri
      <4>1. row.uri # None /\ row.uri = txns[q.txn].uri /\ row.client = txns[q.txn].client
        BY <2>7, Zenon DEF GoesOn, Decides, Alike
      <4>2. row.client # None
        BY <2>1, <2>7, <4>1, Zenon DEF RowSound, Decides, Completable
      <4>3. QED
        BY <2>7, <4>1, <4>2, RowFacts, Zenon
    <3>2. new \in RequestRow
      BY <2>1, <3>1 DEF RequestRow
    <3>3. requests' = [requests EXCEPT ![r] = new]
      BY <2>7, Zenon DEF GoesOn
    <3> HIDE DEF new
    <3>4. QED
      BY <3>2, <3>3, Becomes, Zenon
  <2>8. requests' \in [Request -> RequestRow]
    BY <1>3, <2>6, <2>7, CompleteMoves, Zenon
  <2>9. QED
    BY <1>1, <2>1, <2>2, <2>4, <2>5, <2>8, TypeAfter, Zenon DEF SessionsSteady
<1>4. QED
  BY <1>2, <1>3, ZenonT(20)

-----------------------------------------------------------------------------
(* A bound transaction keeps its session, and a decided one its decision.  *)

TxnsSteady ==
    \A t \in Txn :
        /\ txns[t].stage \notin {"none", "pre_confirm"} =>
               /\ txns'[t].stage \notin {"none", "pre_confirm"}
               /\ txns'[t].stage # "deleted" =>
                      txns[t].stage # "deleted" /\ txns'[t].session = txns[t].session
        /\ txns[t].stage = "confirmed" =>
               /\ txns'[t].stage \in {"confirmed", "deleted"}
               /\ txns'[t].stage = "confirmed" =>
                      txns'[t].client = txns[t].client /\ txns'[t].uri = txns[t].uri
        /\ txns[t].stage = "deleted" => txns'[t].stage = "deleted"

\* Every row a step leaves behind is sound, and its session has not changed.
RowsGood == TxnsSteady /\ \A t \in Txn : RowSound(txns[t])'

\* A row that was not written stays sound.
LEMMA RowStays ==
    ASSUME SessionsSteady, NEW t \in Txn, RowSound(txns[t]), txns'[t] = txns[t]
    PROVE  RowSound(txns[t])'
BY Zenon DEF RowSound, SessionsSteady

LEMMA MovedRows ==
    ASSUME TypeOK, SessionsSteady, \A t \in Txn : RowSound(txns[t]), NEW t \in Txn, NEW row,
           Moved(t, row), RowSound(row)',
           txns[t].stage \notin {"confirmed", "canceled", "deleted"},
           txns[t].stage = "bound_confirmable" =>
               row.stage # "pre_confirm" /\ row.session = txns[t].session
    PROVE  RowsGood
<1>1. txns'[t] = row /\ row.stage \in {"pre_confirm", "bound_confirmable", "confirmed", "canceled"}
  BY RowFacts, Zenon DEF Moved
<1>2. RowSound(txns[t])'
  BY <1>1, Zenon DEF RowSound
<1>3. ASSUME NEW u \in Txn, u # t PROVE RowSound(txns[u])' /\ txns'[u] = txns[u]
  BY <1>3, RowStays, Zenon DEF Moved
<1>4. TxnsSteady
  <2>1. ASSUME NEW u \in Txn, u # t
        PROVE  txns'[u] = txns[u]
    BY <1>3, <2>1, Zenon
  <2>2. /\ txns[t].stage \notin {"none", "pre_confirm"} =>
             /\ txns'[t].stage \notin {"none", "pre_confirm"}
             /\ txns'[t].stage # "deleted" =>
                    txns[t].stage # "deleted" /\ txns'[t].session = txns[t].session
        /\ txns[t].stage # "confirmed" /\ txns[t].stage # "deleted"
    <3>1. txns[t].stage \notin {"none", "pre_confirm"} => txns[t].stage = "bound_confirmable"
      BY TypeOf, TxnFacts, Zenon
    <3>2. QED
      BY <1>1, <3>1, Zenon
  <2>3. QED
    BY <2>1, <2>2, Zenon DEF TxnsSteady
<1>5. QED
  BY <1>2, <1>3, <1>4, Zenon DEF RowsGood

LEMMA StartType ==
    ASSUME TypeOK, Starts
    PROVE  TypeOK' /\ SessionsSteady
<1>1. txns' \in Txns /\ jar' \in Jar
  BY StartsOne, Zenon DEF Moved
<1>2. /\ now' = now /\ sessions' = sessions /\ clients' = clients /\ pages' = pages
      /\ requests' = requests /\ outcomes' = outcomes /\ redirects' = redirects
  BY Zenon DEF Starts, Start
<1>3. QED
  BY <1>1, <1>2, TypeOf, TypeAfter, SameSessions, Zenon

LEMMA DeleteType ==
    ASSUME TypeOK, DeleteRetiredLogoutTransactions
    PROVE  TypeOK' /\ SessionsSteady
<1>1. txns' \in Txns
  BY DeleteMoves, Zenon
<1>2. /\ now' = now /\ sessions' = sessions /\ clients' = clients /\ pages' = pages
      /\ requests' = requests /\ outcomes' = outcomes /\ redirects' = redirects /\ jar' = jar
  BY Zenon DEF DeleteRetiredLogoutTransactions
<1>3. QED
  BY <1>1, <1>2, TypeOf, TypeAfter, SameSessions, Zenon

LEMMA StartRows ==
    ASSUME TypeOK, \A t \in Txn : RowSound(txns[t]), Starts
    PROVE  RowsGood
<1>1. sessions' = sessions
  BY Zenon DEF Starts, Start
<1>2. SessionsSteady
  BY <1>1, SameSessions, Zenon
<1>3. PICK t \in Txn, row \in TxnRow :
        /\ txns[t].stage = "none" /\ Moved(t, row) /\ row.stage = "pre_confirm"
        /\ row.uri # None => row.client # None /\ row.hint # None
  BY StartsOne, Zenon
<1>4. RowSound(row)'
  BY <1>3, Zenon DEF RowSound
<1>5. QED
  BY <1>2, <1>3, <1>4, MovedRows, Zenon

LEMMA BindRows ==
    ASSUME TypeOK, LockInv, \A t \in Txn : RowSound(txns[t]), NEW r \in Request,
           LockBind(r) \/ Bind(r)
    PROVE  RowsGood
<1>1. sessions' = sessions
  BY Zenon DEF LockBind, Bind
<1>2. SessionsSteady
  BY <1>1, SameSessions, Zenon
<1>3. PICK q : q = requests[r]
  BY Zenon
<1>4. q.txn \in Txn /\ q.session \in Session
  BY <1>3, BindMoves, Zenon
<1>5. CASE txns' = txns
  BY <1>2, <1>5, RowStays, Zenon DEF RowsGood, TxnsSteady
<1>6. CASE \E row \in TxnRow : Binds(q, row)
  <2>1. PICK row \in TxnRow : Binds(q, row)
    BY <1>6, Zenon
  <2> DEFINE old == txns[q.txn]
  <2>2. /\ Moved(q.txn, row) /\ row.stage = "bound_confirmable" /\ row.session = q.session
        /\ old.stage \in {"pre_confirm", "bound_confirmable"}
        /\ old.stage = "bound_confirmable" => row.session = old.session
        /\ row.uri # None => /\ row.uri = old.uri /\ row.client = old.client
                             /\ row.hint = old.hint
                             /\ old.stage = "pre_confirm" =>
                                    row.hint \in {None, sessions[q.session].user}
    BY <2>1, Zenon DEF Binds, Alike
  <2>3. RowSound(old) /\ sessions[q.session].state # "none"
    BY <1>4, <2>1, Zenon DEF Binds, Unrevoked
  <2>4. row.uri # None => /\ row.client # None /\ row.hint # None
                          /\ row.hint = sessions[q.session].user
    BY <2>2, <2>3, Zenon DEF RowSound
  <2>5. RowSound(row)'
    BY <1>1, <1>4, <2>2, <2>3, <2>4, Zenon DEF RowSound
  <2>6. QED
    BY <1>2, <1>4, <2>2, <2>5, MovedRows, Zenon
<1>7. QED
  BY <1>3, <1>5, <1>6, BindMoves, Zenon

LEMMA CompleteRows ==
    ASSUME TypeOK, LockInv, \A t \in Txn : RowSound(txns[t]), NEW r \in Request, Complete(r)
    PROVE  RowsGood
<1>1. SessionsSteady
  BY ServedType, Zenon
<1>2. PICK q : q = requests[r]
  BY Zenon
<1>3. q.txn \in Txn /\ q.session \in Session
  BY <1>2, CompleteMoves, Zenon
<1>4. CASE txns' = txns
  BY <1>1, <1>4, RowStays, Zenon DEF RowsGood, TxnsSteady
<1>5. CASE \E row \in TxnRow : Fails(q, row) \/ Decides(q, row)
  <2>1. PICK row \in TxnRow : Fails(q, row) \/ Decides(q, row)
    BY <1>5, Zenon
  <2> DEFINE old == txns[q.txn]
  <2>2. /\ Moved(q.txn, row) /\ old.stage = "bound_confirmable" /\ old.session = q.session
        /\ row.client = old.client /\ row.uri = old.uri /\ row.hint = old.hint
        /\ row.session = old.session
        /\ row.stage \in {"bound_confirmable", "confirmed", "canceled"}
    BY <2>1, Zenon DEF Fails, Decides, Alike, Completable
  <2>3. RowSound(old) /\ sessions[q.session].state # "none"
    BY <1>3, <2>1, Zenon DEF Fails, Decides, Completable, Unrevoked
  <2>4. row.stage = "confirmed" => sessions'[q.session].state = "revoked"
    <3>1. ASSUME row.stage = "confirmed"
          PROVE  sessions' = [sessions EXCEPT ![q.session].state = "revoked"]
      BY <2>1, <3>1, Zenon DEF Fails, Decides
    <3>2. QED
      BY <1>3, <2>3, <3>1, StateChanges, Zenon
  <2>5. /\ row.uri # None => row.client # None /\ row.hint # None
        /\ row.session \in Session /\ sessions'[row.session].state # "none"
        /\ row.uri # None => row.hint = sessions'[row.session].user
    BY <1>1, <1>3, <2>2, <2>3, Zenon DEF RowSound, SessionsSteady
  <2>6. RowSound(row)'
    BY <2>2, <2>4, <2>5, Zenon DEF RowSound
  <2>7. QED
    BY <1>1, <1>3, <2>2, <2>6, MovedRows, Zenon
<1>6. QED
  BY <1>2, <1>4, <1>5, CompleteMoves, Zenon

LEMMA DeleteRows ==
    ASSUME TypeOK, \A t \in Txn : RowSound(txns[t]), DeleteRetiredLogoutTransactions
    PROVE  RowsGood
<1>1. SessionsSteady
  BY SameSessions, Zenon DEF DeleteRetiredLogoutTransactions
<1>2. ASSUME NEW t \in Txn PROVE txns'[t] = txns[t] \/ txns'[t].stage = "deleted"
  BY DeleteMoves, Kinds, Zenon
<1>3. TxnsSteady
  BY <1>2, Zenon DEF TxnsSteady
<1>4. ASSUME NEW t \in Txn PROVE RowSound(txns[t])'
  BY <1>1, <1>2, RowStays, Zenon DEF RowSound
<1>5. QED
  BY <1>3, <1>4, Zenon DEF RowsGood

LEMMA RowsStep ==
    ASSUME TypeOK, LockInv, \A t \in Txn : RowSound(txns[t]), Next
    PROVE  TypeOK' /\ SessionsSteady /\ RowsGood
<1>1. CASE Around
  <2>1. TypeOK' /\ SessionsSteady /\ txns' = txns
    BY <1>1, AroundType, AroundRows, Zenon
  <2>2. QED
    BY <2>1, RowStays, Zenon DEF RowsGood, TxnsSteady
<1>2. CASE Starts
  BY <1>2, StartRows, StartType, Zenon
<1>3. CASE DeleteRetiredLogoutTransactions
  BY <1>3, DeleteRows, DeleteType, Zenon
<1>4. QED
  BY <1>1, <1>2, <1>3, Steps, BindRows, CompleteRows, ServedType, Zenon

-----------------------------------------------------------------------------
(* Pages, requests and redirects.                                          *)

LEMMA ClockStep ==
    ASSUME TypeOK, Next
    PROVE  now \in Nat /\ now' \in Nat /\ now <= now'
<1>1. now' = now \/ Tick
  BY Zenon DEF Next, UnusableRequest, Login, SessionExpires, RevokeSession, UpdateClient,
               Start, GetConfirmation, PostConfirmation, LockBind, Bind, Complete, Recheck,
               DeleteRetiredLogoutTransactions
<1>2. now \in Nat
  BY TypeOf, Zenon
<1>3. QED
  BY <1>1, <1>2 DEF Tick

LEMMA PageStays ==
    ASSUME TxnsSteady, NEW p, p.txn \in Txn, PageSound(p)
    PROVE  PageSound(p)'
BY Zenon DEF PageSound, TxnsSteady

LEMMA SentStays ==
    ASSUME TxnsSteady, NEW t \in Txn, NEW client, NEW uri, SentSound(t, client, uri)
    PROVE  SentSound(t, client, uri)'
BY Zenon DEF SentSound, TxnsSteady

LEMMA RequestStays ==
    ASSUME TxnsSteady, now \in Nat, now' \in Nat, now <= now', NEW q \in RequestRow,
           RequestSound(q)
    PROVE  RequestSound(q)'
<1>1. q.phase \in {"get", "bind", "post"} => q.at <= now'
  <2>1. q.phase \in {"get", "bind", "post"} => q.at \in Nat /\ q.at <= now
    BY RequestFacts, Zenon DEF RequestSound
  <2>2. QED
    BY <2>1
<1>2. q.phase = "post" => PageSound(q.proof)'
  BY RequestFacts, PageStays, Zenon DEF RequestSound
<1>3. q.phase = "recheck" => SentSound(q.txn, q.client, q.uri)'
  BY RequestFacts, SentStays, Zenon DEF RequestSound
<1>4. QED
  BY <1>1, <1>2, <1>3, Zenon DEF RequestSound

LEMMA PagesStep ==
    ASSUME LogoutInv, TxnsSteady, Next
    PROVE  \A p \in pages' : PageSound(p)'
<1>1. TypeOK /\ LockInv /\ \A p \in pages : PageSound(p)
  BY Zenon DEF LogoutInv
<1>2. ASSUME NEW p \in pages PROVE PageSound(p)'
  <2>1. p \in Page
    BY <1>1, TypeOf, Zenon
  <2>2. p.txn \in Txn
    BY <2>1 DEF Page
  <2>3. QED
    BY <1>1, <2>2, PageStays, Zenon
<1>3. ASSUME NEW r \in Request, LockBind(r) \/ Bind(r), NEW p \in pages' PROVE PageSound(p)'
  <2>1. CASE p \in pages
    BY <1>2, <2>1, Zenon
  <2>2. CASE p \notin pages
    <3>1. PICK q : q = requests[r]
      BY Zenon
    <3>2. PICK row \in TxnRow : Binds(q, row)
      BY <1>1, <1>3, <2>2, <3>1, BindMoves, Zenon
    <3>3. /\ p = [txn |-> q.txn, session |-> q.session, proof |-> row.proof]
          /\ txns'[q.txn] = row /\ row.stage = "bound_confirmable" /\ row.session = q.session
      BY <1>3, <2>2, <3>2, Zenon DEF Binds, Moved
    <3>4. p.txn = q.txn /\ p.session = q.session
      BY <3>3
    <3>5. QED
      BY <3>3, <3>4, Zenon DEF PageSound
  <2>3. QED
    BY <2>1, <2>2, Zenon
<1>4. CASE pages' \subseteq pages
  BY <1>2, <1>4, Zenon
<1>5. CASE Starts \/ DeleteRetiredLogoutTransactions
  BY <1>2, <1>5, Zenon DEF Starts, Start, DeleteRetiredLogoutTransactions
<1>6. QED
  BY <1>1, <1>3, <1>4, <1>5, Steps, AroundRows, CompleteMoves, Zenon

LEMMA RequestsStep ==
    ASSUME LogoutInv, TxnsSteady, Next
    PROVE  \A x \in Request : RequestSound(requests[x])'
<1>1. /\ TypeOK /\ LockInv /\ requests \in [Request -> RequestRow]
      /\ \A p \in pages : PageSound(p)
      /\ \A r \in Request : RequestSound(requests[r])
  BY TypeOf, Zenon DEF LogoutInv
<1>2. now \in Nat /\ now' \in Nat /\ now <= now'
  BY <1>1, ClockStep, Zenon
<1>3. ASSUME NEW x \in Request, requests'[x] = requests[x] PROVE RequestSound(requests[x])'
  <2>1. PICK q : q = requests[x]
    BY Zenon
  <2>2. q \in RequestRow /\ RequestSound(q)
    BY <1>1, <2>1, Zenon
  <2>3. RequestSound(q)'
    BY <1>2, <2>2, RequestStays, Zenon
  <2>4. QED
    BY <1>3, <2>1, <2>3, Zenon DEF RequestSound
<1>4. ASSUME NEW r \in Request, NEW q, requests' = [requests EXCEPT ![r] = q], RequestSound(q)'
      PROVE  \A x \in Request : RequestSound(requests[x])'
  <2>1. requests'[r] = q /\ \A x \in Request \ {r} : requests'[x] = requests[x]
    BY <1>1, <1>4, Zenon
  <2>2. RequestSound(requests[r])'
    BY <1>4, <2>1, Zenon DEF RequestSound
  <2>3. QED
    BY <1>3, <2>1, <2>2, Zenon
<1>5. ASSUME NEW r \in Request, requests' = [requests EXCEPT ![r] = Idle]
      PROVE  \A x \in Request : RequestSound(requests[x])'
  <2>1. RequestSound(Idle)'
    BY Kinds, Zenon DEF RequestSound
  <2>2. QED
    BY <1>4, <1>5, <2>1, Zenon
<1>6. ASSUME NEW r \in Request, GetConfirmation(r)
      PROVE  \A x \in Request : RequestSound(requests[x])'
  <2>1. PICK q : q = [phase |-> "get", txn |-> jar.lookup, session |-> jar.auth, at |-> now]
    BY Zenon
  <2>2. q.phase = "get" /\ q.at = now
    BY <2>1
  <2>3. RequestSound(q)'
    BY <1>2, <2>2, Zenon DEF RequestSound
  <2>4. QED
    BY <1>4, <1>6, <2>1, <2>3, Zenon DEF GetConfirmation
<1>7. ASSUME NEW r \in Request, NEW page \in pages, NEW d, PostConfirmation(r, page, d)
      PROVE  \A x \in Request : RequestSound(requests[x])'
  <2>1. PICK q : q = [phase |-> "post", txn |-> jar.lookup, session |-> jar.auth, at |-> now,
                      proof |-> page, decision |-> d]
    BY Zenon
  <2>2. q.phase = "post" /\ q.at = now /\ q.proof = page
    BY <2>1
  <2>3. PageSound(page)'
    BY <1>1, <1>7, PagesStep, Zenon DEF PostConfirmation
  <2>4. RequestSound(q)'
    BY <1>2, <2>2, <2>3, Zenon DEF RequestSound
  <2>5. QED
    BY <1>4, <1>7, <2>1, <2>4, Zenon DEF PostConfirmation
<1>8. ASSUME NEW r \in Request, Complete(r)
      PROVE  \A x \in Request : RequestSound(requests[x])'
  <2>1. CASE Ends(r)
    BY <1>5, <2>1, Zenon DEF Ends
  <2>2. CASE \E row \in TxnRow : Decides(requests[r], row) /\ GoesOn(r, requests[r], row)
    <3>1. PICK row \in TxnRow : Decides(requests[r], row) /\ GoesOn(r, requests[r], row)
      BY <2>2, Zenon
    <3>2. PICK q : q = [phase |-> "recheck", txn |-> requests[r].txn, client |-> row.client,
                        uri |-> row.uri]
      BY Zenon
    <3>3. /\ q.phase = "recheck" /\ q.txn = requests[r].txn
          /\ q.client = row.client /\ q.uri = row.uri
      BY <3>2
    <3>4. txns'[q.txn] = row /\ row.stage = "confirmed" /\ requests' = [requests EXCEPT ![r] = q]
      BY <3>1, <3>2, <3>3, Zenon DEF Decides, GoesOn, Moved
    <3>5. RequestSound(q)'
      BY <3>3, <3>4, Zenon DEF RequestSound, SentSound
    <3>6. QED
      BY <1>4, <3>4, <3>5, Zenon
  <2>3. QED
    BY <1>1, <1>8, <2>1, <2>2, CompleteMoves, Zenon
<1>9. ASSUME requests' = requests PROVE \A x \in Request : RequestSound(requests[x])'
  BY <1>3, <1>9, Zenon
<1>10. ASSUME \/ Tick \/ UnusableRequest \/ Starts \/ DeleteRetiredLogoutTransactions
              \/ \E u \in User, s \in Session : Login(u, s)
              \/ \E s \in Session : SessionExpires(s) \/ RevokeSession(s)
              \/ \E c \in Client, uris \in SUBSET Uri : UpdateClient(c, uris)
       PROVE  requests' = requests
  BY <1>10, Zenon DEF Tick, UnusableRequest, Starts, Start, DeleteRetiredLogoutTransactions,
                      Login, SessionExpires, RevokeSession, UpdateClient
<1>11. ASSUME NEW r \in Request, Recheck(r)
       PROVE  requests' = [requests EXCEPT ![r] = Idle]
  BY <1>11, Zenon DEF Recheck
<1>12. ASSUME NEW r \in Request, LockBind(r) \/ Bind(r)
       PROVE  \A x \in Request : RequestSound(requests[x])'
  <2>1. CASE Ends(r)
    BY <1>5, <2>1, Zenon DEF Ends
  <2>2. CASE KeepsLocks(r)
    <3>1. PICK q : q = [requests[r] EXCEPT !.phase = "bind"]
      BY Zenon
    <3>2. q.phase = "bind" /\ q.at = requests[r].at /\ requests[r].at <= now
      BY <1>1, <2>2, <3>1, LockedRow, Zenon DEF KeepsLocks, RequestSound
    <3>3. now' = now
      BY <1>12, Zenon DEF LockBind, Bind
    <3>4. RequestSound(q)'
      BY <3>2, <3>3, Zenon DEF RequestSound
    <3>5. QED
      BY <1>4, <2>2, <3>1, <3>4, Zenon DEF KeepsLocks
  <2>3. QED
    BY <1>1, <1>12, <2>1, <2>2, BindMoves, Zenon
<1>13. CASE Around
  BY <1>5, <1>6, <1>7, <1>9, <1>10, <1>11, <1>13, Zenon DEF Around
<1>14. QED
  BY <1>8, <1>9, <1>10, <1>12, <1>13, Steps, Zenon

-----------------------------------------------------------------------------
(* How many pages a session may have open.                                 *)

Started == {t \in Txn : txns[t].stage # "none"}

\* No transaction becomes bound, and none changes its session or lifetime.
BindsNone ==
    \A t \in Txn : txns'[t].stage = "bound_confirmable" =>
        /\ txns[t].stage = "bound_confirmable" /\ txns'[t].session = txns[t].session
        /\ txns'[t].expires = txns[t].expires

LEMMA MoreStarted ==
    ASSUME IsFiniteSet(Started), NEW X, IsFiniteSet(X), Started' \subseteq Started \cup X
    PROVE  IsFiniteSet(Started')
<1>1. IsFiniteSet(Started \cup X)
  BY FS_Union, Zenon
<1>2. QED
  BY <1>1, FS_Subset, Zenon

LEMMA FewerBound ==
    ASSUME NEW A, NEW B, IsFiniteSet(A), B \subseteq A, NEW n \in Nat, Cardinality(A) <= n
    PROVE  Cardinality(B) <= n
<1>1. IsFiniteSet(B) /\ Cardinality(B) <= Cardinality(A)
  BY FS_Subset, Zenon
<1>2. Cardinality(A) \in Nat /\ Cardinality(B) \in Nat
  BY <1>1, FS_CardinalityType, Zenon
<1>3. QED
  BY <1>1, <1>2

LEMMA OneMoreBound ==
    ASSUME NEW A, NEW B, IsFiniteSet(A), NEW t, B \subseteq A \cup {t}, NEW n \in Nat,
           ~(Cardinality(A) >= n)
    PROVE  Cardinality(B) <= n
<1>1. IsFiniteSet(A \cup {t}) /\ Cardinality(A) \in Nat /\ Cardinality(A \cup {t}) \in Nat
  BY FS_AddElement, FS_CardinalityType, Zenon
<1>2. Cardinality(A \cup {t}) = Cardinality(A) \/ Cardinality(A \cup {t}) = Cardinality(A) + 1
  BY FS_AddElement, Zenon
<1>3. Cardinality(A \cup {t}) <= n
  BY <1>1, <1>2
<1>4. QED
  BY <1>1, <1>3, FewerBound, Zenon

LEMMA BoundFinite ==
    ASSUME IsFiniteSet(Started), NEW s, NEW at
    PROVE  IsFiniteSet(LiveBound(s, at))
<1>1. LiveBound(s, at) \subseteq Started
  BY Zenon DEF LiveBound, Started
<1>2. QED
  BY <1>1, FS_Subset, Zenon

\* Rows are not created but by Start.
LEMMA StartedStep ==
    ASSUME TypeOK, LockInv, IsFiniteSet(Started), Next
    PROVE  IsFiniteSet(Started')
<1>1. ASSUME NEW t, Started' \subseteq Started \cup {t} PROVE IsFiniteSet(Started')
  BY <1>1, MoreStarted, FS_Singleton, Zenon
<1>2. ASSUME Started' \subseteq Started PROVE IsFiniteSet(Started')
  BY <1>2, FS_Subset, Zenon
<1>3. ASSUME NEW t, NEW row, Moved(t, row) PROVE IsFiniteSet(Started')
  <2>1. Started' \subseteq Started \cup {t}
    BY <1>3, Zenon DEF Moved, Started
  <2>2. QED
    BY <1>1, <2>1, Zenon
<1>4. CASE txns' = txns
  BY <1>2, <1>4, Zenon DEF Started
<1>5. CASE Starts
  BY <1>3, <1>5, StartMoves, Zenon DEF Starts
<1>6. CASE DeleteRetiredLogoutTransactions
  <2>1. Started' \subseteq Started
    BY <1>6, DeleteMoves, Zenon DEF Started
  <2>2. QED
    BY <1>2, <2>1, Zenon
<1>7. ASSUME NEW r \in Request, LockBind(r) \/ Bind(r) PROVE IsFiniteSet(Started')
  BY <1>3, <1>4, <1>7, BindMoves, Zenon DEF Binds
<1>8. ASSUME NEW r \in Request, Complete(r) PROVE IsFiniteSet(Started')
  BY <1>3, <1>4, <1>8, CompleteMoves, Zenon DEF Fails, Decides
<1>9. QED
  BY <1>4, <1>5, <1>6, <1>7, <1>8, Steps, AroundRows, Zenon

LEMMA BindsNoneBudget ==
    ASSUME TypeOK, TypeOK', BudgetInv, BindsNone, now \in Nat, now' \in Nat, now <= now',
           NEW s \in Session
    PROVE  Cardinality(LiveBound(s, now)') <= MaxActive
<1>1. IsFiniteSet(Started) /\ Cardinality(LiveBound(s, now)) <= MaxActive
  BY Zenon DEF BudgetInv, Started
<1>2. MaxActive \in Nat
  BY LimitAssumption
<1>3. ASSUME NEW t \in LiveBound(s, now)' PROVE t \in LiveBound(s, now)
  <2>1. /\ t \in Txn /\ txns'[t].stage = "bound_confirmable" /\ txns'[t].session = s
        /\ txns'[t].expires > now'
    BY <1>3, Zenon DEF LiveBound
  <2>2. /\ txns[t].stage = "bound_confirmable" /\ txns[t].session = s
        /\ txns[t].expires = txns'[t].expires
    BY <2>1, Zenon DEF BindsNone
  <2>3. txns[t].expires \in Nat
    BY <2>1, <2>2, TypeOf, TxnFacts, RowFacts, Zenon
  <2>4. txns[t].expires > now
    BY <2>1, <2>2, <2>3
  <2>5. QED
    BY <2>1, <2>2, <2>4, Zenon DEF LiveBound
<1>4. IsFiniteSet(LiveBound(s, now))
  BY <1>1, BoundFinite, Zenon
<1>5. LiveBound(s, now)' \subseteq LiveBound(s, now)
  BY <1>3, Zenon
<1>6. QED
  BY <1>1, <1>2, <1>4, <1>5, FewerBound, Zenon

\* Binding counts the transactions that were live when the request arrived:
\* never fewer than are live now.
LEMMA BindBudget ==
    ASSUME LogoutInv, NEW r \in Request, LockBind(r) \/ Bind(r), NEW s \in Session
    PROVE  Cardinality(LiveBound(s, now)') <= MaxActive
<1>1. TypeOK /\ LockInv /\ BudgetInv /\ RequestSound(requests[r])
  BY Zenon DEF LogoutInv
<1>2. TypeOK' /\ now' = now /\ now \in Nat /\ now <= now
  <2>1. TypeOK' /\ now' = now /\ now \in Nat
    BY <1>1, ServedType, TypeOf, Zenon DEF LogoutInv, LockBind, Bind
  <2>2. QED
    BY <2>1
<1>3. PICK q : q = requests[r]
  BY Zenon
<1>4. q.at \in Nat /\ q.at <= now /\ q.txn \in Txn
  BY <1>1, <1>3, BindMoves, Zenon DEF RequestSound
<1>5. ASSUME BindsNone PROVE Cardinality(LiveBound(s, now)') <= MaxActive
  BY <1>1, <1>2, <1>5, BindsNoneBudget, Zenon
<1>6. CASE txns' = txns
  BY <1>5, <1>6, Zenon DEF BindsNone
<1>7. ASSUME NEW row \in TxnRow, Binds(q, row)
      PROVE  Cardinality(LiveBound(s, now)') <= MaxActive
  <2>1. /\ txns'[q.txn] = row /\ \A u \in Txn \ {q.txn} : txns'[u] = txns[u]
        /\ row.session = q.session
    BY <1>7, Zenon DEF Binds, Moved
  <2>2. CASE txns[q.txn].stage = "bound_confirmable" /\ Alike(row, txns[q.txn])
    <3>1. BindsNone
      BY <2>1, <2>2, Zenon DEF BindsNone, Alike
    <3>2. QED
      BY <1>5, <3>1, Zenon
  <2>3. CASE ~AtCapacity(q.session, q.at) /\ s = q.session
    <3>1. ASSUME NEW t \in LiveBound(s, now)', t # q.txn PROVE t \in LiveBound(s, q.at)
      <4>1. /\ t \in Txn /\ txns[t].stage = "bound_confirmable" /\ txns[t].session = s
            /\ txns[t].expires > now
        BY <1>2, <2>1, <3>1, Zenon DEF LiveBound
      <4>2. txns[t].expires \in Nat
        BY <1>1, <4>1, TypeOf, TxnFacts, RowFacts, Zenon
      <4>3. txns[t].expires > q.at
        BY <1>2, <1>4, <4>1, <4>2
      <4>4. QED
        BY <4>1, <4>3, Zenon DEF LiveBound
    <3>2. LiveBound(s, now)' \subseteq LiveBound(s, q.at) \cup {q.txn}
      BY <3>1, Zenon
    <3>3. IsFiniteSet(LiveBound(s, q.at))
      BY <1>1, BoundFinite, Zenon DEF BudgetInv, Started
    <3>4. MaxActive \in Nat
      BY LimitAssumption
    <3>5. ~(Cardinality(LiveBound(s, q.at)) >= MaxActive)
      BY <2>3, Zenon DEF AtCapacity
    <3>6. QED
      BY <3>2, <3>3, <3>4, <3>5, OneMoreBound, Zenon
  <2>4. CASE s # q.session
    <3>1. LiveBound(s, now)' \subseteq LiveBound(s, now)
      BY <1>2, <2>1, <2>4, Zenon DEF LiveBound
    <3>2. IsFiniteSet(LiveBound(s, now)) /\ Cardinality(LiveBound(s, now)) <= MaxActive
      BY <1>1, BoundFinite, Zenon DEF BudgetInv, Started
    <3>3. MaxActive \in Nat
      BY LimitAssumption
    <3>4. QED
      BY <3>1, <3>2, <3>3, FewerBound, Zenon
  <2>5. QED
    BY <1>7, <2>2, <2>3, <2>4, Zenon DEF Binds
<1>8. QED
  BY <1>1, <1>3, <1>6, <1>7, BindMoves, Zenon

LEMMA BudgetStep ==
    ASSUME LogoutInv, Next
    PROVE  BudgetInv'
<1>1. TypeOK /\ LockInv /\ BudgetInv /\ TypeOK' /\ now \in Nat /\ now' \in Nat /\ now <= now'
  BY RowsStep, ClockStep, Zenon DEF LogoutInv
<1>2. IsFiniteSet(Started')
  BY <1>1, StartedStep, Zenon DEF BudgetInv, Started
<1>3. ASSUME NEW s \in Session PROVE Cardinality(LiveBound(s, now)') <= MaxActive
  <2>1. ASSUME BindsNone PROVE Cardinality(LiveBound(s, now)') <= MaxActive
    BY <1>1, <2>1, BindsNoneBudget, Zenon
  <2>2. CASE Around
    BY <1>1, <2>1, <2>2, AroundRows, Zenon DEF BindsNone
  <2>3. CASE Starts
    <3>1. PICK t \in Txn, row \in TxnRow : Moved(t, row) /\ row.stage = "pre_confirm"
      BY <1>1, <2>3, StartMoves, Zenon DEF Starts
    <3>2. BindsNone
      BY <3>1, Zenon DEF BindsNone, Moved
    <3>3. QED
      BY <2>1, <3>2, Zenon
  <2>4. CASE DeleteRetiredLogoutTransactions
    <3>1. BindsNone
      BY <1>1, <2>4, DeleteMoves, Kinds, Zenon DEF BindsNone
    <3>2. QED
      BY <2>1, <3>1, Zenon
  <2>5. ASSUME NEW r \in Request, Complete(r)
        PROVE  BindsNone
    <3>1. CASE txns' = txns
      BY <3>1, Zenon DEF BindsNone
    <3>2. ASSUME NEW row, Fails(requests[r], row) \/ Decides(requests[r], row) PROVE BindsNone
      <4>1. PICK t : t = requests[r].txn
        BY Zenon
      <4>2. /\ txns'[t] = row /\ \A u \in Txn \ {t} : txns'[u] = txns[u]
            /\ txns[t].stage = "bound_confirmable" /\ Alike(row, txns[t])
        BY <3>2, <4>1, Zenon DEF Fails, Decides, Moved, Completable
      <4>3. QED
        BY <4>2, Zenon DEF BindsNone, Alike
    <3>3. QED
      BY <1>1, <2>5, <3>1, <3>2, CompleteMoves, Zenon
  <2>6. QED
    BY <2>1, <2>2, <2>3, <2>4, <2>5, Steps, BindBudget, Zenon
<1>4. QED
  BY <1>2, <1>3, Zenon DEF BudgetInv, Started

-----------------------------------------------------------------------------
(* What a binding has counted stays true while it holds its locks.         *)

\* A step leaves transaction t alone, does not end session s and binds nothing
\* to it.
Undisturbed(t, s) ==
    /\ txns'[t] = txns[t]
    /\ Unrevoked(s) => Unrevoked(s)'
    /\ \A u \in Txn : txns'[u].stage = "bound_confirmable" /\ txns'[u].session = s =>
           /\ txns[u].stage = "bound_confirmable" /\ txns[u].session = s
           /\ txns'[u].expires = txns[u].expires

LEMMA CountedStays ==
    ASSUME TypeOK, BudgetInv, NEW q, q.txn \in Txn, Counted(q), Undisturbed(q.txn, q.session)
    PROVE  Counted(q)'
<1>1. /\ (txns[q.txn].stage = "pre_confirm")' /\ Open(q.txn, q.at)'
      /\ Unrevoked(q.session)'
  BY Zenon DEF Counted, Undisturbed, Open
<1>2. LiveBound(q.session, q.at)' \subseteq LiveBound(q.session, q.at)
  BY Zenon DEF Undisturbed, LiveBound
<1>3. IsFiniteSet(LiveBound(q.session, q.at))
  BY BoundFinite, Zenon DEF BudgetInv, Started
<1>4. /\ Cardinality(LiveBound(q.session, q.at)') <= Cardinality(LiveBound(q.session, q.at))
      /\ Cardinality(LiveBound(q.session, q.at)) \in Nat
      /\ Cardinality(LiveBound(q.session, q.at)') \in Nat
  <2>1. IsFiniteSet(LiveBound(q.session, q.at)')
    BY <1>2, <1>3, FS_Subset, Zenon
  <2>2. QED
    BY <1>2, <1>3, <2>1, FS_Subset, FS_CardinalityType, Zenon
<1>5. ~(Cardinality(LiveBound(q.session, q.at)) >= MaxActive) /\ MaxActive \in Nat
  BY LimitAssumption, Zenon DEF Counted, AtCapacity
<1>6. ~(Cardinality(LiveBound(q.session, q.at)') >= MaxActive)
  BY <1>4, <1>5
<1>7. QED
  BY <1>1, <1>6, Zenon DEF Counted, AtCapacity

LEMMA Holds ==
    ASSUME NEW r \in Request, requests[r].phase = "bind"
    PROVE  TxnLocked(requests[r].txn) /\ SessionLocked(requests[r].session)
BY Zenon DEF TxnLocked, SessionLocked, Binding

LEMMA OnlyOld ==
    ASSUME NEW t \in Txn, NEW s, txns'[t] = txns[t], Unrevoked(s) => Unrevoked(s)',
           \A u \in Txn : txns'[u] = txns[u] \/ txns'[u].stage \in {"pre_confirm", "deleted"}
    PROVE  Undisturbed(t, s)
<1>1. ASSUME NEW u \in Txn, txns'[u].stage = "bound_confirmable" PROVE txns'[u] = txns[u]
  BY <1>1
<1>2. QED
  BY <1>1, Zenon DEF Undisturbed

\* Nobody else disturbs what a request has locked.
LEMMA LocksHold ==
    ASSUME TypeOK, LockInv, Next, NEW r \in Request, requests[r].phase = "bind", ~Bind(r)
    PROVE  Undisturbed(requests[r].txn, requests[r].session)
<1>1. PICK q : q = requests[r]
  BY Zenon
<1>2. /\ q.txn \in Txn /\ q.session \in Session /\ Counted(q) /\ txns[q.txn].stage = "pre_confirm"
      /\ TxnLocked(q.txn) /\ SessionLocked(q.session)
  BY <1>1, TypeOf, RequestFacts, Holds, Zenon DEF LockInv, Counted
<1>3. ASSUME txns' = txns, Unrevoked(q.session) => Unrevoked(q.session)'
      PROVE  Undisturbed(q.txn, q.session)
  BY <1>3, Zenon DEF Undisturbed
<1>4. ASSUME sessions' = sessions PROVE Unrevoked(q.session) => Unrevoked(q.session)'
  BY <1>4, Zenon DEF Unrevoked
<1>5. CASE Around
  <2>1. txns' = txns
    BY <1>5, AroundRows, Zenon
  <2>2. ASSUME NEW u \in User, NEW s \in Session, Login(u, s)
        PROVE  Unrevoked(q.session) => Unrevoked(q.session)'
    <3>1. ASSUME Unrevoked(q.session) PROVE q.session # s
      BY <2>2, <3>1, Zenon DEF Login, Unrevoked
    <3>2. ~(jar.auth = q.session /\ jar.auth # None /\ sessions[jar.auth].state = "live")
      BY <1>2, <2>2, Zenon DEF Login
    <3>3. jar.auth = q.session => jar.auth # None
      BY <1>2, NoneAssumption
    <3>4. ASSUME Unrevoked(q.session) PROVE sessions'[q.session] = sessions[q.session]
      BY <1>2, <2>2, <3>1, <3>2, <3>3, <3>4, Zenon DEF Login
    <3>5. QED
      BY <3>4, Zenon DEF Unrevoked
  <2>3. ASSUME NEW s \in Session, SessionExpires(s) \/ RevokeSession(s)
        PROVE  Unrevoked(q.session) => Unrevoked(q.session)'
    <3>1. CASE s # q.session
      <4>1. sessions'[q.session] = sessions[q.session]
        BY <1>2, <2>3, <3>1, TypeOf, Zenon DEF SessionExpires, RevokeSession, Sessions
      <4>2. QED
        BY <4>1, Zenon DEF Unrevoked
    <3>2. CASE s = q.session
      <4>1. SessionExpires(s)
        BY <1>2, <2>3, <3>2, Zenon DEF RevokeSession
      <4>2. sessions'[s].state = "expired"
        BY <4>1, StateChanges, Zenon DEF SessionExpires
      <4>3. QED
        BY <3>2, <4>2, Zenon DEF Unrevoked
    <3>3. QED
      BY <3>1, <3>2, Zenon
  <2>4. ASSUME sessions' = sessions PROVE Undisturbed(q.txn, q.session)
    BY <1>3, <1>4, <2>1, <2>4, Zenon
  <2>5. \/ sessions' = sessions
        \/ \E u \in User, s \in Session : Login(u, s)
        \/ \E s \in Session : SessionExpires(s) \/ RevokeSession(s)
    BY <1>5, Zenon
       DEF Around, Tick, UnusableRequest, UpdateClient, GetConfirmation, PostConfirmation, Recheck
  <2>6. QED
    BY <1>1, <1>3, <2>1, <2>2, <2>3, <2>4, <2>5, Zenon
<1>6. CASE Starts
  <2>1. PICK t \in Txn, row \in TxnRow :
          txns[t].stage = "none" /\ Moved(t, row) /\ row.stage = "pre_confirm"
    BY <1>6, StartsOne, Zenon
  <2>2. sessions' = sessions /\ t # q.txn
    BY <1>2, <1>6, <2>1, Zenon DEF Starts, Start
  <2>3. txns'[q.txn] = txns[q.txn]
    BY <1>2, <2>1, <2>2, Zenon DEF Moved
  <2>4. \A u \in Txn : txns'[u] = txns[u] \/ txns'[u].stage = "pre_confirm"
    BY <2>1, Zenon DEF Moved
  <2>5. QED
    BY <1>1, <1>2, <1>4, <2>2, <2>3, <2>4, OnlyOld, Zenon
<1>7. CASE DeleteRetiredLogoutTransactions
  <2>1. ~Retired(q.txn) /\ sessions' = sessions
    BY <1>2, <1>7, Zenon DEF Retired, DeleteRetiredLogoutTransactions
  <2>2. txns'[q.txn] = txns[q.txn]
    BY <1>2, <1>7, <2>1, DeleteMoves, Zenon
  <2>3. \A u \in Txn : txns'[u] = txns[u] \/ txns'[u].stage = "deleted"
    BY <1>7, DeleteMoves, Kinds, Zenon
  <2>4. QED
    BY <1>1, <1>2, <1>4, <2>1, <2>2, <2>3, OnlyOld, Zenon
<1>8. ASSUME NEW x \in Request, LockBind(x) \/ Bind(x)
      PROVE  Undisturbed(q.txn, q.session)
  <2>1. sessions' = sessions /\ x # r
    BY <1>1, <1>8, Zenon DEF LockBind, Bind
  <2>2. requests[x].txn # q.txn /\ requests[x].session # q.session
    BY <1>1, <1>2, <1>8, <2>1, Zenon DEF LockBind, Bind, LockInv
  <2>3. CASE txns' = txns
    BY <1>3, <1>4, <2>1, <2>3, Zenon
  <2>4. ASSUME NEW row \in TxnRow, Binds(requests[x], row)
        PROVE  Undisturbed(q.txn, q.session)
    BY <1>2, <1>4, <2>1, <2>2, <2>4, Zenon DEF Undisturbed, Binds, Moved
  <2>5. QED
    BY <1>8, <2>3, <2>4, BindMoves, Zenon
<1>9. ASSUME NEW x \in Request, Complete(x)
      PROVE  Undisturbed(q.txn, q.session)
  <2>1. /\ requests[x].txn # q.txn /\ requests[x].session # q.session
        /\ requests[x].session \in Session
    BY <1>2, <1>9, CompleteMoves, Zenon DEF Complete
  <2>2. sessions'[q.session] = sessions[q.session]
    BY <1>2, <1>9, <2>1, CompleteMoves, TypeOf, Zenon DEF Fails, Decides, Sessions
  <2>3. Unrevoked(q.session) => Unrevoked(q.session)'
    BY <2>2, Zenon DEF Unrevoked
  <2>4. CASE txns' = txns
    BY <1>3, <2>3, <2>4, Zenon
  <2>5. ASSUME NEW row \in TxnRow, Fails(requests[x], row) \/ Decides(requests[x], row)
        PROVE  Undisturbed(q.txn, q.session)
    <3>1. Moved(requests[x].txn, row) /\ row.session = requests[x].session
      BY <2>5, Zenon DEF Fails, Decides, Alike, Completable
    <3>2. QED
      BY <1>2, <2>1, <2>3, <3>1, Zenon DEF Undisturbed, Moved
  <2>6. QED
    BY <1>9, <2>4, <2>5, CompleteMoves, Zenon
<1>10. QED
  BY <1>1, <1>5, <1>6, <1>7, <1>8, <1>9, Steps, Zenon

\* A request holds locks after a step because it held them, or has just locked.
LEMMA Lockers ==
    ASSUME TypeOK, LockInv, Next, NEW x \in Request, requests'[x].phase = "bind"
    PROVE  \/ requests'[x] = requests[x] /\ ~Bind(x)
           \/ KeepsLocks(x) /\ LockBind(x) /\ txns' = txns /\ sessions' = sessions
<1>1. requests \in [Request -> RequestRow]
  BY TypeOf, Zenon
<1>2. ASSUME NEW r \in Request, NEW q, requests' = [requests EXCEPT ![r] = q], q.phase # "bind"
      PROVE  requests'[x] = requests[x] /\ ~Bind(x)
  <2>1. requests'[r] = q /\ x # r /\ requests'[x] = requests[x]
    BY <1>1, <1>2, Zenon
  <2>2. ~Bind(x)
    <3>1. ASSUME Bind(x) PROVE requests'[x] = Idle
      BY <1>1, <3>1, Zenon DEF Bind, Render
    <3>2. QED
      BY <3>1, Kinds, Zenon
  <2>3. QED
    BY <2>1, <2>2, Zenon
<1>3. ASSUME NEW r \in Request, Ends(r) PROVE requests'[x] = requests[x] /\ ~Bind(x)
  BY <1>2, <1>3, Kinds, Zenon DEF Ends
<1>4. ASSUME requests' = requests PROVE requests'[x] = requests[x] /\ ~Bind(x)
  <2>1. ASSUME Bind(x) PROVE requests'[x] = Idle
    BY <1>1, <2>1, Zenon DEF Bind, Render
  <2>2. QED
    BY <1>4, <2>1, Kinds, Zenon
<1>5. CASE Around
  <2>1. ASSUME NEW r \in Request, GetConfirmation(r)
        PROVE  requests'[x] = requests[x] /\ ~Bind(x)
    <3>1. PICK q : q = [phase |-> "get", txn |-> jar.lookup, session |-> jar.auth, at |-> now]
      BY Zenon
    <3>2. q.phase # "bind"
      BY <3>1
    <3>3. QED
      BY <1>2, <2>1, <3>1, <3>2, Zenon DEF GetConfirmation
  <2>2. ASSUME NEW r \in Request, NEW page \in pages, NEW d, PostConfirmation(r, page, d)
        PROVE  requests'[x] = requests[x] /\ ~Bind(x)
    <3>1. PICK q : q = [phase |-> "post", txn |-> jar.lookup, session |-> jar.auth, at |-> now,
                        proof |-> page, decision |-> d]
      BY Zenon
    <3>2. q.phase # "bind"
      BY <3>1
    <3>3. QED
      BY <1>2, <2>2, <3>1, <3>2, Zenon DEF PostConfirmation
  <2>3. ASSUME NEW r \in Request, Recheck(r) PROVE requests'[x] = requests[x] /\ ~Bind(x)
    BY <1>3, <2>3, Zenon DEF Recheck, Ends
  <2>4. QED
    BY <1>4, <1>5, <2>1, <2>2, <2>3, Zenon
       DEF Around, Tick, UnusableRequest, Login, SessionExpires, RevokeSession, UpdateClient
<1>6. CASE Starts \/ DeleteRetiredLogoutTransactions
  BY <1>4, <1>6, Zenon DEF Starts, Start, DeleteRetiredLogoutTransactions
<1>7. ASSUME NEW r \in Request, Complete(r) PROVE requests'[x] = requests[x] /\ ~Bind(x)
  <2>1. ASSUME NEW row, GoesOn(r, requests[r], row)
        PROVE  requests'[x] = requests[x] /\ ~Bind(x)
    <3>1. PICK q : q = [phase |-> "recheck", txn |-> requests[r].txn, client |-> row.client,
                        uri |-> row.uri]
      BY Zenon
    <3>2. q.phase # "bind"
      BY <3>1
    <3>3. QED
      BY <1>2, <2>1, <3>1, <3>2, Zenon DEF GoesOn
  <2>2. QED
    BY <1>3, <1>7, <2>1, CompleteMoves, Zenon
<1>8. ASSUME NEW r \in Request, LockBind(r) \/ Bind(r), KeepsLocks(r), txns' = txns
      PROVE  \/ requests'[x] = requests[x] /\ ~Bind(x)
             \/ KeepsLocks(x) /\ LockBind(x) /\ txns' = txns /\ sessions' = sessions
  <2>1. LockBind(r) /\ sessions' = sessions
    BY <1>8, Zenon DEF KeepsLocks, LockBind, Bind
  <2>2. CASE x = r
    BY <1>8, <2>1, <2>2, Zenon
  <2>3. CASE x # r
    <3>1. requests'[x] = requests[x]
      BY <1>1, <1>8, <2>3, Zenon DEF KeepsLocks
    <3>2. ASSUME Bind(x) PROVE requests'[x] = Idle
      BY <1>1, <3>2, Zenon DEF Bind, Render
    <3>3. QED
      BY <3>1, <3>2, Kinds, Zenon
  <2>4. QED
    BY <2>2, <2>3, Zenon
<1>9. ASSUME NEW r \in Request, LockBind(r) \/ Bind(r)
      PROVE  \/ requests'[x] = requests[x] /\ ~Bind(x)
             \/ KeepsLocks(x) /\ LockBind(x) /\ txns' = txns /\ sessions' = sessions
  BY <1>3, <1>8, <1>9, BindMoves, Zenon
<1>10. QED
  BY <1>5, <1>6, <1>7, <1>9, Steps, Zenon

LEMMA LockStep ==
    ASSUME LogoutInv, Next
    PROVE  LockInv'
<1>1. TypeOK /\ LockInv /\ BudgetInv /\ requests \in [Request -> RequestRow]
  BY TypeOf, Zenon DEF LogoutInv
<1>2. ASSUME NEW x \in Request, KeepsLocks(x), txns' = txns, sessions' = sessions
      PROVE  /\ Counted(requests[x])' /\ requests'[x].txn = requests[x].txn
             /\ requests'[x].session = requests[x].session
             /\ \A y \in Request : y # x => requests'[y] = requests[y]
  <2>1. PICK q : q = requests[x]
    BY Zenon
  <2>2. /\ requests'[x] = [q EXCEPT !.phase = "bind"] /\ Counted(q) /\ q.phase = "get"
        /\ q \in RequestRow /\ \A y \in Request : y # x => requests'[y] = requests[y]
    BY <1>1, <1>2, <2>1, Zenon DEF KeepsLocks
  <2>3. requests'[x].txn = q.txn /\ requests'[x].session = q.session /\ requests'[x].at = q.at
    BY <2>2, LockedRow, Zenon
  <2>4. QED
    BY <1>2, <2>1, <2>2, <2>3, Zenon DEF Counted, Open, Unrevoked, AtCapacity, LiveBound
<1>3. ASSUME NEW x \in Request, requests'[x].phase = "bind" PROVE Counted(requests[x])'
  <2>1. CASE requests'[x] = requests[x] /\ ~Bind(x)
    <3>1. PICK q : q = requests[x]
      BY Zenon
    <3>2. q.phase = "bind" /\ Counted(q) /\ q.txn \in Txn
      BY <1>1, <1>3, <2>1, <3>1, RequestFacts, Zenon DEF LockInv
    <3>3. Undisturbed(q.txn, q.session)
      BY <1>1, <2>1, <3>1, <3>2, LocksHold, Zenon
    <3>4. Counted(q)'
      BY <1>1, <3>2, <3>3, CountedStays, Zenon
    <3>5. QED
      BY <2>1, <3>1, <3>4, Zenon DEF Counted, Open, Unrevoked, AtCapacity, LiveBound
  <2>2. QED
    BY <1>1, <1>2, <1>3, <2>1, Lockers, Zenon
<1>4. ASSUME NEW x \in Request, NEW y \in Request, x # y, requests'[x].phase = "bind",
             requests'[y].phase = "bind"
      PROVE  requests'[x].txn # requests'[y].txn /\ requests'[x].session # requests'[y].session
  <2>1. ASSUME NEW a \in Request, NEW b \in Request, a # b, KeepsLocks(a), txns' = txns,
               sessions' = sessions, requests'[b].phase = "bind"
        PROVE  requests'[a].txn # requests'[b].txn /\ requests'[a].session # requests'[b].session
    <3>1. requests'[b] = requests[b] /\ requests[b].phase = "bind"
      BY <1>2, <2>1, Zenon
    <3>2. TxnLocked(requests[b].txn) /\ SessionLocked(requests[b].session)
      BY <3>1, Holds, Zenon
    <3>3. ~TxnLocked(requests[a].txn) /\ ~SessionLocked(requests[a].session)
      BY <2>1, Zenon DEF KeepsLocks
    <3>4. requests'[a].txn = requests[a].txn /\ requests'[a].session = requests[a].session
      BY <1>2, <2>1, Zenon
    <3>5. QED
      BY <3>1, <3>2, <3>3, <3>4, Zenon
  <2>2. CASE requests'[x] = requests[x] /\ requests'[y] = requests[y]
    BY <1>1, <1>4, <2>2, Zenon DEF LockInv
  <2>3. QED
    BY <1>1, <1>4, <2>1, <2>2, Lockers, Zenon
<1>5. QED
  BY <1>3, <1>4, Zenon DEF LockInv

-----------------------------------------------------------------------------
(* The theorems.                                                           *)

LEMMA LogoutInit ==
    ASSUME Init
    PROVE  LogoutInv
<1>1. TypeOK
  <2>1. Idle \in RequestRow
    BY Kinds, Zenon
  <2>2. QED
    BY <2>1 DEF Init, TypeOK
<1>2. /\ \A t \in Txn : txns[t].stage = "none"
      /\ \A r \in Request : requests[r].phase = "idle"
      /\ pages = {}
  BY Kinds, Zenon DEF Init
<1>3. /\ \A t \in Txn : RowSound(txns[t])
      /\ \A r \in Request : RequestSound(requests[r])
      /\ LockInv
  BY <1>2, Zenon DEF RowSound, RequestSound, LockInv
<1>4. BudgetInv
  <2>1. Started = {} /\ \A s \in Session : LiveBound(s, now) = {}
    BY <1>2, Zenon DEF Started, LiveBound
  <2>2. IsFiniteSet({}) /\ Cardinality({}) = 0 /\ MaxActive \in Nat
    BY FS_EmptySet, LimitAssumption
  <2>3. Cardinality({}) <= MaxActive
    BY <2>2
  <2>4. QED
    BY <2>1, <2>2, <2>3, Zenon DEF BudgetInv, Started
<1>5. QED
  BY <1>1, <1>2, <1>3, <1>4, Zenon DEF LogoutInv

LEMMA LogoutStep ==
    ASSUME LogoutInv, [Next]_vars
    PROVE  LogoutInv'
<1>1. CASE Next
  <2>1. TypeOK' /\ TxnsSteady /\ \A t \in Txn : RowSound(txns[t])'
    BY <1>1, RowsStep, Zenon DEF LogoutInv, RowsGood
  <2>2. /\ \A p \in pages' : PageSound(p)'
        /\ \A x \in Request : RequestSound(requests[x])'
        /\ LockInv' /\ BudgetInv'
    BY <1>1, <2>1, PagesStep, RequestsStep, LockStep, BudgetStep, Zenon
  <2>3. QED
    BY <2>1, <2>2, Zenon DEF LogoutInv
<1>2. CASE UNCHANGED vars
  <2>1. LockInv /\ UNCHANGED <<txns, sessions, requests>>
    BY <1>2, Zenon DEF vars, LogoutInv
  <2>2. LockInv'
    BY <2>1, Zenon DEF LockInv, Counted, Open, Unrevoked, AtCapacity, LiveBound
  <2>3. QED
    BY <1>2, <2>2, Zenon DEF vars, LogoutInv, TypeOK, RowSound, PageSound, RequestSound,
                             SentSound, BudgetInv, LiveBound
<1>3. QED
  BY <1>1, <1>2, Zenon

\* Every reachable state satisfies LogoutInv: what a request read before its
\* transaction, and what a page was rendered from, still agrees with the row it
\* meets (BindLogoutTransaction, CompleteLogoutTransaction).
THEOREM LogoutInvariant == Spec => []LogoutInv
<1>1. Init => LogoutInv
  BY LogoutInit
<1>2. LogoutInv /\ [Next]_vars => LogoutInv'
  BY LogoutStep
<1>3. QED
  BY <1>1, <1>2, PTL DEF Spec

\* The browser is sent back to an RP only by a confirmed logout of the user its
\* hint named, once that user's session is gone, and only if the client accepts
\* the URI then, whoever signs in, and whatever becomes of the client, between
\* the request and the confirmation (the redirect that
\* BindPreConfirmLogoutTransaction keeps or drops and Complete checks again).
THEOREM RedirectOnlyForHintedUserHolds == Spec => RedirectOnlyForHintedUser
<1> DEFINE Sent(p) ==
             txns[p[1]].stage # "deleted" =>
                 /\ txns[p[1]].stage = "confirmed" /\ txns[p[1]].uri = p[2]
                 /\ txns[p[1]].hint = sessions[txns[p[1]].session].user
                 /\ sessions[txns[p[1]].session].state = "revoked"
                 /\ p[2] \in clients[txns[p[1]].client]
<1>1. ASSUME LogoutInv, Next, NEW p \in redirects' \ redirects
      PROVE  Sent(p)
  <2>1. PICK r \in Request : Recheck(r)
    BY <1>1, Zenon
       DEF Next, Tick, UnusableRequest, Login, SessionExpires, RevokeSession, UpdateClient,
           Start, GetConfirmation, PostConfirmation, LockBind, Bind, Complete,
           DeleteRetiredLogoutTransactions
  <2>2. PICK q : q = requests[r]
    BY Zenon
  <2>3. /\ q.txn \in Txn /\ q.uri \in Uri /\ SentSound(q.txn, q.client, q.uri)
        /\ p = <<q.txn, q.uri>> /\ q.uri \in clients[q.client]
    BY <1>1, <2>1, <2>2, TypeOf, RequestFacts, Zenon DEF Recheck, LogoutInv, RequestSound
  <2>4. p[1] = q.txn /\ p[2] = q.uri /\ q.uri # None
    BY <2>3, NoneAssumption
  <2>5. RowSound(txns[q.txn])
    BY <1>1, <2>3, Zenon DEF LogoutInv
  <2>6. QED
    BY <2>3, <2>4, <2>5, Zenon DEF SentSound, RowSound
<1>2. LogoutInv /\ [Next]_vars => [\A p \in redirects' \ redirects : Sent(p)]_vars
  BY <1>1, Zenon
<1>3. LogoutInv => TypeOK
  BY Zenon DEF LogoutInv
<1>4. QED
  BY <1>2, <1>3, LogoutInvariant, PTL DEF Spec, RedirectOnlyForHintedUser

\* Logout ends only the session that was shown the page, however many accounts
\* the browser changed between the page and the form: the form's proof is the
\* current one of a transaction that is bound to the session of the cookie.
THEOREM LogoutIsOwnHolds == Spec => LogoutIsOwn
<1>1. ASSUME LogoutInv, sessions' # sessions, NEW r \in Request, Complete(r)
      PROVE  requests[r].proof.session = requests[r].session
  <2>1. PICK q : q = requests[r]
    BY Zenon
  <2>2. PICK row \in TxnRow : Decides(q, row)
    BY <1>1, <2>1, CompleteMoves, Zenon DEF LogoutInv, Fails
  <2>3. /\ q.proof.txn = q.txn /\ txns[q.txn].session = q.session
        /\ txns[q.txn].stage = "bound_confirmable"
    BY <2>2, Zenon DEF Decides, ProofMatches, Completable
  <2>4. PageSound(q.proof)
    BY <1>1, <2>1, CompleteMoves, Zenon DEF LogoutInv, RequestSound
  <2>5. QED
    BY <2>1, <2>3, <2>4, Zenon DEF PageSound
<1>2. LogoutInv /\ [Next]_vars =>
        [sessions' # sessions =>
           \A r \in Request :
               Complete(r) => requests[r].proof.session = requests[r].session]_vars
  BY <1>1, Zenon
<1>3. QED
  BY <1>2, LogoutInvariant, PTL DEF Spec, LogoutIsOwn

\* A transaction whose attempts are used up is left alone.
LEMMA SpentStep ==
    ASSUME LogoutInv, Next, NEW t \in Txn, txns[t].attempts = MaxAttempts,
           txns[t].stage = "bound_confirmable"
    PROVE  txns'[t] \in {txns[t], Deleted}
<1>1. TypeOK /\ LockInv
  BY Zenon DEF LogoutInv
<1>2. \A at : ~Open(t, at)
  <2>1. ~(MaxAttempts < MaxAttempts)
    BY LimitAssumption
  <2>2. QED
    BY <2>1, Zenon DEF Open
<1>3. CASE txns' = txns
  BY <1>3, Zenon
<1>4. CASE Starts
  <2>1. PICK u \in Txn : txns[u].stage = "none" /\ \E row : Moved(u, row)
    BY <1>1, <1>4, StartsOne, Zenon
  <2>2. QED
    BY <2>1, Zenon DEF Moved
<1>5. CASE DeleteRetiredLogoutTransactions
  BY <1>1, <1>5, DeleteMoves, Zenon
<1>6. ASSUME NEW r \in Request, LockBind(r) \/ Bind(r) \/ Complete(r) PROVE txns'[t] = txns[t]
  <2>1. \/ txns' = txns
        \/ \E row : /\ Moved(requests[r].txn, row)
                    /\ Open(requests[r].txn, requests[r].at)
    BY <1>1, <1>6, BindMoves, CompleteMoves, Zenon DEF Binds, Fails, Decides, Completable
  <2>2. QED
    BY <1>2, <2>1, Zenon DEF Moved
<1>7. QED
  BY <1>1, <1>3, <1>4, <1>5, <1>6, Steps, AroundRows, Zenon

\* No session ever has more than MaxActive confirmable transactions, and one
\* whose attempts are used up is neither bound again, nor confirmed, nor
\* canceled, whatever requests are under way (BindLogoutTransaction keeps the
\* session's lock from the count to the write, CompleteLogoutTransaction commits
\* a failed attempt).
THEOREM ConfirmationBudgetHolds == Spec => ConfirmationBudget
<1> DEFINE WithinBudget == \A s \in Session : Cardinality(LiveBound(s, now)) <= MaxActive
<1>1. LogoutInv => WithinBudget
  BY Zenon DEF LogoutInv, BudgetInv
<1>2. LogoutInv /\ [Next]_vars =>
        [\A t \in Txn :
             txns[t].stage = "bound_confirmable" /\ txns[t].attempts = MaxAttempts =>
                 txns'[t] \in {txns[t], [stage |-> "deleted"]}]_vars
  BY SpentStep, Zenon DEF Deleted
<1>3. QED
  BY <1>1, <1>2, LogoutInvariant, PTL DEF Spec, ConfirmationBudget

-----------------------------------------------------------------------------
(* The refinement of OneShot.                                              *)

\* The verdict of one row.
VerdictOf(stage) ==
    CASE stage = "none" -> "absent"
      [] stage = "deleted" -> "forgotten"
      [] stage \in {"confirmed", "canceled"} -> stage
      [] OTHER -> "open"

LEMMA VerdictFacts ==
    /\ VerdictOf("none") = "absent" /\ VerdictOf("deleted") = "forgotten"
    /\ VerdictOf("pre_confirm") = "open" /\ VerdictOf("bound_confirmable") = "open"
    /\ VerdictOf("confirmed") = "confirmed" /\ VerdictOf("canceled") = "canceled"
BY DEF VerdictOf

LEMMA VerdictRows ==
    /\ Verdicts = [t \in Txn |-> VerdictOf(txns[t].stage)]
    /\ Verdicts' = [t \in Txn |-> VerdictOf(txns'[t].stage)]
BY Zenon DEF Verdicts, VerdictOf

LEMMA VerdictMoves ==
    ASSUME NEW t \in Txn, NEW row, Moved(t, row)
    PROVE  /\ Verdicts[t] = VerdictOf(txns[t].stage) /\ Verdicts'[t] = VerdictOf(row.stage)
           /\ Verdicts' = [Verdicts EXCEPT ![t] = VerdictOf(row.stage)]
<1>1. /\ txns'[t].stage = row.stage
      /\ \A u \in Txn \ {t} : VerdictOf(txns'[u].stage) = VerdictOf(txns[u].stage)
  BY Zenon DEF Moved
<1>2. QED
  BY <1>1, VerdictRows, Zenon

LEMMA SamePromise ==
    ASSUME NEW t \in Txn, NEW row, Moved(t, row), VerdictOf(row.stage) = VerdictOf(txns[t].stage)
    PROVE  Verdicts' = Verdicts
<1>1. Verdicts' = [Verdicts EXCEPT ![t] = Verdicts[t]]
  BY VerdictMoves, Zenon
<1>2. QED
  BY <1>1, VerdictRows, Zenon

LEMMA StartPromise ==
    ASSUME TypeOK, Starts
    PROVE  Promise!Next
<1>1. PICK t \in Txn, row \in TxnRow :
        txns[t].stage = "none" /\ Moved(t, row) /\ row.stage = "pre_confirm"
  BY StartsOne, Zenon
<1>2. /\ Verdicts[t] = "absent" /\ Verdicts'[t] = "open"
      /\ Verdicts' = [Verdicts EXCEPT ![t] = "open"]
  <2>1. VerdictOf(row.stage) = "open" /\ VerdictOf(txns[t].stage) = "absent"
    BY <1>1, VerdictFacts, Zenon
  <2>2. QED
    BY <1>1, <2>1, VerdictMoves
<1>3. outcomes' = outcomes
  BY Zenon DEF Starts, Start
<1>4. Promise!Open(t)
  BY <1>2, <1>3, Zenon DEF Promise!Open
<1>5. Verdicts' # Verdicts
  BY <1>2
<1>6. QED
  BY <1>4, <1>5, Zenon DEF Promise!Next

LEMMA DecidePromise ==
    ASSUME TypeOK, NEW t \in Txn, NEW row \in TxnRow, Moved(t, row),
           txns[t].stage = "bound_confirmable", row.stage \in {"confirmed", "canceled"},
           outcomes' = [outcomes EXCEPT ![t] = @ + 1]
    PROVE  Promise!Next
<1> DEFINE v == row.stage
<1>1. /\ Verdicts[t] = "open" /\ Verdicts'[t] = v
      /\ Verdicts' = [Verdicts EXCEPT ![t] = v]
  <2>1. VerdictOf(row.stage) = v /\ VerdictOf(txns[t].stage) = "open"
    BY VerdictFacts, Zenon
  <2>2. QED
    BY <2>1, VerdictMoves
<1>2. Promise!Decide(t, v)
  BY <1>1, Zenon DEF Promise!Decide
<1>3. Verdicts' # Verdicts
  BY <1>1
<1>4. QED
  BY <1>2, <1>3, Zenon DEF Promise!Next

LEMMA DeletePromise ==
    ASSUME TypeOK, DeleteRetiredLogoutTransactions
    PROVE  Promise!Next
<1> DEFINE old == {t \in Txn : Retired(t)}
<1>1. outcomes' = outcomes
  BY Zenon DEF DeleteRetiredLogoutTransactions
<1>2. ASSUME NEW t \in Txn
      PROVE  /\ t \in old => /\ Verdicts[t] \notin {"absent", "forgotten"}
                             /\ Verdicts'[t] = "forgotten"
             /\ t \notin old => Verdicts'[t] = Verdicts[t]
  <2>1. txns[t].stage \in {"none", "deleted", "pre_confirm", "bound_confirmable",
                           "confirmed", "canceled"}
    BY TypeOf, TxnFacts, Zenon
  <2>2. t \in old => /\ txns[t].stage \notin {"none", "deleted"}
                     /\ txns'[t].stage = "deleted"
    BY DeleteMoves, Kinds, Zenon
  <2>3. t \notin old => txns'[t] = txns[t]
    BY DeleteMoves, Zenon
  <2>4. Verdicts[t] = VerdictOf(txns[t].stage) /\ Verdicts'[t] = VerdictOf(txns'[t].stage)
    BY VerdictRows, Zenon
  <2> HIDE DEF old
  <2>5. t \in old => VerdictOf(txns[t].stage) \in {"open", "confirmed", "canceled"}
    BY <2>1, <2>2, VerdictFacts, Zenon
  <2>6. QED
    BY <2>2, <2>3, <2>4, <2>5, VerdictFacts, Zenon
<1>3. Verdicts' = [t \in Txn |-> IF t \in old THEN "forgotten" ELSE Verdicts[t]]
  BY <1>2, VerdictRows, Zenon
<1>4. PICK t \in Txn : Retired(t)
  BY DeleteMoves, Zenon
<1>5. Promise!Forget(old)
  BY <1>1, <1>2, <1>3, Zenon DEF Promise!Forget
<1>6. Verdicts' # Verdicts
  BY <1>2, <1>4, Zenon
<1>7. old \in SUBSET Txn
  BY Zenon
<1>8. QED
  BY <1>5, <1>6, <1>7, Zenon DEF Promise!Next

\* LogoutTransaction implements OneShot for any number of transactions, pages
\* and requests: a transaction is opened once, confirmed or canceled at most
\* once, and never answered after its row is deleted (CompleteLogoutTransaction,
\* DeleteRetiredLogoutTransactions).
THEOREM DecidedOnceHolds == Spec => DecidedOnce
<1>1. Init => Promise!Init
  <2>1. ASSUME Init PROVE Promise!Init
    <3>1. \A t \in Txn : VerdictOf(txns[t].stage) = "absent"
      BY <2>1, Kinds, VerdictFacts, Zenon DEF Init
    <3>2. Verdicts = [t \in Txn |-> "absent"]
      BY <3>1, VerdictRows, Zenon
    <3>3. QED
      BY <2>1, <3>2, Zenon DEF Init, Promise!Init
  <2>2. QED
    BY <2>1
<1>2. LogoutInv /\ [Next]_vars => [Promise!Next]_<<Verdicts, outcomes>>
  <2>1. SUFFICES ASSUME LogoutInv, [Next]_vars
                 PROVE  Promise!Next \/ (Verdicts' = Verdicts /\ outcomes' = outcomes)
    OBVIOUS
  <2>2. CASE txns' = txns /\ outcomes' = outcomes
    BY <2>2, VerdictRows, Zenon
  <2>3. CASE Starts \/ DeleteRetiredLogoutTransactions
    BY <2>1, <2>3, StartPromise, DeletePromise, Zenon DEF LogoutInv
  <2>4. ASSUME NEW r \in Request, LockBind(r) \/ Bind(r)
        PROVE  Verdicts' = Verdicts /\ outcomes' = outcomes
    <3>1. outcomes' = outcomes
      BY <2>4, Zenon DEF LockBind, Bind
    <3>2. CASE txns' = txns
      BY <3>1, <3>2, VerdictRows, Zenon
    <3>3. CASE \E row \in TxnRow : Binds(requests[r], row)
      <4>1. PICK q : q = requests[r]
        BY Zenon
      <4>2. PICK row \in TxnRow : Binds(q, row)
        BY <3>3, <4>1, Zenon
      <4>3. /\ q.txn \in Txn /\ Moved(q.txn, row) /\ row.stage = "bound_confirmable"
            /\ txns[q.txn].stage \in {"pre_confirm", "bound_confirmable"}
        BY <4>2, Zenon DEF Binds, Moved
      <4>4. VerdictOf(row.stage) = VerdictOf(txns[q.txn].stage)
        BY <4>3, VerdictFacts, Zenon
      <4>5. QED
        BY <3>1, <4>3, <4>4, SamePromise, Zenon
    <3>4. QED
      BY <2>1, <2>4, <3>2, <3>3, BindMoves, Zenon DEF LogoutInv
  <2>5. ASSUME NEW r \in Request, Complete(r)
        PROVE  Promise!Next \/ (Verdicts' = Verdicts /\ outcomes' = outcomes)
    <3>1. PICK q : q = requests[r]
      BY Zenon
    <3>2. TypeOK
      BY <2>1, Zenon DEF LogoutInv
    <3>3. CASE \E row \in TxnRow : Fails(q, row)
      <4>1. PICK row \in TxnRow : Fails(q, row)
        BY <3>3, Zenon
      <4>2. /\ q.txn \in Txn /\ Moved(q.txn, row) /\ row.stage = "bound_confirmable"
            /\ txns[q.txn].stage = "bound_confirmable" /\ outcomes' = outcomes
        BY <4>1, Zenon DEF Fails, Moved, Completable
      <4>3. QED
        BY <4>2, SamePromise, Zenon
    <3>4. CASE \E row \in TxnRow : Decides(q, row)
      <4>1. PICK row \in TxnRow : Decides(q, row)
        BY <3>4, Zenon
      <4>2. /\ q.txn \in Txn /\ Moved(q.txn, row) /\ row.stage \in {"confirmed", "canceled"}
            /\ txns[q.txn].stage = "bound_confirmable"
            /\ outcomes' = [outcomes EXCEPT ![q.txn] = @ + 1]
        BY <4>1, Zenon DEF Decides, Moved, Completable
      <4>3. QED
        BY <3>2, <4>2, DecidePromise, Zenon
    <3>5. QED
      BY <2>2, <2>5, <3>1, <3>2, <3>3, <3>4, CompleteMoves, Zenon
  <2>6. CASE Next
    BY <2>1, <2>2, <2>3, <2>4, <2>5, <2>6, Steps, AroundRows, Zenon DEF LogoutInv
  <2>7. QED
    BY <2>1, <2>2, <2>6, Zenon DEF vars
<1>3. QED
  BY <1>1, <1>2, LogoutInvariant, PTL DEF Spec, DecidedOnce, Promise!Spec
=============================================================================
