-------------------------- MODULE LogoutTransaction --------------------------
(***************************************************************************)
(* RP-initiated logout: internal/logout, its handlers and its repository.   *)
(*                                                                          *)
(* An RP sends the browser to the logout endpoint (Start), which creates a  *)
(* transaction without any authority and leaves its lookup token in a       *)
(* cookie.  The confirmation page (GET) binds the transaction to the        *)
(* session the browser is signed in with and renders a proof; submitting    *)
(* the form (POST) confirms or cancels.  Requests are concurrent: a request *)
(* reads the cookies, authenticates and reads the clock in one step; its    *)
(* database transaction follows, which for a binding is two steps, what it  *)
(* checks and counts under its row locks and what it writes; the redirect   *)
(* is checked against the client again after the commit; and any response   *)
(* may be lost.                                                             *)
(*                                                                          *)
(* The state parameter follows the redirect URI everywhere and is left out. *)
(* A client is the set of post-logout URIs it accepts: none when disabled,  *)
(* and none when active with no such URI.                                   *)
(* Revoking a session stands for the session row and the cascade over the   *)
(* families and tokens of its binding (RevokeBindingsCascade in             *)
(* TokenAuthority): the same transaction runs both.                         *)
(***************************************************************************)
EXTENDS Naturals, FiniteSetsExt

CONSTANTS
    User, Session, Client, Uri, Txn, Request,
    None,
    TTL,                     \* lifetime of a transaction, in clock ticks
    Retention,               \* protocolArtifactRetention
    MaxActive,               \* bound transactions a session may have at a time
    MaxAttempts,             \* maxTransactionTries
    MaxNow, MaxProof,        \* bounds of the model: clock, proofs stored
    MaxRows                  \* and sessions and transactions together

ASSUME NoneAssumption ==
    None \notin User \cup Session \cup Client \cup Uri \cup Txn

ASSUME LimitAssumption ==
    /\ {TTL, MaxActive, MaxAttempts} \subseteq Nat \ {0}
    /\ {Retention, MaxNow, MaxProof, MaxRows} \subseteq Nat

VARIABLES
    now,
    sessions,    \* login_sessions, each with the tokens that hang on its binding
    clients,     \* oidc_clients: the post-logout URIs an active client accepts
    txns,        \* logout_transactions
    jar,         \* the browser's two cookies
    pages,       \* confirmation pages on the user's screen
    requests,    \* requests being served
    outcomes,    \* history: how often each transaction was completed
    redirects    \* history: <<transaction, uri>> sent to the browser

vars == <<now, sessions, clients, txns, jar, pages, requests,
          outcomes, redirects>>

-----------------------------------------------------------------------------
NoRow == [state |-> "none"]
NoTxn == [stage |-> "none"]
Idle == [phase |-> "idle"]

SessionRow == [state : {"live", "expired", "revoked"}, user : User,
               binding : Session]
TxnRow == [stage : {"pre_confirm", "bound_confirmable", "confirmed", "canceled"},
           client : Client \cup {None}, uri : Uri \cup {None},
           hint : User \cup {None}, session : Session \cup {None},
           proof : Nat, expires : Nat, consumed : Nat, attempts : Nat]
Page == [txn : Txn, session : Session, proof : Nat]
RequestRow ==
    {Idle} \cup [phase : {"get", "bind"}, txn : Txn, session : Session, at : Nat]
           \cup [phase : {"post"}, txn : Txn, session : Session, at : Nat,
                 proof : Page, decision : {"confirm", "cancel"}]
           \cup [phase : {"recheck"}, txn : Txn, client : Client, uri : Uri]

TypeOK ==
    /\ now \in Nat
    /\ sessions \in [Session -> SessionRow \cup {NoRow}]
    /\ clients \in [Client -> SUBSET Uri]
    /\ txns \in [Txn -> TxnRow \cup {NoTxn, [stage |-> "deleted"]}]
    /\ jar \in [lookup : Txn \cup {None}, auth : Session \cup {None}]
    /\ pages \subseteq Page
    /\ requests \in [Request -> RequestRow]
    /\ outcomes \in [Txn -> Nat]
    /\ redirects \subseteq Txn \X Uri

Init ==
    /\ now = 0
    /\ sessions = [s \in Session |-> NoRow]
    /\ clients = [c \in Client |-> Uri]
    /\ txns = [t \in Txn |-> NoTxn]
    /\ jar = [lookup |-> None, auth |-> None]
    /\ pages = {}
    /\ requests = [r \in Request |-> Idle]
    /\ outcomes = [t \in Txn |-> 0]
    /\ redirects = {}

-----------------------------------------------------------------------------
(* What happens around the logout endpoint.                                *)

Tick ==
    /\ now < MaxNow
    /\ now' = now + 1
    /\ UNCHANGED <<sessions, clients, txns, jar, pages, requests,
                   outcomes, redirects>>

Unrevoked(s) == sessions[s].state \in {"live", "expired"}

\* The rows that a binding has locked, until it commits.
Binding == {requests[r] : r \in {x \in Request : requests[x].phase = "bind"}}
TxnLocked(t) == \E q \in Binding : q.txn = t

\* (mutant) a binding does not lock the session whose transactions it counts
BugSessionLocked(s) == FALSE

SessionLocked(s) == \E q \in Binding : q.session = s

RowsLeft ==
    Cardinality({s \in Session : sessions[s].state # "none"})
        + Cardinality({t \in Txn : txns[t].stage # "none"}) < MaxRows

\* A login replaces the browser's session; the same user keeps the binding.
Login(u, new) ==
    LET old == jar.auth
        replaced == old # None /\ sessions[old].state = "live"
        same == replaced /\ sessions[old].user = u
    IN  /\ sessions[new].state = "none" /\ RowsLeft
        /\ replaced => ~SessionLocked(old)
        /\ sessions' = [s \in Session |->
               IF s = new
               THEN [state |-> "live", user |-> u,
                     binding |-> IF same THEN sessions[old].binding ELSE new]
               ELSE IF s = old /\ replaced
                    THEN [sessions[s] EXCEPT !.state = "revoked"]
                    ELSE sessions[s]]
        /\ jar' = [jar EXCEPT !.auth = new]
        /\ UNCHANGED <<now, clients, txns, pages, requests, outcomes, redirects>>

SessionExpires(s) ==
    /\ sessions[s].state = "live"
    /\ sessions' = [sessions EXCEPT ![s].state = "expired"]
    /\ UNCHANGED <<now, clients, txns, jar, pages, requests, outcomes,
                   redirects>>

\* An administrator, or the user from another browser, ends the session.
RevokeSession(s) ==
    /\ Unrevoked(s) /\ ~SessionLocked(s)
    /\ sessions' = [sessions EXCEPT ![s].state = "revoked"]
    /\ UNCHANGED <<now, clients, txns, jar, pages, requests, outcomes, redirects>>

UpdateClient(c, uris) ==
    /\ clients' = [clients EXCEPT ![c] = uris]
    /\ UNCHANGED <<now, sessions, txns, jar, pages, requests, outcomes,
                   redirects>>

-----------------------------------------------------------------------------
(* The logout endpoint.                                                    *)

\* The client and the hint are remembered for a verified hint (`hint` is the
\* user it names, None when there is none or it does not verify) of an active
\* client, the redirect when that client accepts it; otherwise the logout is a
\* local one.
NewTransaction(c, active, hint, uri) ==
    LET verified == hint # None /\ active
    IN  [stage |-> "pre_confirm",
         client |-> IF verified THEN c ELSE None,
         uri |-> IF verified /\ uri \in clients[c] THEN uri ELSE None,
         hint |-> IF verified THEN hint ELSE None,
         session |-> None, proof |-> 0, expires |-> now + TTL, consumed |-> 0,
         attempts |-> 0]

\* Starting is bounded so that every transaction can retire before MaxNow.
Start(t, c, active, hint, uri, delivered) ==
    /\ txns[t].stage = "none" /\ RowsLeft
    /\ clients[c] # {} => active
    /\ now + TTL + Retention <= MaxNow
    /\ txns' = [txns EXCEPT ![t] = NewTransaction(c, active, hint, uri)]
    /\ jar' = IF delivered THEN [jar EXCEPT !.lookup = t] ELSE jar
    /\ UNCHANGED <<now, sessions, clients, pages, requests, outcomes,
                   redirects>>

\* A request with a query, a foreign origin, a malformed form or without a
\* live session only clears the lookup cookie.
UnusableRequest ==
    /\ jar.lookup # None
    /\ jar' = [jar EXCEPT !.lookup = None]
    /\ UNCHANGED <<now, sessions, clients, txns, pages, requests,
                   outcomes, redirects>>

Authenticated == jar.auth # None /\ sessions[jar.auth].state = "live"

GetConfirmation(r) ==
    /\ requests[r] = Idle
    /\ jar.lookup # None /\ Authenticated
    /\ requests' = [requests EXCEPT ![r] =
           [phase |-> "get", txn |-> jar.lookup, session |-> jar.auth, at |-> now]]
    /\ UNCHANGED <<now, sessions, clients, txns, jar, pages, outcomes,
                   redirects>>

\* Any page still on the screen can be submitted, with the cookies of the day.
PostConfirmation(r, page, decision) ==
    /\ requests[r] = Idle
    /\ jar.lookup # None /\ Authenticated
    /\ requests' = [requests EXCEPT ![r] =
           [phase |-> "post", txn |-> jar.lookup, session |-> jar.auth, at |-> now,
            proof |-> page, decision |-> decision]]
    /\ UNCHANGED <<now, sessions, clients, txns, jar, pages, outcomes,
                   redirects>>

\* The response: the handler clears cookies and renders a page, unless the
\* response is lost.
Respond(clear, signout, rendered) ==
    \/ /\ jar' = [lookup |-> IF clear THEN None ELSE jar.lookup,
                  auth |-> IF signout THEN None ELSE jar.auth]
       /\ pages' = pages \cup rendered
    \/ UNCHANGED <<jar, pages>>

-----------------------------------------------------------------------------
(* BindLogoutTransaction.                                                  *)

\* (mutant) the attempts already used are not looked at
BugNoBudget(t, at) ==
    /\ txns[t].stage \in {"pre_confirm", "bound_confirmable"}
    /\ at < txns[t].expires

Open(t, at) ==
    /\ txns[t].stage \in {"pre_confirm", "bound_confirmable"}
    /\ at < txns[t].expires
    /\ txns[t].attempts < MaxAttempts

LiveBound(s, at) ==
    {t \in Txn : /\ txns[t].stage = "bound_confirmable"
                 /\ txns[t].session = s /\ txns[t].expires > at}

\* (mutant) capacity is checked after binding instead of before
BugCapOffByOne(s, at) == Cardinality(LiveBound(s, at)) > MaxActive

AtCapacity(s, at) == Cardinality(LiveBound(s, at)) >= MaxActive

\* (mutant) the redirect survives whoever is signed in
BugKeepRedirect(row, s) ==
    [row EXCEPT !.stage = "bound_confirmable", !.session = s, !.proof = 1]

\* The redirect is dropped when the hint names somebody else.
BoundRow(row, s) ==
    [row EXCEPT !.stage = "bound_confirmable", !.session = s, !.proof = 1,
                !.uri = IF row.hint \in {None, sessions[s].user} THEN @ ELSE None]

Stored == {t \in Txn : txns[t].stage \notin {"none", "deleted"}}
ProofsLeft == MapThenSumSet(LAMBDA t : txns[t].proof, Stored) < MaxProof

\* The response with a proof.
Render(r, row) ==
    LET q == requests[r] IN
    /\ ProofsLeft
    /\ txns' = [txns EXCEPT ![q.txn] = row]
    /\ Respond(FALSE, FALSE, {[txn |-> q.txn, session |-> q.session, proof |-> row.proof]})
    /\ requests' = [requests EXCEPT ![r] = Idle]

\* The transaction and the session are locked, and what is bound to the session
\* is counted.  A transaction that is bound already gets a new proof.
LockBind(r) ==
    LET q == requests[r]
        row == txns[q.txn]
        usable == Open(q.txn, q.at) /\ Unrevoked(q.session)
        Refuse(clear) ==
            /\ Respond(clear, FALSE, {})
            /\ requests' = [requests EXCEPT ![r] = Idle]
            /\ UNCHANGED txns
    IN  /\ q.phase = "get" /\ ~TxnLocked(q.txn) /\ ~SessionLocked(q.session)
        /\ \/ ~usable /\ Refuse(TRUE)
           \/ /\ usable /\ row.stage = "pre_confirm"
              /\ IF AtCapacity(q.session, q.at)
                 THEN Refuse(FALSE)
                 ELSE /\ requests' = [requests EXCEPT ![r].phase = "bind"]
                      /\ UNCHANGED <<txns, jar, pages>>
           \/ /\ usable /\ row.stage = "bound_confirmable"
              /\ IF row.session = q.session
                 THEN Render(r, [row EXCEPT !.proof = @ + 1])
                 ELSE Refuse(TRUE)
        /\ UNCHANGED <<now, sessions, clients, outcomes, redirects>>

\* The write, and the commit that releases the locks.
Bind(r) ==
    LET q == requests[r] IN
    /\ q.phase = "bind"
    /\ Render(r, BoundRow(txns[q.txn], q.session))
    /\ UNCHANGED <<now, sessions, clients, outcomes, redirects>>

-----------------------------------------------------------------------------
(* CompleteLogoutTransaction.                                              *)

\* (mutant) the session the transaction is bound to is not compared
BugAnySession(q) ==
    /\ txns[q.txn].stage = "bound_confirmable"
    /\ Open(q.txn, q.at)
    /\ Unrevoked(q.session)

Completable(q) ==
    /\ txns[q.txn].stage = "bound_confirmable"
    /\ Open(q.txn, q.at)
    /\ txns[q.txn].session = q.session
    /\ Unrevoked(q.session)

\* (mutant) consuming a transaction leaves its stage alone
BugNotConsumed(q) == txns' = [txns EXCEPT ![q.txn].consumed = q.at]

Consume(q) ==
    txns' = [txns EXCEPT ![q.txn] =
        [@ EXCEPT !.stage = IF q.decision = "confirm" THEN "confirmed" ELSE "canceled",
                  !.consumed = q.at]]

ProofMatches(q) == q.proof.txn = q.txn /\ q.proof.proof = txns[q.txn].proof

\* A wrong proof is committed as one more attempt.
CountAttempt(q) == txns' = [txns EXCEPT ![q.txn].attempts = @ + 1]

Complete(r) ==
    LET q == requests[r]
        row == txns[q.txn]
        Finish == requests' = [requests EXCEPT ![r] = Idle]
        Outcome == outcomes' = [outcomes EXCEPT ![q.txn] = @ + 1]
    IN  /\ q.phase = "post" /\ ~TxnLocked(q.txn) /\ ~SessionLocked(q.session)
        /\ \/ /\ ~Completable(q)
              /\ Respond(TRUE, FALSE, {}) /\ Finish
              /\ UNCHANGED <<txns, sessions, outcomes>>
           \/ /\ Completable(q) /\ ~ProofMatches(q)
              /\ CountAttempt(q)
              /\ Respond(TRUE, FALSE, {}) /\ Finish
              /\ UNCHANGED <<sessions, outcomes>>
           \/ /\ Completable(q) /\ ProofMatches(q) /\ q.decision = "cancel"
              /\ Consume(q) /\ Outcome
              /\ Respond(TRUE, FALSE, {}) /\ Finish
              /\ UNCHANGED <<sessions>>
           \/ /\ Completable(q) /\ ProofMatches(q) /\ q.decision = "confirm"
              /\ Consume(q) /\ Outcome
              /\ sessions' = [sessions EXCEPT ![q.session].state = "revoked"]
              /\ IF row.uri = None
                 THEN Respond(TRUE, TRUE, {}) /\ Finish
                 ELSE /\ requests' = [requests EXCEPT ![r] =
                             [phase |-> "recheck", txn |-> q.txn,
                              client |-> row.client, uri |-> row.uri]]
                      /\ UNCHANGED <<jar, pages>>
        /\ UNCHANGED <<now, clients, redirects>>

\* (mutant) the client is not read again
BugRecheck(r) ==
    LET q == requests[r] IN
    /\ q.phase = "recheck"
    /\ redirects' = redirects \cup {<<q.txn, q.uri>>}
    /\ Respond(TRUE, TRUE, {})
    /\ requests' = [requests EXCEPT ![r] = Idle]
    /\ UNCHANGED <<now, sessions, clients, txns, outcomes>>

\* After the commit the client is read again before the browser is sent there.
Recheck(r) ==
    LET q == requests[r] IN
    /\ q.phase = "recheck"
    /\ redirects' = IF q.uri \in clients[q.client]
                    THEN redirects \cup {<<q.txn, q.uri>>} ELSE redirects
    /\ Respond(TRUE, TRUE, {})
    /\ requests' = [requests EXCEPT ![r] = Idle]
    /\ UNCHANGED <<now, sessions, clients, txns, outcomes>>

-----------------------------------------------------------------------------
(* Cleanup.                                                                *)

Retired(t) ==
    \/ /\ txns[t].stage \in {"pre_confirm", "bound_confirmable"} /\ txns[t].expires <= now
       /\ ~TxnLocked(t)     \* SKIP LOCKED
    \/ txns[t].stage \in {"confirmed", "canceled"} /\ txns[t].consumed + Retention <= now

DeleteRetiredLogoutTransactions ==
    /\ \E t \in Txn : Retired(t)
    /\ txns' = [t \in Txn |-> IF Retired(t) THEN [stage |-> "deleted"] ELSE txns[t]]
    /\ UNCHANGED <<now, sessions, clients, jar, pages, requests,
                   outcomes, redirects>>

-----------------------------------------------------------------------------
Next ==
    \/ Tick
    \/ \E u \in User, s \in Session : Login(u, s)
    \/ \E s \in Session : SessionExpires(s) \/ RevokeSession(s)
    \/ \E c \in Client, uris \in SUBSET Uri : UpdateClient(c, uris)
    \/ \E t \in Txn, c \in Client, hint \in User \cup {None}, uri \in Uri \cup {None},
          active \in BOOLEAN, delivered \in BOOLEAN :
              Start(t, c, active, hint, uri, delivered)
    \/ UnusableRequest
    \/ \E r \in Request :
        \/ GetConfirmation(r)
        \/ \E page \in pages, decision \in {"confirm", "cancel"} :
               PostConfirmation(r, page, decision)
        \/ LockBind(r) \/ Bind(r) \/ Complete(r) \/ Recheck(r)
    \/ DeleteRetiredLogoutTransactions

Spec == Init /\ [][Next]_vars

-----------------------------------------------------------------------------
(* Properties.                                                             *)

\* The browser is sent back to an RP only by a confirmed logout of the user
\* the RP's hint named, once that user's session is gone, for the URI the
\* transaction carries, and only if the client still accepts that URI when
\* the browser is sent, whatever it accepted when the logout started.
RedirectOnlyForHintedUser ==
    /\ []TypeOK
    /\ [][\A p \in redirects' \ redirects :
             LET row == txns[p[1]] IN
             row.stage # "deleted" =>
                 /\ row.stage = "confirmed" /\ row.uri = p[2]
                 /\ row.hint = sessions[row.session].user
                 /\ sessions[row.session].state = "revoked"
                 /\ p[2] \in clients[row.client]
         ]_vars

\* LogoutTransaction implements OneShot: of all the forms submitted for a
\* transaction, in any number of tabs, one is confirmed or canceled and the rest
\* are refused, and a deleted row is never answered again.
Verdicts ==
    [t \in Txn |-> CASE txns[t].stage = "none" -> "absent"
                     [] txns[t].stage = "deleted" -> "forgotten"
                     [] txns[t].stage \in {"confirmed", "canceled"} -> txns[t].stage
                     [] OTHER -> "open"]
Promise == INSTANCE OneShot WITH
    Item <- Txn,
    Verdict <- {"confirmed", "canceled"},
    Granting <- {"confirmed", "canceled"},
    verdict <- Verdicts,
    effects <- outcomes
DecidedOnce == Promise!Spec

\* Logout ends only the session that was shown the confirmation page: the step
\* that confirms takes its session from the cookie, and a page carrying the
\* current proof was rendered for that very session.
LogoutIsOwn ==
    [][sessions' # sessions =>
         \A r \in Request :
             Complete(r) => requests[r].proof.session = requests[r].session
      ]_vars

\* Guessing is bounded on both sides.  No session ever has more than MaxActive
\* confirmable transactions, however many tabs count and bind at once
\* (BindLogoutTransaction holds the session's lock from one to the other); and one that used up
\* its attempts is neither bound again with a fresh proof, nor confirmed, nor
\* canceled: only cleanup touches it.
ConfirmationBudget ==
    /\ [](\A s \in Session : Cardinality(LiveBound(s, now)) <= MaxActive)
    /\ [][\A t \in Txn :
             txns[t].stage = "bound_confirmable" /\ txns[t].attempts = MaxAttempts =>
                 txns'[t] \in {txns[t], [stage |-> "deleted"]}
         ]_vars
=============================================================================
