---------------------------- MODULE AuthorizeFlow ----------------------------
(***************************************************************************)
(* The authorization endpoint and the consent page                          *)
(* (internal/httpserver/authorize_handlers.go, consent_handlers.go,         *)
(* internal/authorization, internal/storage/postgres/authorization.go).     *)
(*                                                                          *)
(* One browser with one cookie jar, several requests at a time.  A request  *)
(* carries the session cookie of the moment it was sent.  It decides from   *)
(* unlocked reads of the session, the client and the consent grant, and     *)
(* commits what it decided in later steps, a transaction of the database    *)
(* that locks and looks at part of this again, one row after the other.  In *)
(* between the user may log in as someone else, sessions and grants may be  *)
(* revoked, and another request may finish the same authorization           *)
(* transaction.                                                             *)
(***************************************************************************)
EXTENDS Naturals, FiniteSets

CONSTANTS
    User, Session, Transaction, Request,
    Asked,          \* the [prompts, maxAge] with which authorization is asked for
    TransactionTTL, \* lifetime of a transaction
    MaxTime,        \* bound on the clock
    None

Prompt == {"none", "login", "consent", "create"}
AskedRecord == [prompts : SUBSET Prompt, maxAge : Nat \cup {None}]

\* parsePrompt: none stands alone, and create does not go with login.
ValidPrompts(p) ==
    /\ "none" \in p => p = {"none"}
    /\ ~({"create", "login"} \subseteq p)

ASSUME AskedAssumption ==
    /\ \A a \in Asked : a \in AskedRecord /\ ValidPrompts(a.prompts)
    /\ TransactionTTL \in Nat \ {0} /\ MaxTime \in Nat \ {0}
    /\ None \notin Nat \cup Session

VARIABLES
    now,
    active,        \* users that are active
    client,        \* the client: open to registration, closed to it, or disabled
    covered,       \* users whose grant covers what the client asks for
    sessions,      \* user, time of authentication and validity of each session
    cookie,        \* the session cookie of the browser
    transactions,
    known,         \* transactions whose token a redirect has shown the browser
    pages,         \* consent pages rendered: transaction and session of the CSRF token
    request,
    codes          \* authorization codes, with how they came about (history)

vars == <<now, active, client, covered, sessions, cookie, transactions, known,
          pages, request, codes>>
authority == <<active, client, covered, sessions, cookie>>

Outcome == {"live", "consumed", "denied", "rejected", "expired"}
Absent == [state |-> "absent"]
Idle == [at |-> "idle"]

TransactionRow == [asked : Asked, created : Nat, expires : Nat, state : Outcome]
SessionRow == [user : User, authAt : Nat, state : {"valid", "over"}]

Row == {"transaction", "user", "client", "grant"}

\* What a request has decided to do and when: to issue a code for whom, on the
\* strength of which login; to deny for whom; or to reject.  The first two lock
\* the rows they depend on before they commit.
Decided == [at : {"issue"}, txn : Transaction, user : User, authAt : Nat,
            interactive : BOOLEAN, decided : Nat, locked : SUBSET Row]
           \cup [at : {"deny"}, txn : Transaction, user : User, decided : Nat,
                 locked : SUBSET Row]
           \cup [at : {"reject"}, txn : Transaction, decided : Nat]
Arrived == [at : {"advance"}, txn : Transaction, session : Session \cup {None}]
Code == [txn : Transaction, user : User, authAt : Nat, interactive : BOOLEAN,
         decided : Nat]

TypeOK ==
    /\ now \in 0..MaxTime
    /\ active \subseteq User /\ covered \subseteq User
    /\ client \in {"open", "closed", "disabled"}
    /\ sessions \in [Session -> SessionRow \cup {Absent}]
    /\ cookie \in Session \cup {None}
    /\ transactions \in [Transaction -> TransactionRow \cup {Absent}]
    /\ known \subseteq Transaction
    /\ pages \subseteq Transaction \X Session
    /\ request \in [Request -> Decided \cup Arrived \cup {Idle}]
    /\ codes \subseteq Code

\* The clock starts at 1, so that a login can be older than the first request.
Init ==
    /\ now = 1
    /\ active = User /\ client = "open" /\ covered \in SUBSET User
    /\ sessions = [s \in Session |-> Absent]
    /\ cookie = None
    /\ transactions = [t \in Transaction |-> Absent]
    /\ known = {} /\ pages = {}
    /\ request = [r \in Request |-> Idle]
    /\ codes = {}

Prompts(t) == transactions[t].asked.prompts

\* authflow.Resolve.
Live(t) == transactions[t].state = "live" /\ now < transactions[t].expires

-----------------------------------------------------------------------------
(* What a request decides.                                                 *)

\* session.Authenticate: a session that is over or whose user is disabled is
\* no session.
Authentic(s) == s # None /\ sessions[s].state = "valid" /\ sessions[s].user \in active

\* CanRegister, for a transaction that asks for a new account.
CanRegister == client = "open"

\* (mutant) any login that is still valid satisfies prompt=login
BugNeedsReauthentication(t, authAt) ==
    LET maxAge == transactions[t].asked.maxAge
    IN  maxAge # None /\ now > authAt + maxAge

\* authorizationNeedsReauthentication: max_age=0 means since the request.
NeedsReauthentication(t, authAt) ==
    LET maxAge == transactions[t].asked.maxAge
        older == authAt < transactions[t].created
    IN  \/ "login" \in Prompts(t) /\ older
        \/ maxAge = 0 /\ older
        \/ maxAge \notin {None, 0} /\ now > authAt + maxAge

\* The first half of advanceAuthorization, and consentPrincipal: may the
\* session of the request go on, and if not where is the browser sent?
PrincipalVerdict(t, s) ==
    CASE ~Authentic(s) ->
            IF "none" \in Prompts(t) THEN "reject"
            ELSE IF "create" \notin Prompts(t) THEN "login"
            ELSE IF CanRegister THEN "register" ELSE "reject"
      [] Authentic(s) /\ "create" \in Prompts(t)
                      /\ sessions[s].authAt <= transactions[t].created -> "reject"
      [] OTHER ->
            IF ~NeedsReauthentication(t, sessions[s].authAt) THEN "ok"
            ELSE IF "none" \in Prompts(t) THEN "reject" ELSE "login"

\* The whole of advanceAuthorization.
AdvanceVerdict(t, s) ==
    IF PrincipalVerdict(t, s) # "ok" THEN PrincipalVerdict(t, s)
    ELSE IF client = "disabled" THEN "reject"
    ELSE IF sessions[s].user \in covered /\ "consent" \notin Prompts(t) THEN "issue"
    ELSE IF "none" \in Prompts(t) THEN "reject" ELSE "consent"

\* The decisions, with what the commit is given of the session.
ToIssue(t, s, interactive) ==
    [at |-> "issue", txn |-> t, user |-> sessions[s].user, authAt |-> sessions[s].authAt,
     interactive |-> interactive, decided |-> now, locked |-> {}]
ToDeny(t, s) ==
    [at |-> "deny", txn |-> t, user |-> sessions[s].user, decided |-> now, locked |-> {}]
ToReject(t) == [at |-> "reject", txn |-> t, decided |-> now]

Become(r, what) == request' = [request EXCEPT ![r] = what]

\* A redirect to a page of the flow carries the token of the transaction.
Redirect(r, t) == Become(r, Idle) /\ known' = known \cup {t}

-----------------------------------------------------------------------------
(* Requests.                                                               *)

\* handleAuthorize up to the creation of the transaction.
Authorize(r, t, asked) ==
    /\ request[r] = Idle /\ transactions[t] = Absent
    /\ client # "disabled" /\ now + TransactionTTL <= MaxTime
    /\ transactions' = [transactions EXCEPT ![t] =
           [asked |-> asked, created |-> now, expires |-> now + TransactionTTL,
            state |-> "live"]]
    /\ Become(r, [at |-> "advance", txn |-> t, session |-> cookie])
    /\ UNCHANGED <<now, authority, known, pages, codes>>

\* handleAuthorizeContinuation: the browser returns from a form.
Continue(r, t) ==
    /\ request[r] = Idle /\ t \in known /\ Live(t)
    /\ Become(r, [at |-> "advance", txn |-> t, session |-> cookie])
    /\ UNCHANGED <<now, authority, transactions, known, pages, codes>>

Advance(r) ==
    LET t == request[r].txn
        s == request[r].session
        verdict == AdvanceVerdict(t, s)
    IN  /\ request[r].at = "advance"
        /\ CASE verdict = "issue" -> Become(r, ToIssue(t, s, FALSE)) /\ UNCHANGED known
             [] verdict = "reject" -> Become(r, ToReject(t)) /\ UNCHANGED known
             [] OTHER -> Redirect(r, t)
        /\ UNCHANGED <<now, authority, transactions, pages, codes>>

\* getConsent renders the page for the session that asks for it, or sends the
\* browser elsewhere.
GetConsent(r, t) ==
    LET verdict == PrincipalVerdict(t, cookie)
        rejects == verdict = "reject" \/ (verdict = "ok" /\ client = "disabled")
    IN  /\ request[r] = Idle /\ t \in known /\ Live(t)
        /\ CASE rejects -> Become(r, ToReject(t)) /\ UNCHANGED pages
             [] verdict = "ok" /\ ~rejects ->
                    pages' = pages \cup {<<t, cookie>>} /\ UNCHANGED request
             [] OTHER -> UNCHANGED <<pages, request>>
        /\ UNCHANGED <<now, authority, transactions, known, codes>>

\* (mutant) the token of the page is compared with the cookie only
BugCSRFMatches(page) == TRUE

\* The form's CSRF token is the cookie's and the digest of the session's.
CSRFMatches(page) == page[2] = cookie

\* postConsent: the principal first, then the CSRF token, then the client.
PostConsent(r, page, decision) ==
    LET t == page[1]
        verdict == PrincipalVerdict(t, cookie)
        passes == verdict = "ok" /\ CSRFMatches(page)
        rejects == verdict = "reject" \/ (passes /\ client = "disabled")
    IN  /\ request[r] = Idle /\ page \in pages /\ Live(t)
        /\ CASE rejects -> Become(r, ToReject(t))
             [] passes /\ ~rejects ->
                    Become(r, IF decision = "issue" THEN ToIssue(t, cookie, TRUE)
                              ELSE ToDeny(t, cookie))
             [] OTHER -> UNCHANGED request
        /\ UNCHANGED <<now, authority, transactions, known, pages, codes>>

-----------------------------------------------------------------------------
(* What it commits.  The clock is read between the decision and the        *)
(* transaction, which locks the authorization transaction, the user, the   *)
(* client and the grant in this order, waiting for each, and looks at each *)
(* when it has it.  The locks are held until it ends.                      *)

Locked(r) == IF request[r].at \in {"issue", "deny"} THEN request[r].locked ELSE {}

TransactionLocked(t) == \E r \in Request : "transaction" \in Locked(r) /\ request[r].txn = t

\* (mutant) the user is read without FOR UPDATE
BugUserLocked(u) == FALSE

\* LockUserByID.
UserLocked(u) == \E r \in Request : "user" \in Locked(r) /\ request[r].user = u

\* (mutant) the client is read without FOR UPDATE
BugClientLocked == FALSE

\* LockOIDCClientByID.
ClientLocked == \E r \in Request : "client" \in Locked(r)

Lock(r, row) == Become(r, [request[r] EXCEPT !.locked = @ \cup {row}])

ReadClock(q, clock) == q.decided <= clock /\ clock <= now

\* (mutant) the transaction is not looked at again under its lock
BugStillLive(t, clock) == clock < transactions[t].expires

\* validateLockedAuthorizationTransaction, and the condition of the UPDATE
\* RejectAuthTransaction.
StillLive(t, clock) == transactions[t].state = "live" /\ clock < transactions[t].expires

\* LockAuthTransactionByID; a transaction already decided ends the request.
LockTransaction(r, clock) ==
    LET q == request[r]
    IN  /\ q.at \in {"issue", "deny"} /\ q.locked = {} /\ ReadClock(q, clock)
        /\ ~TransactionLocked(q.txn)
        /\ IF StillLive(q.txn, clock) THEN Lock(r, "transaction") ELSE Become(r, Idle)
        /\ UNCHANGED <<now, authority, transactions, known, pages, codes>>

\* ErrInactive, of the user or of the client, rejects the transaction.
LockUser(r) ==
    /\ Locked(r) = {"transaction"} /\ ~UserLocked(request[r].user)
    /\ IF request[r].user \in active
         THEN Lock(r, "user") ELSE Become(r, ToReject(request[r].txn))
    /\ UNCHANGED <<now, authority, transactions, known, pages, codes>>

\* lockAndValidateAuthorizationClient.
LockClient(r) ==
    /\ Locked(r) = {"transaction", "user"} /\ ~ClientLocked
    /\ IF client # "disabled"
         THEN Lock(r, "client") ELSE Become(r, ToReject(request[r].txn))
    /\ UNCHANGED <<now, authority, transactions, known, pages, codes>>

\* (mutant) consent that went away sends any browser to the consent page
BugUncovered(r) == Redirect(r, request[r].txn)

\* ErrConsentRequired from the commit: with prompt=none there is no page to
\* show, and the transaction is rejected instead.
Uncovered(r) ==
    IF "none" \in Prompts(request[r].txn)
    THEN Become(r, ToReject(request[r].txn)) /\ UNCHANGED known
    ELSE Redirect(r, request[r].txn)

\* lockAndApplyConsent: approval creates, reactivates or widens the grant;
\* without it the grant must cover the request now.
Consents(q) == q.interactive \/ q.user \in covered

LockGrant(r) ==
    /\ request[r].at = "issue" /\ Locked(r) = {"transaction", "user", "client"}
    /\ IF Consents(request[r]) THEN Lock(r, "grant") /\ UNCHANGED known ELSE Uncovered(r)
    /\ UNCHANGED <<now, authority, transactions, pages, codes>>

\* IssueAuthorizationCode commits.
Issue(r) ==
    LET q == request[r]
    IN  /\ q.at = "issue" /\ "grant" \in q.locked
        /\ transactions' = [transactions EXCEPT ![q.txn].state = "consumed"]
        /\ covered' = covered \cup {q.user}
        /\ codes' = codes \cup {[txn |-> q.txn, user |-> q.user, authAt |-> q.authAt,
                                 interactive |-> q.interactive, decided |-> q.decided]}
        /\ Become(r, Idle)
        /\ UNCHANGED <<now, active, client, sessions, cookie, known, pages>>

\* DenyAuthorization commits; it leaves an existing grant as it is.
Deny(r) ==
    LET q == request[r]
    IN  /\ q.at = "deny" /\ "client" \in q.locked
        /\ transactions' = [transactions EXCEPT ![q.txn].state = "denied"]
        /\ Become(r, Idle)
        /\ UNCHANGED <<now, authority, known, pages, codes>>

\* A deadlock or a serialization failure: inTx rolls back and begins again.
Retry(r) ==
    /\ Locked(r) # {}
    /\ Become(r, [request[r] EXCEPT !.locked = {}])
    /\ UNCHANGED <<now, authority, transactions, known, pages, codes>>

\* terminateAuthorization: one conditional UPDATE, which waits for the row.
Reject(r, clock) ==
    /\ request[r].at = "reject" /\ ReadClock(request[r], clock)
    /\ ~TransactionLocked(request[r].txn)
    /\ transactions' = IF StillLive(request[r].txn, clock)
                       THEN [transactions EXCEPT ![request[r].txn].state = "rejected"]
                       ELSE transactions
    /\ Become(r, Idle)
    /\ UNCHANGED <<now, authority, known, pages, codes>>

\* The client goes away, the database fails or the process dies; a transaction
\* under way is rolled back.
Abandon(r) ==
    /\ request[r] # Idle
    /\ Become(r, Idle)
    /\ UNCHANGED <<now, authority, transactions, known, pages, codes>>

-----------------------------------------------------------------------------
(* The rest of the system.  What changes the user, the client or the grant *)
(* locks the user or the client first.                                     *)

\* A session that is over; nothing reads the time of its login any more.
Over(row) == [row EXCEPT !.state = "over", !.authAt = 0]

\* CommitLogin and CommitRegistration: the session of the cookie gives way to
\* a new one, authenticated when the form was submitted.
Login(u, s, at) ==
    /\ sessions[s] = Absent /\ ~UserLocked(u) /\ u \in active /\ at <= now
    /\ sessions' = [x \in Session |->
           IF x = s THEN [user |-> u, authAt |-> at, state |-> "valid"]
           ELSE IF x = cookie THEN Over(sessions[x])
           ELSE sessions[x]]
    /\ cookie' = s
    /\ UNCHANGED <<now, active, client, covered, transactions, known, pages,
                   request, codes>>

\* Logout, revocation or expiry.
SessionEnds(s) ==
    /\ sessions[s].state = "valid"
    /\ sessions' = [sessions EXCEPT ![s] = Over(sessions[s])]
    /\ UNCHANGED <<now, active, client, covered, cookie, transactions, known, pages,
                   request, codes>>

\* Disabling a user ends their sessions in the same transaction.
SetUserStatus(u) ==
    /\ ~UserLocked(u)
    /\ active' = IF u \in active THEN active \ {u} ELSE active \cup {u}
    /\ sessions' = [s \in Session |->
           IF sessions[s] # Absent /\ sessions[s].user = u
           THEN Over(sessions[s]) ELSE sessions[s]]
    /\ UNCHANGED <<now, client, covered, cookie, transactions, known, pages,
                   request, codes>>

UpdateClient(status) ==
    /\ ~ClientLocked /\ client # status
    /\ client' = status
    /\ UNCHANGED <<now, active, covered, sessions, cookie, transactions, known, pages,
                   request, codes>>

\* RevokeCurrentUserGrant locks the user, the client and the grant.
RevokeGrant(u) ==
    /\ ~UserLocked(u) /\ ~ClientLocked
    /\ u \in covered
    /\ covered' = covered \ {u}
    /\ UNCHANGED <<now, active, client, sessions, cookie, transactions, known, pages,
                   request, codes>>

\* It skips rows that are locked.
ExpireAuthTransactions(t) ==
    /\ ~TransactionLocked(t)
    /\ transactions[t].state = "live" /\ transactions[t].expires <= now
    /\ transactions' = [transactions EXCEPT ![t].state = "expired"]
    /\ UNCHANGED <<now, authority, known, pages, request, codes>>

Tick ==
    /\ now < MaxTime
    /\ now' = now + 1
    /\ UNCHANGED <<authority, transactions, known, pages, request, codes>>

Next ==
    \/ \E r \in Request, t \in Transaction, a \in Asked : Authorize(r, t, a)
    \/ \E r \in Request, t \in Transaction : Continue(r, t) \/ GetConsent(r, t)
    \/ \E r \in Request, p \in pages, d \in {"issue", "deny"} : PostConsent(r, p, d)
    \/ \E r \in Request : Advance(r) \/ Abandon(r)
    \/ \E r \in Request, clock \in 0..now : LockTransaction(r, clock) \/ Reject(r, clock)
    \/ \E r \in Request : LockUser(r) \/ LockClient(r) \/ LockGrant(r)
    \/ \E r \in Request : Issue(r) \/ Deny(r) \/ Retry(r)
    \/ \E t \in Transaction : ExpireAuthTransactions(t)
    \/ \E u \in User, s \in Session, at \in {now, now - 1} \cap Nat : Login(u, s, at)
    \/ \E s \in Session : SessionEnds(s)
    \/ \E u \in User : SetUserStatus(u) \/ RevokeGrant(u)
    \/ \E c \in {"open", "closed", "disabled"} : UpdateClient(c)
    \/ Tick

Spec == Init /\ [][Next]_vars

-----------------------------------------------------------------------------
(* Properties.                                                             *)

Verdicts == [t \in Transaction |->
    IF transactions[t].state = "live" THEN "open" ELSE transactions[t].state]
Effects == [t \in Transaction |-> Cardinality({c \in codes : c.txn = t})]

\* AuthorizeFlow implements OneShot: whatever requests are still under way, a
\* transaction is decided once, its outcome is never replaced by another, and
\* the one code it may yield appears in the step that consumes it
\* (authflow.Reject: "Retrying the browser transaction can never mint authority
\* after this transition").
Promise == INSTANCE OneShot WITH
    Item <- Transaction,
    Verdict <- Outcome \ {"live"},
    Granting <- {"consumed"},
    verdict <- Verdicts,
    effects <- Effects
DecidedOnce == Promise!Spec

LoginIsWhatWasAsked ==
    \A c \in codes :
        LET t == transactions[c.txn]
        IN  /\ "login" \in t.asked.prompts \/ t.asked.maxAge = 0 => c.authAt >= t.created
            /\ "create" \in t.asked.prompts => c.authAt > t.created
            /\ t.asked.maxAge # None /\ t.asked.maxAge > 0 =>
                   c.decided <= c.authAt + t.asked.maxAge

\* prompt=consent is answered by a decision of the user, and every decision is
\* made on a page shown to that same user for that transaction, however often
\* the browser changed accounts since (postConsent's CSRF check).
ConsentIsTheUsersOwn ==
    TypeOK /\ \A c \in codes :
        /\ "consent" \in Prompts(c.txn) => c.interactive
        /\ c.interactive => \E p \in pages : p[1] = c.txn /\ sessions[p[2]].user = c.user

FromCurrentAuthority ==
    \A c \in codes' \ codes :
        c.user \in active /\ client # "disabled" /\ (c.interactive \/ c.user \in covered)

\* A code comes into being only from authority that exists when it is committed:
\* an active user, an active client, and a grant that still covers the request
\* unless the user has just approved.  Each was looked at in an earlier step of
\* the transaction (IssueAuthorizationCode "atomically revalidates all mutable
\* authority"), and could have been taken away since.
CodeFromCurrentAuthority == [][FromCurrentAuthority]_vars

NoneShowsNothing ==
    \A t \in Transaction : t \in known \/ (\E p \in pages : p[1] = t) =>
        "none" \notin Prompts(t)

\* prompt and max_age are honoured whatever happens between the request and the
\* code.  The login behind a code is what they asked for, although the browser
\* may have changed sessions between the request, the forms and the decision
\* (advanceAuthorization, consentPrincipal); and prompt=none never shows a page,
\* not even when the grant is revoked between the decision and the commit
\* (issueAuthorizationCode).
PromptHonoured == LoginIsWhatWasAsked /\ NoneShowsNothing
=============================================================================
