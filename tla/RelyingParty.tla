---------------------------- MODULE RelyingParty ----------------------------
(***************************************************************************)
(* The relying party of examples/oidc-client: its in-memory sessions and    *)
(* the handlers that sign a browser in, refresh its tokens and sign it out. *)
(*                                                                          *)
(* Handlers run concurrently and leave the session lock whenever they talk  *)
(* to the provider, so each exchange is a step of its own between a claim   *)
(* or a read and the commit.  Browsers have every session cookie they were  *)
(* ever given, and reload callbacks.  A request to the provider may be      *)
(* refused, or carried out and its answer lost.                             *)
(*                                                                          *)
(* An attempt stands for its state, nonce, verifier and code, and for the   *)
(* refresh family and the identity the code leads to.  CSRF tokens and      *)
(* identifiers are random, so a form of another session is one early        *)
(* return.  Revision is written everywhere and read only by save, which no  *)
(* handler calls.                                                           *)
(***************************************************************************)
EXTENDS Naturals, FiniteSets

CONSTANTS
    Request,                \* handlers at a time
    MaxSid, MaxAttempt, MaxLogout, MaxGeneration, MaxNow,   \* bounds of the model
    MaxSessions,            \* maxExampleSessions
    SessionTTL, PendingTTL, LogoutTTL, SweepInterval

ASSUME LimitAssumption ==
    /\ {MaxSid, MaxAttempt, MaxLogout, MaxGeneration, MaxNow, PendingTTL,
        LogoutTTL} \subseteq Nat
    /\ {MaxSessions, SessionTTL, SweepInterval} \subseteq Nat \ {0}

Sid == 1..MaxSid
Attempt == 1..MaxAttempt
None == 0                   \* no attempt, no version, no logout state

VARIABLES
    now,
    sessions,    \* memorySessions.sessions
    nextSweep,
    attempts,    \* when each authorization attempt was started
    cookies,     \* session identifiers handed to a browser
    logouts,     \* number of logout states generated
    handlers,
    answers,     \* provider: its redirect to the callback
    families,    \* provider: refresh families, one per redeemed code
    superseded,  \* history: attempts given up before they were completed
    disowned,    \* history: families the relying party asked to revoke
    reused       \* history: families the provider retired for reuse

provider == <<answers, families, reused>>
vars == <<now, sessions, nextSweep, attempts, cookies, logouts, handlers,
          provider, superseded, disowned>>

-----------------------------------------------------------------------------
Unused == [state |-> "unused"]
Gone == [state |-> "gone"]
Idle == [at |-> "idle"]

Tokens == [family : Attempt, generation : Nat, offline : BOOLEAN]
NoTokens == [family |-> None]

Row == [state : {"present"}, pending : Attempt \cup {None},
        identity : Attempt \cup {None}, tokens : Tokens \cup {NoTokens},
        version : Nat, inFlight : Nat, logout : Nat, logoutAt : Nat, expires : Nat]

Handler ==
    {Idle} \cup [at : {"begin"}, sid : Sid, time : Nat]
           \cup [at : {"clear", "exchange"}, sid : Sid, attempt : Attempt]
           \cup [at : {"verify", "complete"}, sid : Sid, attempt : Attempt,
                 tokens : Tokens]
           \cup [at : {"refresh", "fail", "replace"}, sid : Sid, version : Nat,
                 tokens : Tokens]
           \cup [at : {"revoke"}, tokens : Tokens]

TypeOK ==
    /\ now \in Nat /\ nextSweep \in Nat
    /\ sessions \in [Sid -> Row \cup {Unused, Gone}]
    /\ attempts \in [Attempt -> Nat \cup {MaxNow + 1}]
    /\ cookies \subseteq Sid
    /\ logouts \in 0..MaxLogout
    /\ handlers \in [Request -> Handler]
    /\ answers \in [Attempt -> {"none", "code", "error"}]
    /\ families \in [Attempt -> [state : {"none", "live", "revoked"}, generation : Nat]]
    /\ superseded \cup disowned \cup reused \subseteq Attempt

Init ==
    /\ now = 0 /\ nextSweep = 0
    /\ sessions = [s \in Sid |-> Unused]
    /\ attempts = [a \in Attempt |-> MaxNow + 1]
    /\ cookies = {} /\ logouts = 0
    /\ handlers = [r \in Request |-> Idle]
    /\ answers = [a \in Attempt |-> "none"]
    /\ families = [a \in Attempt |-> [state |-> "none", generation |-> 0]]
    /\ superseded = {} /\ disowned = {} /\ reused = {}

-----------------------------------------------------------------------------
(* memorySessions: every operation holds the lock from its sweep to its end. *)

Present(table, s) == table[s].state = "present"
Size(table) == Cardinality({s \in Sid : Present(table, s)})
SweepDue(t) == t >= nextSweep \/ Size(sessions) >= MaxSessions

\* pruneLocked
Swept(t) ==
    IF ~SweepDue(t) THEN sessions
    ELSE [s \in Sid |-> IF Present(sessions, s) /\ t >= sessions[s].expires
                        THEN Gone ELSE sessions[s]]
Sweep(t) == nextSweep' = IF SweepDue(t) THEN t + SweepInterval ELSE nextSweep

\* get, for the handlers' first read.
Readable(s) == s \in cookies /\ Present(sessions, s) /\ now < sessions[s].expires

\* Identifiers are 32 random bytes: the next one that was never used.
Fresh(s) == sessions[s] = Unused /\ \A x \in 1..(s - 1) : sessions[x] # Unused

NewSession(t) ==
    [state |-> "present", pending |-> None, identity |-> None, tokens |-> NoTokens,
     version |-> None, inFlight |-> None, logout |-> None, logoutAt |-> 0,
     expires |-> t + SessionTTL]

Become(r, what) == handlers' = [handlers EXCEPT ![r] = what]

\* The claim is still the session's newest, and nothing has settled it.
StillClaimed(table, q) ==
    /\ Present(table, q.sid) /\ now < table[q.sid].expires
    /\ table[q.sid].version = q.version /\ table[q.sid].inFlight = q.version

-----------------------------------------------------------------------------
(* Signing in.                                                             *)

\* beginLogin with the session of the cookie; `time` is read before and used after.
BeginLogin(r, s) ==
    /\ handlers[r] = Idle /\ Readable(s)
    /\ Become(r, [at |-> "begin", sid |-> s, time |-> now])
    /\ UNCHANGED <<now, sessions, nextSweep, attempts, cookies, logouts, provider,
                   superseded, disowned>>

HasRoom(table) == Size(table) < MaxSessions

\* beginLogin without one: create.
CreateSession(r, s) ==
    LET table == Swept(now)
    IN  /\ handlers[r] = Idle /\ Fresh(s)
        /\ IF HasRoom(table)
           THEN /\ sessions' = [table EXCEPT ![s] = NewSession(now)]
                /\ Become(r, [at |-> "begin", sid |-> s, time |-> now])
           ELSE sessions' = table /\ UNCHANGED handlers
        /\ Sweep(now)
        /\ UNCHANGED <<now, attempts, cookies, logouts, provider, superseded, disowned>>

\* The attempt replaces one that is still pending and extends the session.
BeginAuthorization(r, a) ==
    LET q == handlers[r]
        table == Swept(q.time)
        current == Present(table, q.sid) /\ q.time < table[q.sid].expires
    IN  /\ q.at = "begin"
        /\ attempts[a] > MaxNow /\ \A x \in 1..(a - 1) : attempts[x] <= MaxNow
        /\ IF current
           THEN /\ sessions' = [table EXCEPT ![q.sid].pending = a,
                                             ![q.sid].expires = q.time + SessionTTL]
                /\ attempts' = [attempts EXCEPT ![a] = q.time]
                /\ superseded' = superseded \cup ({table[q.sid].pending} \ {None})
                /\ cookies' = cookies \cup {q.sid}
           ELSE sessions' = table /\ UNCHANGED <<attempts, superseded, cookies>>
        /\ Become(r, Idle) /\ Sweep(q.time)
        /\ UNCHANGED <<now, logouts, provider, disowned>>

\* callback up to the exchange: the pending attempt of the cookie's session.
Callback(r, s) ==
    LET a == sessions[s].pending
    IN  /\ handlers[r] = Idle /\ Readable(s)
        /\ a # None /\ now <= attempts[a] + PendingTTL /\ answers[a] # "none"
        /\ Become(r, [at |-> IF answers[a] = "code" THEN "exchange" ELSE "clear",
                      sid |-> s, attempt |-> a])
        /\ UNCHANGED <<now, sessions, nextSweep, attempts, cookies, logouts, provider,
                       superseded, disowned>>

StillPending(table, q) == Present(table, q.sid) /\ table[q.sid].pending = q.attempt

ClearPending(r) ==
    LET q == handlers[r]
        table == Swept(now)
    IN  /\ q.at = "clear"
        /\ IF StillPending(table, q)
           THEN /\ sessions' = [table EXCEPT ![q.sid].pending = None]
                /\ superseded' = superseded \cup {q.attempt}
           ELSE sessions' = table /\ UNCHANGED superseded
        /\ Become(r, Idle) /\ Sweep(now)
        /\ UNCHANGED <<now, attempts, cookies, logouts, provider, disowned>>

\* exchangeAuthorizationCode.  The provider redeems a code once; its answer may
\* be lost or fail the profile, and it may refuse.
Exchange(r) ==
    LET q == handlers[r]
        f == q.attempt
    IN  /\ q.at = "exchange"
        /\ \/ /\ families[f].state = "none"
              /\ families' = [families EXCEPT ![f].state = "live"]
              /\ \/ \E o \in BOOLEAN :
                        Become(r, [at |-> "verify", sid |-> q.sid, attempt |-> f,
                                   tokens |-> [family |-> f, generation |-> 0,
                                               offline |-> o]])
                 \/ Become(r, Idle)
           \/ Become(r, Idle) /\ UNCHANGED families
        /\ UNCHANGED <<now, sessions, nextSweep, attempts, cookies, logouts, answers,
                       reused, superseded, disowned>>

\* verifyIDToken and fetchUserInfo: either may reject what came back.
Verify(r) ==
    LET q == handlers[r]
    IN  /\ q.at = "verify"
        /\ \/ Become(r, [q EXCEPT !.at = "complete"])
           \/ Become(r, [at |-> "revoke", tokens |-> q.tokens])
        /\ UNCHANGED <<now, sessions, nextSweep, attempts, cookies, logouts, provider,
                       superseded, disowned>>

SignedIn(q) ==
    [NewSession(now) EXCEPT !.identity = q.attempt, !.tokens = q.tokens]

\* (mutant) the session keeps its identifier, and a claim that is under way
BugCompleteWithTokens(r, s) ==
    LET q == handlers[r]
        table == Swept(now)
    IN  /\ q.at = "complete" /\ Fresh(s)
        /\ IF StillPending(table, q)
           THEN /\ sessions' = [table EXCEPT ![q.sid].pending = None,
                                             ![q.sid].identity = q.attempt,
                                             ![q.sid].tokens = q.tokens]
                /\ Become(r, Idle)
           ELSE /\ sessions' = table
                /\ Become(r, [at |-> "revoke", tokens |-> q.tokens])
        /\ Sweep(now)
        /\ UNCHANGED <<now, attempts, cookies, logouts, provider, superseded, disowned>>

\* The signed-in session has a new identifier; the old one goes with its tokens.
CompleteWithTokens(r, s) ==
    LET q == handlers[r]
        table == Swept(now)
    IN  /\ q.at = "complete" /\ Fresh(s)
        /\ IF StillPending(table, q)
           THEN /\ sessions' = [table EXCEPT ![q.sid] = Gone, ![s] = SignedIn(q)]
                /\ cookies' = cookies \cup {s}
                /\ Become(r, Idle)
           ELSE /\ sessions' = table
                /\ Become(r, [at |-> "revoke", tokens |-> q.tokens])
                /\ UNCHANGED cookies
        /\ Sweep(now)
        /\ UNCHANGED <<now, attempts, logouts, provider, superseded, disowned>>

\* revokeProviderTokens: one try, in time or not.
Revoke(r) ==
    LET f == handlers[r].tokens.family
    IN  /\ handlers[r].at = "revoke"
        /\ disowned' = disowned \cup {f}
        /\ families' \in {families, [families EXCEPT ![f].state = "revoked"]}
        /\ Become(r, Idle)
        /\ UNCHANGED <<now, sessions, nextSweep, attempts, cookies, logouts, answers,
                       reused, superseded>>

-----------------------------------------------------------------------------
(* Refreshing.                                                             *)

Claimable(s) ==
    /\ sessions[s].identity # None /\ sessions[s].inFlight = None
    /\ sessions[s].tokens # NoTokens /\ sessions[s].tokens.offline

ClaimRefresh(r, s) ==
    LET table == Swept(now)
        version == sessions[s].version + 1
    IN  /\ handlers[r] = Idle /\ Readable(s) /\ Claimable(s)
        /\ sessions' = [table EXCEPT ![s].version = version, ![s].inFlight = version]
        /\ Become(r, [at |-> "refresh", sid |-> s, version |-> version,
                      tokens |-> sessions[s].tokens])
        /\ Sweep(now)
        /\ UNCHANGED <<now, attempts, cookies, logouts, provider, superseded, disowned>>

\* exchangeRefreshToken.  The provider rotates the newest generation, retires
\* the family of an older one, and may refuse or not be reached at all.
RefreshExchange(r) ==
    LET q == handlers[r]
        f == q.tokens.family
        newest == families[f].generation
    IN  /\ q.at = "refresh"
        /\ \/ /\ families[f].state = "live" /\ q.tokens.generation = newest
              /\ newest < MaxGeneration
              /\ families' = [families EXCEPT ![f].generation = newest + 1]
              /\ \/ Become(r, [q EXCEPT !.at = "replace", !.tokens.generation = newest + 1])
                 \/ Become(r, [q EXCEPT !.at = "fail"])
              /\ UNCHANGED reused
           \/ /\ families[f].state = "live" /\ q.tokens.generation < newest
              /\ families' = [families EXCEPT ![f].state = "revoked"]
              /\ reused' = reused \cup {f}
              /\ Become(r, [q EXCEPT !.at = "fail"])
           \/ /\ Become(r, [q EXCEPT !.at = "fail"])
              /\ UNCHANGED <<families, reused>>
        /\ UNCHANGED <<now, sessions, nextSweep, attempts, cookies, logouts, answers,
                       superseded, disowned>>

\* Settle the claim with these tokens; `otherwise` is what the handler does
\* when it is no longer the session's claim.
Settle(r, tokens, otherwise) ==
    LET q == handlers[r]
        table == Swept(now)
    IN  /\ IF StillClaimed(table, q)
           THEN /\ sessions' = [table EXCEPT ![q.sid].tokens = tokens,
                                             ![q.sid].inFlight = None]
                /\ Become(r, Idle)
           ELSE sessions' = table /\ Become(r, otherwise)
        /\ Sweep(now)
        /\ UNCHANGED <<now, attempts, cookies, logouts, provider, superseded, disowned>>

\* (mutant) no return after the tokens were stored
BugReplaceRefresh(r) ==
    LET q == handlers[r]
        table == Swept(now)
    IN  /\ q.at = "replace"
        /\ sessions' = IF StillClaimed(table, q)
                       THEN [table EXCEPT ![q.sid].tokens = q.tokens,
                                          ![q.sid].inFlight = None]
                       ELSE table
        /\ Become(r, [at |-> "revoke", tokens |-> q.tokens])
        /\ Sweep(now)
        /\ UNCHANGED <<now, attempts, cookies, logouts, provider, superseded, disowned>>

\* Tokens that cannot be stored are given back.
ReplaceRefresh(r) ==
    /\ handlers[r].at = "replace"
    /\ Settle(r, handlers[r].tokens, [at |-> "revoke", tokens |-> handlers[r].tokens])

\* (mutant) an ambiguous answer leaves the session as it was
BugFailRefresh(r) ==
    /\ handlers[r].at = "fail"
    /\ Settle(r, handlers[r].tokens, Idle)

\* A refused or an unknown outcome takes the tokens away.
FailRefresh(r) ==
    /\ handlers[r].at = "fail"
    /\ Settle(r, NoTokens, Idle)

-----------------------------------------------------------------------------
(* Signing out.                                                            *)

\* logout: the form that takes the browser to the provider.
BeginLogout(s) ==
    /\ Readable(s) /\ sessions[s].identity # None
    /\ logouts < MaxLogout
    /\ logouts' = logouts + 1
    /\ sessions' = [Swept(now) EXCEPT ![s].logout = logouts + 1, ![s].logoutAt = now]
    /\ Sweep(now)
    /\ UNCHANGED <<now, attempts, cookies, handlers, provider, superseded, disowned>>

\* loggedOut: the browser returns with the newest state, in time.
FinishLogout(s) ==
    /\ Readable(s) /\ sessions[s].identity # None
    /\ sessions[s].logout # None /\ now < sessions[s].logoutAt + LogoutTTL
    /\ sessions' = [Swept(now) EXCEPT ![s] = Gone]
    /\ Sweep(now)
    /\ UNCHANGED <<now, attempts, cookies, logouts, handlers, provider, superseded, disowned>>

\* Any handler's first read of a session that has expired.
GetExpired(s) ==
    /\ s \in cookies /\ Present(sessions, s) /\ now >= sessions[s].expires
    /\ sessions' = [sessions EXCEPT ![s] = Gone]
    /\ UNCHANGED <<now, nextSweep, attempts, cookies, logouts, handlers, provider,
                   superseded, disowned>>

-----------------------------------------------------------------------------
(* The provider and the clock.                                             *)

\* issueAuthorizationCode or terminateAuthorization: the one redirect back to
\* the client that ends an authorization transaction.
Answer(a, what) ==
    /\ attempts[a] <= MaxNow /\ answers[a] = "none"
    /\ answers' = [answers EXCEPT ![a] = what]
    /\ UNCHANGED <<now, sessions, nextSweep, attempts, cookies, logouts, handlers,
                   families, reused, superseded, disowned>>

\* The provider revokes the family: revokeSessionBindingsCascade when its
\* session ends, and likewise for its user, its client or its grant.
RevokedAtProvider(f) ==
    /\ families[f].state = "live"
    /\ families' = [families EXCEPT ![f].state = "revoked"]
    /\ UNCHANGED <<now, sessions, nextSweep, attempts, cookies, logouts, handlers,
                   answers, reused, superseded, disowned>>

Tick ==
    /\ now < MaxNow
    /\ now' = now + 1
    /\ UNCHANGED <<sessions, nextSweep, attempts, cookies, logouts, handlers, provider,
                   superseded, disowned>>

Step(r) ==
    \/ \E a \in Attempt : BeginAuthorization(r, a)
    \/ ClearPending(r) \/ Exchange(r) \/ Verify(r) \/ Revoke(r)
    \/ \E s \in Sid : CompleteWithTokens(r, s)
    \/ RefreshExchange(r) \/ ReplaceRefresh(r) \/ FailRefresh(r)

Next ==
    \/ \E r \in Request, s \in Sid :
           BeginLogin(r, s) \/ CreateSession(r, s) \/ Callback(r, s) \/ ClaimRefresh(r, s)
    \/ \E r \in Request : Step(r)
    \/ \E s \in Sid : BeginLogout(s) \/ FinishLogout(s) \/ GetExpired(s)
    \/ \E a \in Attempt : \/ \E what \in {"code", "error"} : Answer(a, what)
                          \/ RevokedAtProvider(a)
    \/ Tick

Spec == Init /\ [][Next]_vars

-----------------------------------------------------------------------------
(* Properties.                                                             *)

\* A session is that of the login it shows: a refresh that was under way while
\* the browser signed in again, as whomever, never lands in the new session
\* (replaceRefresh: "A late response cannot overwrite a newer authorization
\* result"), and an attempt that the user gave up for a newer one, or that came
\* back as an error, signs nobody in, although its callback may have passed
\* every check before (completeWithTokens compares the attempts again).  The
\* table stays within its capacity throughout.
SessionIsItsLogin ==
    /\ TypeOK
    /\ Size(sessions) <= MaxSessions
    /\ \A s \in Sid : Present(sessions, s) =>
           /\ sessions[s].tokens # NoTokens =>
                  sessions[s].tokens.family = sessions[s].identity
           /\ sessions[s].identity \notin superseded

\* The relying party never presents a refresh token the provider has already
\* rotated, whichever answers are lost and however often the button is
\* pressed (claimRefresh: "A second browser request is rejected locally and
\* never reaches the Provider"); the provider would retire the whole family.
NeverReused == reused = {}

\* What it asks the provider to revoke is no session's any more: tokens that a
\* session could still refresh with are never given back (revokeProviderTokens
\* is for "authority that could not be committed locally").
RevokesOnlyOrphans ==
    \A s \in Sid : Readable(s) /\ Claimable(s) =>
        sessions[s].tokens.family \notin disowned
=============================================================================
