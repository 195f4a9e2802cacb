--------------------------- MODULE SessionActivity ---------------------------
(***************************************************************************)
(* One signed-in browser with several tabs (internal/session/service.go,    *)
(* the request prologue of internal/httpserver): every request reads the    *)
(* session row, may move its idle expiry, and then either makes sure the    *)
(* browser has a usable CSRF token (a page load) or checks the one it was   *)
(* sent (a mutation).  The read and the two updates are statements of their *)
(* own, made with a reading of the clock taken at the start, so those of    *)
(* concurrent tabs interleave and may be applied out of order.              *)
(*                                                                          *)
(* A CSRF token stands for its digest; 0 is "no cookie".  What else ends a  *)
(* session is in SessionIsolation; here it is the one action Revoke.        *)
(***************************************************************************)
EXTENDS Integers, WallClock

CONSTANTS
    Tab,           \* tabs of the browser, one request at a time in each
    SessionTTL, IdleTimeout, CsrfTTL,
    TouchEvery,    \* touchEvery
    MaxSessionTime,   \* bound on the clock
    MaxToken       \* bound on CSRF tokens

\* NewTokenManager checks the lifetimes; the last conjunct says that no request
\* is under way (MaxLag is the longest time from its reading to its touch) for as
\* long as the idle timeout.
ValidLifetimes ==
    /\ SessionTTL \in Nat \ {0} /\ IdleTimeout \in Nat \ {0} /\ IdleTimeout <= SessionTTL
    /\ CsrfTTL \in Nat \ {0} /\ TouchEvery \in Nat \ {0}
    /\ MaxLag \in Nat /\ MaxLag < IdleTimeout

None == "none"             \* no tab

\* Beside the lifetimes: room for the first CSRF token.
ASSUME SessionAssumption == ValidLifetimes /\ MaxToken \in Nat \ {0} /\ None \notin Tab

VARIABLES
    row,       \* the session: revoked, lastSeen, idle, csrf, csrfExpires
    jar,       \* the browser's CSRF cookie
    page,      \* the token of the page shown in each tab
    request,   \* the request of each tab
    issued,    \* CSRF tokens generated so far
    active,    \* latest reading with which a request was authenticated (history)
    quiet      \* the tab that loaded its page with nothing beside it then or since, if any (history)

sessionVars == <<now, row, jar, page, request, issued, active, quiet>>

Expires == SessionTTL      \* the session starts at time 0
Idle == [at |-> "idle"]
Token == 0..MaxToken

Earlier(a, b) == IF a < b THEN a ELSE b
Later(a, b) == IF a > b THEN a ELSE b

Row == [revoked : BOOLEAN, lastSeen : Nat, idle : Nat, csrf : Token, csrfExpires : Nat]
InFlight == [at : {"find", "touch", "ready", "respond"}, kind : {"load", "mutation"},
             now : Nat, cookie : Token, token : Token, csrf : Token, csrfExpires : Nat]

SessionTypeOK ==
    /\ now \in Nat /\ active \in Nat /\ issued \in Token /\ jar \in Token
    /\ row \in Row
    /\ page \in [Tab -> Token]
    /\ request \in [Tab -> InFlight \cup {Idle}]
    /\ quiet \in Tab \cup {None}

\* NewAuthenticated, SetAuthenticated: the browser has just signed in.
SessionInit ==
    /\ now = 0 /\ active = 0 /\ issued = 1 /\ jar = 1
    /\ row = [revoked |-> FALSE, lastSeen |-> 0, idle |-> IdleTimeout,
              csrf |-> 1, csrfExpires |-> CsrfTTL]
    /\ page = [b \in Tab |-> 0]
    /\ request = [b \in Tab |-> Idle]
    /\ quiet = None

End(b) == request' = [request EXCEPT ![b] = Idle]

-----------------------------------------------------------------------------
(* authenticate.                                                           *)

\* A request leaves the tab with the cookie and the page's token, and reads the
\* clock on arrival.
Begin(b, kind) ==
    /\ request[b] = Idle
    /\ request' = [request EXCEPT ![b] =
           [at |-> "find", kind |-> kind, now |-> now, cookie |-> jar,
            token |-> IF kind = "load" THEN 0 ELSE page[b], csrf |-> 0, csrfExpires |-> 0]]
    /\ quiet' = IF /\ \A c \in Tab : request[c] = Idle
                   /\ kind = "load" \/ quiet = b
                THEN b ELSE None
    /\ UNCHANGED <<now, row, jar, page, issued, active>>

Live(time) == ~row.revoked /\ time < Expires /\ time < row.idle

\* Authenticate up to the touch: the row is read and judged by the reading.
FindLoginSession(b) ==
    LET q == request[b]
        fresh == q.now - row.lastSeen < TouchEvery
    IN  /\ q.at = "find"
        /\ IF Live(q.now)
           THEN /\ request' = [request EXCEPT ![b] =
                       [q EXCEPT !.at = IF fresh THEN "ready" ELSE "touch",
                                 !.now = IF fresh THEN 0 ELSE @,     \* not used again
                                 !.csrf = row.csrf, !.csrfExpires = row.csrfExpires]]
                /\ active' = IF fresh THEN Later(active, q.now) ELSE active
                /\ UNCHANGED quiet
           ELSE /\ End(b) /\ quiet' = None
                /\ UNCHANGED active
        /\ UNCHANGED <<now, row, jar, page, issued>>

\* NextIdleExpiry
NextIdleExpiry(time) == Earlier(time + IdleTimeout, Expires)

\* (mutant) the idle time is added to what was left of it
BugTouched(time) ==
    [row EXCEPT !.lastSeen = time, !.idle = Earlier(Expires, row.idle + IdleTimeout)]

\* The UPDATE of TouchLoginSession.
Touched(time) ==
    [row EXCEPT !.lastSeen = time, !.idle = Earlier(Expires, NextIdleExpiry(time))]

TouchLoginSession(b) ==
    LET q == request[b]
    IN  /\ q.at = "touch"
        /\ row' = IF Live(q.now) THEN Touched(q.now) ELSE row
        /\ active' = Later(active, q.now)
        /\ request' = [request EXCEPT ![b].at = "ready", ![b].now = 0]
        /\ UNCHANGED <<now, jar, page, issued, quiet>>

-----------------------------------------------------------------------------
(* A page load: ensureCSRF, and the answer.                                *)

\* ValidateCSRF, against the row as it was read.
Valid(q, token) == token # 0 /\ token = q.csrf /\ now < q.csrfExpires

Answer(q, token) == [q EXCEPT !.at = "respond", !.token = token, !.csrf = 0, !.csrfExpires = 0]

EnsureCSRF(b) ==
    LET q == request[b]
    IN  /\ q.at = "ready" /\ q.kind = "load"
        /\ \/ /\ Valid(q, q.cookie)
              /\ request' = [request EXCEPT ![b] = Answer(q, q.cookie)]
              /\ UNCHANGED <<row, issued>>
           \/ /\ ~Valid(q, q.cookie) /\ issued < MaxToken
              /\ issued' = issued + 1
              /\ row' = IF row.revoked THEN row
                        ELSE [row EXCEPT !.csrf = issued + 1, !.csrfExpires = now + CsrfTTL]
              /\ request' = [request EXCEPT ![b] = Answer(q, issued + 1)]
        /\ UNCHANGED <<now, jar, page, active, quiet>>

\* (mutant) a rotated token is shown on the page but not set as the cookie
BugRespond(b) ==
    /\ request[b].at = "respond"
    /\ page' = [page EXCEPT ![b] = request[b].token]
    /\ End(b)
    /\ UNCHANGED <<now, row, jar, issued, active, quiet>>

\* The answer reaches the browser: the page holds the token, and a token that is
\* not the cookie sent comes with a new cookie.
Respond(b) ==
    LET q == request[b]
    IN  /\ q.at = "respond"
        /\ page' = [page EXCEPT ![b] = q.token]
        /\ jar' = IF q.token # q.cookie THEN q.token ELSE jar
        /\ End(b)
        /\ UNCHANGED <<now, row, issued, active, quiet>>

\* requirePrincipalMutation: the page's token is compared with the cookie and
\* with the session.
Accepts(q) == q.token = q.cookie /\ Valid(q, q.cookie)

\* A mutation is answered.  What an accepted one does is in other modules; here
\* it matters that it was accepted.
Mutation(b) ==
    /\ request[b].at = "ready" /\ request[b].kind = "mutation"
    /\ End(b)
    /\ UNCHANGED <<now, row, jar, page, issued, active, quiet>>

\* The answer is lost, or the request fails.
Lose(b) ==
    /\ request[b] # Idle
    /\ End(b) /\ quiet' = IF quiet = b THEN None ELSE quiet
    /\ UNCHANGED <<now, row, jar, page, issued, active>>

-----------------------------------------------------------------------------
(* The rest of the world.                                                  *)

\* The browser drops the cookie when its age is over, or the user does.
DropCookie ==
    /\ jar # 0 /\ jar' = 0 /\ quiet' = None
    /\ UNCHANGED <<now, row, page, request, issued, active>>

Revoke ==
    /\ ~row.revoked
    /\ row' = [row EXCEPT !.revoked = TRUE]
    /\ UNCHANGED <<now, jar, page, request, issued, active, quiet>>

Authenticating(b) == request[b].at \in {"find", "touch"}

SessionTick ==
    /\ now < MaxSessionTime
    /\ \A b \in Tab : Authenticating(b) => now < request[b].now + MaxLag
    /\ now' = now + 1
    /\ UNCHANGED <<row, jar, page, request, issued, active, quiet>>

SessionNext ==
    \/ \E b \in Tab :
          \/ \E kind \in {"load", "mutation"} : Begin(b, kind)
          \/ FindLoginSession(b) \/ TouchLoginSession(b) \/ EnsureCSRF(b)
          \/ Respond(b) \/ Mutation(b) \/ Lose(b)
    \/ DropCookie \/ Revoke \/ SessionTick

SessionSpec == SessionInit /\ [][SessionNext]_sessionVars

-----------------------------------------------------------------------------
(* Properties.                                                             *)

\* The idle expiry follows the activity of the browser: it is never later than
\* the idle timeout after an authenticated request, and never earlier than that
\* by more than the touch interval or the time a late touch of another tab was
\* under way (Authenticate, TouchLoginSession).
IdleWindow ==
    /\ row.idle <= Earlier(Expires, active + IdleTimeout)
    /\ ~row.revoked /\ active < Expires =>
           row.idle >= Earlier(Expires, active - Later(TouchEvery, MaxLag) + IdleTimeout)

\* Two tabs may leave the browser with a cookie that is not the session's token,
\* but loading a page repairs it: when nothing else happened since, a mutation
\* from that page is accepted as long as the token has not expired (EnsureCSRF,
\* requirePrincipalMutation).
LoadRepairs ==
    \A b \in Tab :
        LET q == request[b]
        IN  q.at = "ready" /\ q.kind = "mutation" /\ quiet = b /\ now < q.csrfExpires
            => Accepts(q)
=============================================================================
