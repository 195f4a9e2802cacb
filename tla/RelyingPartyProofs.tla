------------------------- MODULE RelyingPartyProofs -------------------------
(***************************************************************************)
(* Proofs about RelyingParty, for any number of sessions, login attempts,   *)
(* logouts and concurrent handlers, any lifetimes and any capacity.         *)
(*                                                                          *)
(* The tokens of a login are in one place at a time: a session that is not  *)
(* being refreshed keeps them, or a handler holds them, on their way into a *)
(* session, out of it, or back to the provider.  Whoever has them has the   *)
(* newest generation, so nothing older is ever presented.                   *)
(***************************************************************************)
EXTENDS RelyingParty, TLAPS

\* The tokens a handler holds and a session keeps, NoTokens when it has none.
HeldBy(h) ==
    IF h.at \in {"verify", "complete", "refresh", "replace", "revoke"} THEN h.tokens ELSE NoTokens
KeptBy(row) ==
    IF row.state = "present" /\ row.inFlight = None THEN row.tokens ELSE NoTokens

Held(r) == HeldBy(handlers[r])
Kept(s) == KeptBy(sessions[s])

\* Tokens that could be used are of the newest generation of a family that
\* was issued and not given back.
Good(t) ==
    t # NoTokens => /\ t.generation = families[t.family].generation
                    /\ families[t.family].state # "none"
                    /\ t.family \notin disowned

Apart(t, u) == t # NoTokens /\ u # NoTokens => t.family # u.family

CustodyInv ==
    /\ \A r \in Request : Good(Held(r))
    /\ \A s \in Sid : Good(Kept(s))
    /\ \A r, q \in Request : r # q => Apart(Held(r), Held(q))
    /\ \A s, x \in Sid : s # x => Apart(Kept(s), Kept(x))
    /\ \A r \in Request, s \in Sid : Apart(Held(r), Kept(s))
    /\ \A f \in Attempt : families[f].state = "none" =>
           families[f].generation = 0 /\ f \notin disowned
    /\ reused = {}

CapacityInv == Size(sessions) <= MaxSessions

\* An attempt is no session's pending attempt or identity any more, or not yet.
Nowhere(a) == \A s \in Sid : Present(sessions, s) =>
                  sessions[s].pending # a /\ sessions[s].identity # a

LoginInv ==
    /\ \A a \in Attempt : attempts[a] > MaxNow => a \notin superseded /\ Nowhere(a)
    /\ \A a \in superseded : Nowhere(a)
    /\ \A s, x \in Sid : Present(sessions, s) /\ Present(sessions, x)
                         /\ sessions[s].pending # None =>
           /\ sessions[x].pending = sessions[s].pending => s = x
           /\ sessions[x].identity # sessions[s].pending

\* The tokens of a session are those of its login.
OwnInv ==
    \A s \in Sid : Present(sessions, s) /\ sessions[s].tokens # NoTokens =>
        sessions[s].tokens.family = sessions[s].identity

\* What a handler carries belongs to the attempt, or the session, it is for,
\* and its clock reading is never ahead of the clock.
Errand(h) ==
    /\ h.at = "begin" => h.time <= now
    /\ h.at \in {"verify", "complete"} => h.tokens.family = h.attempt
    /\ h.at \in {"refresh", "fail", "replace"} =>
           /\ sessions[h.sid] # Unused
           /\ Present(sessions, h.sid) => h.tokens.family = sessions[h.sid].identity

ErrandInv == now <= MaxNow /\ \A r \in Request : Errand(handlers[r])

PartyInv ==
    /\ TypeOK /\ CapacityInv /\ LoginInv /\ OwnInv
    /\ ErrandInv /\ CustodyInv

-----------------------------------------------------------------------------
(* Rows and handlers.                                                      *)

Table == [Sid -> Row \cup {Unused, Gone}]

LEMMA Kinds ==
    /\ Unused # Gone /\ Unused.state # "present" /\ Gone.state # "present"
    /\ \A row \in Row : row.state = "present"
    /\ Idle.at = "idle" /\ NoTokens.family = None /\ None \notin Attempt
    /\ \A t \in Tokens : t # NoTokens /\ t.family \in Attempt /\ t.generation \in Nat
BY DEF Unused, Gone, Row, Idle, NoTokens, Tokens, None, Attempt

LEMMA RowFacts ==
    ASSUME NEW table \in Table, NEW s \in Sid
    PROVE  /\ Present(table, s) <=> table[s] \in Row
           /\ ~Present(table, s) <=> table[s] \in {Unused, Gone}
           /\ Present(table, s) =>
                /\ table[s].pending \in Attempt \cup {None}
                /\ table[s].identity \in Attempt \cup {None}
                /\ table[s].tokens \in Tokens \cup {NoTokens}
                /\ table[s].version \in Nat /\ table[s].inFlight \in Nat
                /\ table[s].expires \in Nat
<1>1. table[s] \in Row \cup {Unused, Gone}
  BY Zenon DEF Table
<1>2. ASSUME NEW row \in Row
      PROVE  /\ row.pending \in Attempt \cup {None} /\ row.identity \in Attempt \cup {None}
             /\ row.tokens \in Tokens \cup {NoTokens} /\ row.version \in Nat
             /\ row.inFlight \in Nat /\ row.expires \in Nat
  BY DEF Row
<1>3. QED
  BY <1>1, <1>2, Kinds, Zenon DEF Present

LEMMA HandlerFacts ==
    ASSUME TypeOK, NEW r \in Request
    PROVE  /\ handlers[r] = Idle \/ handlers[r].at # "idle"
           /\ handlers[r].at = "begin" => handlers[r].sid \in Sid /\ handlers[r].time \in Nat
           /\ handlers[r].at \in {"clear", "exchange"} =>
                handlers[r].sid \in Sid /\ handlers[r].attempt \in Attempt
           /\ handlers[r].at \in {"verify", "complete"} =>
                /\ handlers[r].sid \in Sid /\ handlers[r].attempt \in Attempt
                /\ handlers[r].tokens \in Tokens
           /\ handlers[r].at \in {"refresh", "fail", "replace"} =>
                /\ handlers[r].sid \in Sid /\ handlers[r].version \in Nat
                /\ handlers[r].tokens \in Tokens
           /\ handlers[r].at = "revoke" => handlers[r].tokens \in Tokens
<1>1. handlers[r] \in Handler
  BY DEF TypeOK
<1>2. QED
  BY <1>1 DEF Handler, Idle

\* What a sweep does: rows stay or go.
Trims(X) == \A x \in Sid \ X :
    \/ sessions'[x] = sessions[x]
    \/ Present(sessions, x) /\ sessions'[x] = Gone

LEMMA SweptRows ==
    ASSUME TypeOK, NEW t \in Nat
    PROVE  /\ Swept(t) \in Table
           /\ \A s \in Sid :
                \/ Swept(t)[s] = sessions[s]
                \/ Present(sessions, s) /\ Swept(t)[s] = Gone /\ t >= sessions[s].expires
           /\ \A s \in Sid : Present(Swept(t), s) => Swept(t)[s] = sessions[s]
<1>1. sessions \in Table
  BY Zenon DEF TypeOK, Table
<1>2. CASE ~SweepDue(t)
  BY <1>1, <1>2, Zenon DEF Swept
<1>3. CASE SweepDue(t)
  <2>1. Swept(t) = [s \in Sid |-> IF Present(sessions, s) /\ t >= sessions[s].expires
                                 THEN Gone ELSE sessions[s]]
    BY <1>3, Zenon DEF Swept
  <2>2. QED
    BY <1>1, <2>1, Kinds, Zenon DEF Table, Present
<1>4. QED
  BY <1>2, <1>3, Zenon

\* A row that is written over a sweep.
LEMMA SweptUpdate ==
    ASSUME TypeOK, NEW t \in Nat, NEW s \in Sid, NEW row \in Row \cup {Unused, Gone},
           sessions' = [Swept(t) EXCEPT ![s] = row]
    PROVE  sessions' \in Table /\ sessions'[s] = row /\ Trims({s})
<1>1. Swept(t) \in Table
  BY SweptRows, Zenon
<1>2. /\ sessions' \in Table /\ sessions'[s] = row
      /\ \A x \in Sid \ {s} : sessions'[x] = Swept(t)[x]
  BY <1>1, Zenon DEF Table
<1>3. QED
  BY <1>2, SweptRows, Zenon DEF Trims

LEMMA SweptOnly ==
    ASSUME TypeOK, NEW t \in Nat, sessions' = Swept(t)
    PROVE  sessions' \in Table /\ Trims({})
BY SweptRows, Zenon DEF Trims

\* A row that is read before the sweep and not expired is still there after it.
LEMMA ReadableSwept ==
    ASSUME TypeOK, NEW s \in Sid, Readable(s)
    PROVE  Present(sessions, s) /\ sessions[s] \in Row /\ Swept(now)[s] = sessions[s]
<1>1. sessions \in Table /\ now \in Nat
  BY Zenon DEF TypeOK, Table
<1>2. Present(sessions, s) /\ sessions[s] \in Row /\ sessions[s].expires \in Nat
  BY <1>1, RowFacts, Zenon DEF Readable
<1>3. ~(now >= sessions[s].expires)
  BY <1>1, <1>2 DEF Readable
<1>4. QED
  BY <1>1, <1>2, <1>3, SweptRows, Zenon

-----------------------------------------------------------------------------
(* What the steps do to the rows.                                          *)

LEMMA NewRow ==
    ASSUME NEW t \in Nat
    PROVE  /\ NewSession(t) \in Row
           /\ NewSession(t).pending = None /\ NewSession(t).identity = None
           /\ NewSession(t).tokens = NoTokens
<1>1. t + SessionTTL \in Nat
  BY LimitAssumption
<1>2. QED
  BY <1>1 DEF NewSession, Row, None

LEMMA CreateRows ==
    ASSUME TypeOK, NEW r \in Request, NEW s \in Sid, CreateSession(r, s)
    PROVE  /\ sessions' \in Table /\ Trims({s}) /\ sessions[s] = Unused
           /\ \/ /\ sessions'[s] = NewSession(now)
                 /\ Become(r, [at |-> "begin", sid |-> s, time |-> now])
              \/ sessions'[s] = Unused /\ handlers' = handlers
<1>1. now \in Nat /\ NewSession(now) \in Row /\ sessions[s] = Unused
  BY NewRow, Zenon DEF TypeOK, CreateSession, Fresh
<1>2. Swept(now)[s] = Unused
  BY <1>1, SweptRows, Kinds, Zenon DEF Present
<1>3. CASE HasRoom(Swept(now))
  <2>1. /\ sessions' = [Swept(now) EXCEPT ![s] = NewSession(now)]
        /\ Become(r, [at |-> "begin", sid |-> s, time |-> now])
    BY <1>3, Zenon DEF CreateSession
  <2>2. QED
    BY <1>1, <2>1, SweptUpdate, Zenon
<1>4. CASE ~HasRoom(Swept(now))
  <2>1. sessions' = Swept(now) /\ handlers' = handlers
    BY <1>4, Zenon DEF CreateSession
  <2>2. sessions' \in Table /\ Trims({})
    BY <1>1, <2>1, SweptOnly, Zenon
  <2>3. QED
    BY <1>1, <1>2, <2>1, <2>2, Zenon DEF Trims
<1>5. QED
  BY <1>3, <1>4, Zenon

\* Two fields of one row written together are one new row.
LEMMA BeginFields ==
    ASSUME NEW table \in Table, NEW s \in Sid, NEW v, NEW w
    PROVE  [table EXCEPT ![s].pending = v, ![s].expires = w]
             = [table EXCEPT ![s] = [table[s] EXCEPT !.pending = v, !.expires = w]]
BY Zenon DEF Table

LEMMA ClaimFields ==
    ASSUME NEW table \in Table, NEW s \in Sid, NEW v, NEW w
    PROVE  [table EXCEPT ![s].version = v, ![s].inFlight = w]
             = [table EXCEPT ![s] = [table[s] EXCEPT !.version = v, !.inFlight = w]]
BY Zenon DEF Table

LEMMA SettleFields ==
    ASSUME NEW table \in Table, NEW s \in Sid, NEW v, NEW w
    PROVE  [table EXCEPT ![s].tokens = v, ![s].inFlight = w]
             = [table EXCEPT ![s] = [table[s] EXCEPT !.tokens = v, !.inFlight = w]]
BY Zenon DEF Table

LEMMA LogoutFields ==
    ASSUME NEW table \in Table, NEW s \in Sid, NEW v, NEW w
    PROVE  [table EXCEPT ![s].logout = v, ![s].logoutAt = w]
             = [table EXCEPT ![s] = [table[s] EXCEPT !.logout = v, !.logoutAt = w]]
BY Zenon DEF Table

\* A row of the table is written over: everything else stays or goes.
Writes(s, row) ==
    /\ sessions' \in Table /\ Trims({s})
    /\ Present(sessions, s) /\ sessions[s] \in Row
    /\ sessions'[s] = row /\ row \in Row

LEMMA SweptPresent ==
    ASSUME TypeOK, NEW t \in Nat, NEW s \in Sid, Present(Swept(t), s)
    PROVE  Present(sessions, s) /\ sessions[s] \in Row /\ Swept(t)[s] = sessions[s]
<1>1. Swept(t) \in Table /\ Swept(t)[s] = sessions[s]
  BY SweptRows, Zenon
<1>2. QED
  BY <1>1, RowFacts, Zenon DEF Present

LEMMA BeginRows ==
    ASSUME TypeOK, NEW r \in Request, NEW a \in Attempt, BeginAuthorization(r, a)
    PROVE  \/ /\ Writes(handlers[r].sid,
                        [sessions[handlers[r].sid] EXCEPT !.pending = a,
                             !.expires = handlers[r].time + SessionTTL])
              /\ attempts' = [attempts EXCEPT ![a] = handlers[r].time]
              /\ superseded' = superseded \cup ({sessions[handlers[r].sid].pending} \ {None})
           \/ /\ sessions' \in Table /\ Trims({})
              /\ attempts' = attempts /\ superseded' = superseded
<1> DEFINE q == handlers[r]
           row == [sessions[q.sid] EXCEPT !.pending = a, !.expires = q.time + SessionTTL]
           current == Present(Swept(q.time), q.sid) /\ q.time < Swept(q.time)[q.sid].expires
<1>1. q.at = "begin" /\ q.sid \in Sid /\ q.time \in Nat
  BY HandlerFacts, Zenon DEF BeginAuthorization
<1>2. CASE current
  <2>1. /\ sessions' = [Swept(q.time) EXCEPT ![q.sid].pending = a,
                                             ![q.sid].expires = q.time + SessionTTL]
        /\ attempts' = [attempts EXCEPT ![a] = q.time]
        /\ superseded' = superseded \cup ({Swept(q.time)[q.sid].pending} \ {None})
    BY <1>2, Zenon DEF BeginAuthorization
  <2>2. Present(sessions, q.sid) /\ sessions[q.sid] \in Row /\ Swept(q.time)[q.sid] = sessions[q.sid]
    BY <1>1, <1>2, SweptPresent, Zenon
  <2>3. q.time + SessionTTL \in Nat
    BY <1>1, LimitAssumption
  <2>4. row \in Row
    BY <2>2, <2>3, Zenon DEF Row
  <2>5. Swept(q.time) \in Table
    BY <1>1, SweptRows, Zenon
  <2>6. sessions' = [Swept(q.time) EXCEPT ![q.sid] = row]
    <3> DEFINE table == Swept(q.time)
               end == q.time + SessionTTL
    <3> HIDE DEF table, end
    <3>1. table \in Table
      BY <2>5 DEF table
    <3>2. [table EXCEPT ![q.sid].pending = a, ![q.sid].expires = end]
            = [table EXCEPT ![q.sid] = [table[q.sid] EXCEPT !.pending = a, !.expires = end]]
      BY <1>1, <3>1, BeginFields, ZenonT(40)
    <3>3. QED
      BY <2>1, <2>2, <3>2, Zenon DEF table, end
  <2> HIDE DEF row
  <2>7. sessions' \in Table /\ sessions'[q.sid] = row /\ Trims({q.sid})
    BY <1>1, <2>4, <2>6, SweptUpdate, Zenon
  <2>8. Writes(q.sid, row)
    BY <2>2, <2>4, <2>7, Zenon DEF Writes
  <2>9. QED
    BY <2>1, <2>2, <2>8, Zenon DEF row
<1>3. CASE ~current
  <2>1. sessions' = Swept(q.time) /\ attempts' = attempts /\ superseded' = superseded
    BY <1>3, Zenon DEF BeginAuthorization
  <2>2. QED
    BY <1>1, <2>1, SweptOnly, Zenon
<1>4. QED
  BY <1>2, <1>3, Zenon

LEMMA ClearRows ==
    ASSUME TypeOK, NEW r \in Request, ClearPending(r)
    PROVE  \/ /\ Writes(handlers[r].sid, [sessions[handlers[r].sid] EXCEPT !.pending = None])
              /\ sessions[handlers[r].sid].pending = handlers[r].attempt
              /\ superseded' = superseded \cup {handlers[r].attempt}
           \/ sessions' \in Table /\ Trims({}) /\ superseded' = superseded
<1> DEFINE q == handlers[r]
           row == [sessions[q.sid] EXCEPT !.pending = None]
<1>1. q.sid \in Sid /\ q.attempt \in Attempt /\ now \in Nat
  BY HandlerFacts, Zenon DEF ClearPending, TypeOK
<1>2. CASE StillPending(Swept(now), q)
  <2>1. /\ sessions' = [Swept(now) EXCEPT ![q.sid].pending = None]
        /\ superseded' = superseded \cup {q.attempt}
    BY <1>2, Zenon DEF ClearPending
  <2>2. /\ Present(sessions, q.sid) /\ sessions[q.sid] \in Row
        /\ Swept(now)[q.sid] = sessions[q.sid] /\ sessions[q.sid].pending = q.attempt
    BY <1>1, <1>2, SweptPresent, Zenon DEF StillPending
  <2>3. row \in Row
    BY <2>2, Zenon DEF Row
  <2>4. sessions' = [Swept(now) EXCEPT ![q.sid] = row]
    BY <2>1, <2>2, Zenon
  <2>5. sessions' \in Table /\ sessions'[q.sid] = row /\ Trims({q.sid})
    BY <1>1, <2>3, <2>4, SweptUpdate, Zenon
  <2>6. QED
    BY <2>1, <2>2, <2>3, <2>5, Zenon DEF Writes
<1>3. CASE ~StillPending(Swept(now), q)
  <2>1. sessions' = Swept(now) /\ superseded' = superseded
    BY <1>3, Zenon DEF ClearPending
  <2>2. QED
    BY <1>1, <2>1, SweptOnly, Zenon
<1>4. QED
  BY <1>2, <1>3, Zenon

LEMMA ClaimRows ==
    ASSUME TypeOK, NEW r \in Request, NEW s \in Sid, ClaimRefresh(r, s)
    PROVE  /\ Writes(s, [sessions[s] EXCEPT !.version = sessions[s].version + 1,
                                            !.inFlight = sessions[s].version + 1])
           /\ sessions[s].version \in Nat /\ sessions[s].inFlight = None
           /\ sessions[s].tokens \in Tokens
<1> DEFINE v == sessions[s].version + 1
           row == [sessions[s] EXCEPT !.version = v, !.inFlight = v]
<1>1. /\ now \in Nat /\ sessions \in Table /\ Readable(s) /\ Claimable(s)
      /\ sessions' = [Swept(now) EXCEPT ![s].version = v, ![s].inFlight = v]
  BY Zenon DEF TypeOK, Table, ClaimRefresh
<1>2. Present(sessions, s) /\ sessions[s] \in Row /\ Swept(now)[s] = sessions[s]
  BY <1>1, ReadableSwept, Zenon
<1>3. /\ sessions[s].version \in Nat /\ sessions[s].inFlight = None
      /\ sessions[s].tokens \in Tokens
  BY <1>1, <1>2, RowFacts, Zenon DEF Claimable
<1>4. v \in Nat
  BY <1>3
<1>5. row \in Row
  BY <1>2, <1>4, Zenon DEF Row
<1>6. sessions' = [Swept(now) EXCEPT ![s] = row]
  <2>1. Swept(now) \in Table
    BY <1>1, SweptRows, Zenon
  <2>2. [Swept(now) EXCEPT ![s].version = v, ![s].inFlight = v]
          = [Swept(now) EXCEPT ![s] = [Swept(now)[s] EXCEPT !.version = v, !.inFlight = v]]
    <3> HIDE DEF v
    <3>1. QED
      BY <2>1, ClaimFields, ZenonT(40)
  <2>3. QED
    BY <1>1, <1>2, <2>2, Zenon
<1>7. sessions' \in Table /\ sessions'[s] = row /\ Trims({s})
  BY <1>1, <1>5, <1>6, SweptUpdate, Zenon
<1>8. QED
  BY <1>2, <1>3, <1>5, <1>7, Zenon DEF Writes

LEMMA SettleRows ==
    ASSUME TypeOK, NEW r \in Request, handlers[r].at \in {"replace", "fail"},
           NEW tokens \in Tokens \cup {NoTokens}, NEW otherwise,
           Settle(r, tokens, otherwise)
    PROVE  \/ /\ Writes(handlers[r].sid, [sessions[handlers[r].sid] EXCEPT !.tokens = tokens,
                                                                          !.inFlight = None])
              /\ Become(r, Idle)
           \/ sessions' \in Table /\ Trims({}) /\ Become(r, otherwise)
<1> DEFINE q == handlers[r]
           row == [sessions[q.sid] EXCEPT !.tokens = tokens, !.inFlight = None]
<1>1. q.sid \in Sid /\ now \in Nat
  BY HandlerFacts, Zenon DEF TypeOK
<1>2. CASE StillClaimed(Swept(now), q)
  <2>1. /\ sessions' = [Swept(now) EXCEPT ![q.sid].tokens = tokens, ![q.sid].inFlight = None]
        /\ Become(r, Idle)
    BY <1>2, Zenon DEF Settle
  <2>2. /\ Present(sessions, q.sid) /\ sessions[q.sid] \in Row
        /\ Swept(now)[q.sid] = sessions[q.sid]
    BY <1>1, <1>2, SweptPresent, Zenon DEF StillClaimed
  <2>3. row \in Row
    BY <2>2, Zenon DEF Row, None
  <2>4. Swept(now) \in Table
    BY <1>1, SweptRows, Zenon
  <2>5. sessions' = [Swept(now) EXCEPT ![q.sid] = row]
    <3>1. [Swept(now) EXCEPT ![q.sid].tokens = tokens, ![q.sid].inFlight = None]
            = [Swept(now) EXCEPT ![q.sid] = [Swept(now)[q.sid] EXCEPT !.tokens = tokens,
                                                                     !.inFlight = None]]
      BY <1>1, <2>4, SettleFields, ZenonT(40)
    <3>2. QED
      BY <2>1, <2>2, <3>1, Zenon
  <2> HIDE DEF row
  <2>6. sessions' \in Table /\ sessions'[q.sid] = row /\ Trims({q.sid})
    BY <1>1, <2>3, <2>5, SweptUpdate, Zenon
  <2>7. Writes(q.sid, row)
    BY <2>2, <2>3, <2>6, Zenon DEF Writes
  <2>8. QED
    BY <2>1, <2>7, Zenon DEF row
<1>3. CASE ~StillClaimed(Swept(now), q)
  <2>1. sessions' = Swept(now) /\ Become(r, otherwise)
    BY <1>3, Zenon DEF Settle
  <2>2. QED
    BY <1>1, <2>1, SweptOnly, Zenon
<1>4. QED
  BY <1>2, <1>3, Zenon

LEMMA LogoutRows ==
    ASSUME TypeOK, NEW s \in Sid, BeginLogout(s)
    PROVE  Writes(s, [sessions[s] EXCEPT !.logout = logouts + 1, !.logoutAt = now])
<1> DEFINE row == [sessions[s] EXCEPT !.logout = logouts + 1, !.logoutAt = now]
<1>1. /\ now \in Nat /\ Readable(s)
      /\ sessions' = [Swept(now) EXCEPT ![s].logout = logouts + 1, ![s].logoutAt = now]
  BY Zenon DEF TypeOK, BeginLogout
<1>2. Present(sessions, s) /\ sessions[s] \in Row /\ Swept(now)[s] = sessions[s]
  BY <1>1, ReadableSwept, Zenon
<1>3. logouts + 1 \in Nat
  BY LimitAssumption DEF TypeOK
<1>4. row \in Row
  BY <1>1, <1>2, <1>3, Zenon DEF Row
<1>5. Swept(now) \in Table
  BY <1>1, SweptRows, Zenon
<1>6. sessions' = [Swept(now) EXCEPT ![s] = row]
  <2> DEFINE n == logouts + 1
  <2> HIDE DEF n
  <2>1. [Swept(now) EXCEPT ![s].logout = n, ![s].logoutAt = now]
          = [Swept(now) EXCEPT ![s] = [Swept(now)[s] EXCEPT !.logout = n, !.logoutAt = now]]
    BY <1>5, LogoutFields, ZenonT(40)
  <2>2. QED
    BY <1>1, <1>2, <2>1, Zenon DEF n
<1>. HIDE DEF row
<1>7. sessions' \in Table /\ sessions'[s] = row /\ Trims({s})
  BY <1>1, <1>4, <1>6, SweptUpdate, Zenon
<1>8. Writes(s, row)
  BY <1>2, <1>4, <1>7, Zenon DEF Writes
<1>9. QED
  BY <1>8, Zenon DEF row

\* Signing out and finding a session expired only take rows away.
LEMMA EndRows ==
    ASSUME TypeOK, NEW s \in Sid, FinishLogout(s) \/ GetExpired(s)
    PROVE  sessions' \in Table /\ Trims({})
<1>1. now \in Nat /\ sessions \in Table /\ Present(sessions, s)
  BY Zenon DEF TypeOK, Table, FinishLogout, GetExpired, Readable
<1>2. CASE FinishLogout(s)
  <2>1. sessions' = [Swept(now) EXCEPT ![s] = Gone]
    BY <1>2, Zenon DEF FinishLogout
  <2>2. sessions' \in Table /\ sessions'[s] = Gone /\ Trims({s})
    BY <1>1, <2>1, SweptUpdate, Zenon
  <2>3. QED
    BY <1>1, <2>2, Zenon DEF Trims
<1>3. CASE GetExpired(s)
  <2>1. sessions' = [sessions EXCEPT ![s] = Gone]
    BY <1>3, Zenon DEF GetExpired
  <2>2. QED
    BY <1>1, <2>1, Zenon DEF Trims, Table
<1>4. QED
  BY <1>2, <1>3, Zenon

LEMMA SignedInRow ==
    ASSUME NEW q, q.attempt \in Attempt, q.tokens \in Tokens, now \in Nat
    PROVE  /\ SignedIn(q) \in Row
           /\ SignedIn(q).pending = None /\ SignedIn(q).identity = q.attempt
           /\ SignedIn(q).tokens = q.tokens /\ SignedIn(q).inFlight = None
<1> DEFINE new == NewSession(now)
<1>1. new \in Row /\ new.pending = None /\ new.inFlight = None
  BY NewRow DEF NewSession
<1>2. SignedIn(q) = [new EXCEPT !.identity = q.attempt, !.tokens = q.tokens]
  BY Zenon DEF SignedIn
<1> HIDE DEF new
<1>3. QED
  BY <1>1, <1>2, Zenon DEF Row

LEMMA CompleteRows ==
    ASSUME TypeOK, NEW r \in Request, NEW s \in Sid, CompleteWithTokens(r, s)
    PROVE  /\ sessions[s] = Unused
           /\ \/ /\ sessions' \in Table /\ Trims({handlers[r].sid, s})
                 /\ Present(sessions, handlers[r].sid)
                 /\ sessions[handlers[r].sid].pending = handlers[r].attempt
                 /\ handlers[r].sid # s /\ sessions'[handlers[r].sid] = Gone
                 /\ sessions'[s] = SignedIn(handlers[r]) /\ Become(r, Idle)
              \/ /\ sessions' \in Table /\ Trims({})
                 /\ Become(r, [at |-> "revoke", tokens |-> handlers[r].tokens])
<1> DEFINE q == handlers[r]
<1>1. q.sid \in Sid /\ q.attempt \in Attempt /\ q.tokens \in Tokens /\ now \in Nat
  BY HandlerFacts, Zenon DEF CompleteWithTokens, TypeOK
<1>2. sessions[s] = Unused
  BY Zenon DEF CompleteWithTokens, Fresh
<1>3. CASE StillPending(Swept(now), q)
  <2>1. /\ sessions' = [Swept(now) EXCEPT ![q.sid] = Gone, ![s] = SignedIn(q)]
        /\ Become(r, Idle)
    BY <1>3, Zenon DEF CompleteWithTokens
  <2>2. Present(sessions, q.sid) /\ sessions[q.sid].pending = q.attempt
    BY <1>1, <1>3, SweptPresent, Zenon DEF StillPending
  <2>3. q.sid # s
    BY <1>2, <2>2, Kinds, Zenon DEF Present
  <2>4. SignedIn(q) \in Row
    BY <1>1, SignedInRow, Zenon
  <2>5. Swept(now) \in Table
    BY <1>1, SweptRows, Zenon
  <2>6. /\ sessions' \in Table /\ sessions'[q.sid] = Gone /\ sessions'[s] = SignedIn(q)
        /\ \A x \in Sid \ {q.sid, s} : sessions'[x] = Swept(now)[x]
    BY <1>1, <2>1, <2>3, <2>4, <2>5, Zenon DEF Table
  <2>7. Trims({q.sid, s})
    BY <1>1, <2>6, SweptRows, Zenon DEF Trims
  <2>8. QED
    BY <1>2, <2>1, <2>2, <2>3, <2>6, <2>7, Zenon
<1>4. CASE ~StillPending(Swept(now), q)
  <2>1. sessions' = Swept(now) /\ Become(r, [at |-> "revoke", tokens |-> q.tokens])
    BY <1>4, Zenon DEF CompleteWithTokens
  <2>2. QED
    BY <1>1, <1>2, <2>1, SweptOnly, Zenon
<1>5. QED
  BY <1>3, <1>4, Zenon

-----------------------------------------------------------------------------
(* Types.                                                                  *)

LEMMA BecomeFacts ==
    ASSUME TypeOK, NEW r \in Request, NEW what \in Handler, Become(r, what)
    PROVE  /\ handlers' \in [Request -> Handler] /\ handlers'[r] = what
           /\ \A q \in Request \ {r} : handlers'[q] = handlers[q]
BY Zenon DEF TypeOK, Become

\* The handlers a step can make.
LEMMA Made ==
    /\ Idle \in Handler
    /\ \A s \in Sid, t \in Nat : [at |-> "begin", sid |-> s, time |-> t] \in Handler
    /\ \A s \in Sid, a \in Attempt, at \in {"clear", "exchange"} :
           [at |-> at, sid |-> s, attempt |-> a] \in Handler
    /\ \A s \in Sid, a \in Attempt, t \in Tokens :
           [at |-> "verify", sid |-> s, attempt |-> a, tokens |-> t] \in Handler
    /\ \A s \in Sid, v \in Nat, t \in Tokens :
           [at |-> "refresh", sid |-> s, version |-> v, tokens |-> t] \in Handler
    /\ \A t \in Tokens : [at |-> "revoke", tokens |-> t] \in Handler
BY Zenon DEF Handler

\* The handlers that go on from what they were.
LEMMA GoesOn ==
    ASSUME TypeOK, NEW r \in Request
    PROVE  /\ handlers[r].at = "verify" =>
                /\ [handlers[r] EXCEPT !.at = "complete"] \in Handler
                /\ [handlers[r] EXCEPT !.at = "complete"] =
                     [at |-> "complete", sid |-> handlers[r].sid,
                      attempt |-> handlers[r].attempt, tokens |-> handlers[r].tokens]
           /\ handlers[r].at = "refresh" =>
                /\ [handlers[r] EXCEPT !.at = "fail"] \in Handler
                /\ [handlers[r] EXCEPT !.at = "fail"] =
                     [at |-> "fail", sid |-> handlers[r].sid,
                      version |-> handlers[r].version, tokens |-> handlers[r].tokens]
                /\ \A g \in Nat :
                     /\ [handlers[r] EXCEPT !.at = "replace", !.tokens.generation = g] \in Handler
                     /\ [handlers[r] EXCEPT !.at = "replace", !.tokens.generation = g] =
                          [at |-> "replace", sid |-> handlers[r].sid,
                           version |-> handlers[r].version,
                           tokens |-> [family |-> handlers[r].tokens.family, generation |-> g,
                                       offline |-> handlers[r].tokens.offline]]
<1>1. handlers[r] \in Handler
  BY Zenon DEF TypeOK
<1>2. ASSUME handlers[r].at = "verify"
      PROVE  handlers[r] \in [at : {"verify", "complete"}, sid : Sid, attempt : Attempt, tokens : Tokens]
  BY <1>1, <1>2 DEF Handler, Idle
<1>3. ASSUME handlers[r].at = "refresh"
      PROVE  handlers[r] \in [at : {"refresh", "fail", "replace"}, sid : Sid, version : Nat, tokens : Tokens]
  BY <1>1, <1>3 DEF Handler, Idle
<1>4. ASSUME NEW q \in [at : {"verify", "complete"}, sid : Sid, attempt : Attempt, tokens : Tokens]
      PROVE  [q EXCEPT !.at = "complete"] =
                [at |-> "complete", sid |-> q.sid, attempt |-> q.attempt, tokens |-> q.tokens]
  OBVIOUS
<1>5. ASSUME NEW q \in [at : {"refresh", "fail", "replace"}, sid : Sid, version : Nat, tokens : Tokens],
             NEW g \in Nat
      PROVE  /\ [q EXCEPT !.at = "fail"] =
                  [at |-> "fail", sid |-> q.sid, version |-> q.version, tokens |-> q.tokens]
             /\ [q EXCEPT !.at = "replace", !.tokens.generation = g] =
                  [at |-> "replace", sid |-> q.sid, version |-> q.version,
                   tokens |-> [family |-> q.tokens.family, generation |-> g,
                               offline |-> q.tokens.offline]]
  <2>1. [q EXCEPT !.at = "fail"] =
          [at |-> "fail", sid |-> q.sid, version |-> q.version, tokens |-> q.tokens]
    OBVIOUS
  <2> DEFINE t == [q.tokens EXCEPT !.generation = g]
  <2>2. t = [family |-> q.tokens.family, generation |-> g, offline |-> q.tokens.offline]
    BY DEF Tokens
  <2>3. [q EXCEPT !.at = "replace", !.tokens.generation = g]
          = [q EXCEPT !.at = "replace", !.tokens = t]
    OBVIOUS
  <2> HIDE DEF t
  <2> DEFINE n == [q EXCEPT !.at = "replace"]
  <2>4. [q EXCEPT !.at = "replace", !.tokens = t]
          = [at |-> "replace", sid |-> q.sid, version |-> q.version, tokens |-> t]
    <3>1. n \in [at : {"replace"}, sid : Sid, version : Nat, tokens : Tokens]
          /\ n.sid = q.sid /\ n.version = q.version
      OBVIOUS
    <3>2. [q EXCEPT !.at = "replace", !.tokens = t] = [n EXCEPT !.tokens = t]
      OBVIOUS
    <3> HIDE DEF n
    <3>3. [n EXCEPT !.tokens = t]
            = [at |-> "replace", sid |-> n.sid, version |-> n.version, tokens |-> t]
      BY <3>1
    <3>4. QED
      BY <3>1, <3>2, <3>3, Zenon
  <2>5. QED
    BY <2>1, <2>2, <2>3, <2>4, Zenon
<1>6. ASSUME handlers[r].at = "verify"
      PROVE  [handlers[r] EXCEPT !.at = "complete"] \in Handler
  <2>1. [handlers[r] EXCEPT !.at = "complete"]
          \in [at : {"verify", "complete"}, sid : Sid, attempt : Attempt, tokens : Tokens]
    BY <1>2, <1>6
  <2>2. QED
    BY <2>1, Zenon DEF Handler
<1>7. ASSUME handlers[r].at = "refresh", NEW g \in Nat
      PROVE  /\ [handlers[r] EXCEPT !.at = "fail"] \in Handler
             /\ [handlers[r] EXCEPT !.at = "replace", !.tokens.generation = g] \in Handler
  <2>1. /\ [handlers[r] EXCEPT !.at = "fail"]
             \in [at : {"refresh", "fail", "replace"}, sid : Sid, version : Nat, tokens : Tokens]
        /\ [handlers[r] EXCEPT !.at = "replace", !.tokens.generation = g]
             \in [at : {"refresh", "fail", "replace"}, sid : Sid, version : Nat, tokens : Tokens]
    BY <1>3, <1>7, Zenon DEF Tokens
  <2>2. QED
    BY <2>1, Zenon DEF Handler
<1>8. QED
  BY <1>2, <1>3, <1>4, <1>5, <1>6, <1>7, Zenon

LEMMA SweepType ==
    ASSUME TypeOK, NEW t \in Nat, Sweep(t)
    PROVE  nextSweep' \in Nat
<1>1. t + SweepInterval \in Nat /\ nextSweep \in Nat
  BY LimitAssumption DEF TypeOK
<1>2. QED
  BY <1>1, Zenon DEF Sweep

\* Steps that change sessions and handlers only.
Frame == UNCHANGED <<now, attempts, logouts, answers, families, reused, superseded, disowned>>

LEMMA TypeOf ==
    ASSUME TypeOK, nextSweep' \in Nat, sessions' \in Table, cookies' \subseteq Sid,
           handlers' \in [Request -> Handler], Frame
    PROVE  TypeOK'
BY Zenon DEF TypeOK, Table, Frame

LEMMA Fields ==
    ASSUME TypeOK
    PROVE  /\ now \in Nat /\ nextSweep \in Nat /\ sessions \in Table /\ cookies \subseteq Sid
           /\ handlers \in [Request -> Handler]
BY Zenon DEF TypeOK, Table

LEMMA BeginLoginType ==
    ASSUME TypeOK, NEW r \in Request, NEW s \in Sid, BeginLogin(r, s)
    PROVE  TypeOK'
<1>1. /\ Become(r, [at |-> "begin", sid |-> s, time |-> now]) /\ Frame
      /\ sessions' = sessions /\ nextSweep' = nextSweep /\ cookies' = cookies
  BY Zenon DEF BeginLogin, Frame, provider
<1>2. handlers' \in [Request -> Handler]
  BY <1>1, BecomeFacts, Made, Fields, Zenon
<1>3. QED
  BY <1>1, <1>2, Fields, TypeOf, Zenon

LEMMA CreateSessionType ==
    ASSUME TypeOK, NEW r \in Request, NEW s \in Sid, CreateSession(r, s)
    PROVE  TypeOK'
<1>1. Frame /\ Sweep(now) /\ cookies' = cookies
  BY Zenon DEF CreateSession, Frame, provider
<1>2. handlers' \in [Request -> Handler]
  BY CreateRows, BecomeFacts, Made, Fields, Zenon
<1>3. QED
  BY <1>1, <1>2, CreateRows, SweepType, Fields, TypeOf, Zenon

LEMMA BeginAuthorizationType ==
    ASSUME TypeOK, NEW r \in Request, NEW a \in Attempt, BeginAuthorization(r, a)
    PROVE  TypeOK'
<1>1. /\ now' = now /\ logouts' = logouts /\ answers' = answers /\ families' = families
      /\ reused' = reused /\ disowned' = disowned
      /\ Become(r, Idle) /\ Sweep(handlers[r].time)
      /\ cookies' \in {cookies, cookies \cup {handlers[r].sid}}
  BY Zenon DEF BeginAuthorization, provider
<1>2. handlers[r].sid \in Sid /\ handlers[r].time \in Nat
  BY HandlerFacts, Zenon DEF BeginAuthorization
<1>3. handlers' \in [Request -> Handler] /\ nextSweep' \in Nat /\ cookies' \subseteq Sid
  BY <1>1, <1>2, BecomeFacts, Made, SweepType, Fields, Zenon
<1>4. sessions' \in Table
  BY BeginRows, Zenon DEF Writes
<1>5. attempts' \in [Attempt -> Nat \cup {MaxNow + 1}]
  BY <1>2, BeginRows, Zenon DEF TypeOK
<1>6. superseded' \subseteq Attempt
  <2>1. ASSUME Present(sessions, handlers[r].sid)
        PROVE  sessions[handlers[r].sid].pending \in Attempt \cup {None}
    BY <1>2, <2>1, RowFacts, Fields, Zenon
  <2>2. superseded \subseteq Attempt
    BY Zenon DEF TypeOK
  <2>3. QED
    BY <2>1, <2>2, BeginRows, Zenon DEF Writes
<1>7. QED
  BY <1>1, <1>3, <1>4, <1>5, <1>6, Zenon DEF TypeOK, Table

LEMMA CallbackType ==
    ASSUME TypeOK, NEW r \in Request, NEW s \in Sid, Callback(r, s)
    PROVE  TypeOK'
<1> DEFINE a == sessions[s].pending
<1>1. /\ Become(r, [at |-> IF answers[a] = "code" THEN "exchange" ELSE "clear",
                    sid |-> s, attempt |-> a])
      /\ Readable(s) /\ a # None /\ Frame
      /\ sessions' = sessions /\ nextSweep' = nextSweep /\ cookies' = cookies
  BY Zenon DEF Callback, Frame, provider
<1>2. a \in Attempt
  BY <1>1, RowFacts, Fields, Zenon DEF Readable
<1>3. \E at \in {"clear", "exchange"} : Become(r, [at |-> at, sid |-> s, attempt |-> a])
  BY <1>1, Zenon
<1>4. handlers' \in [Request -> Handler]
  BY <1>2, <1>3, BecomeFacts, Made, Zenon
<1>5. QED
  BY <1>1, <1>4, Fields, TypeOf, Zenon

LEMMA ClearPendingType ==
    ASSUME TypeOK, NEW r \in Request, ClearPending(r)
    PROVE  TypeOK'
<1>1. /\ now' = now /\ attempts' = attempts /\ logouts' = logouts /\ answers' = answers
      /\ families' = families /\ reused' = reused /\ disowned' = disowned
      /\ cookies' = cookies /\ Become(r, Idle) /\ Sweep(now)
  BY Zenon DEF ClearPending, provider
<1>2. handlers[r].attempt \in Attempt
  BY HandlerFacts, Zenon DEF ClearPending
<1>3. handlers' \in [Request -> Handler] /\ nextSweep' \in Nat
  BY <1>1, BecomeFacts, Made, SweepType, Fields, Zenon
<1>4. sessions' \in Table
  BY ClearRows, Zenon DEF Writes
<1>5. superseded' \subseteq superseded \cup {handlers[r].attempt}
  BY ClearRows, Zenon
<1>6. QED
  BY <1>1, <1>2, <1>3, <1>4, <1>5, Zenon DEF TypeOK, Table

Families == [Attempt -> [state : {"none", "live", "revoked"}, generation : Nat]]

LEMMA FamilyUpdate ==
    ASSUME TypeOK, NEW f \in Attempt
    PROVE  /\ families \in Families
           /\ families[f].generation \in Nat /\ families[f].state \in {"none", "live", "revoked"}
           /\ \A x \in {"live", "revoked"} :
                /\ [families EXCEPT ![f].state = x] \in Families
                /\ [families EXCEPT ![f].state = x][f] =
                     [state |-> x, generation |-> families[f].generation]
           /\ \A g \in Nat :
                /\ [families EXCEPT ![f].generation = g] \in Families
                /\ [families EXCEPT ![f].generation = g][f] =
                     [state |-> families[f].state, generation |-> g]
BY DEF TypeOK, Families

\* What the exchange of a code does: a new family whose tokens the handler
\* holds or has lost, or nothing.
LEMMA ExchangeMoves ==
    ASSUME TypeOK, NEW r \in Request, Exchange(r)
    PROVE  /\ handlers[r].at = "exchange" /\ handlers[r].attempt \in Attempt
           /\ UNCHANGED <<now, sessions, nextSweep, attempts, cookies, logouts, answers,
                          reused, superseded, disowned>>
           /\ \/ /\ families[handlers[r].attempt].state = "none"
                 /\ families' = [families EXCEPT ![handlers[r].attempt].state = "live"]
                 /\ \E o \in BOOLEAN :
                      Become(r, [at |-> "verify", sid |-> handlers[r].sid,
                                 attempt |-> handlers[r].attempt,
                                 tokens |-> [family |-> handlers[r].attempt,
                                             generation |-> 0, offline |-> o]])
              \/ /\ families[handlers[r].attempt].state = "none"
                 /\ families' = [families EXCEPT ![handlers[r].attempt].state = "live"]
                 /\ Become(r, Idle)
              \/ families' = families /\ Become(r, Idle)
<1>1. handlers[r].at = "exchange"
  BY Zenon DEF Exchange
<1>2. QED
  BY <1>1, HandlerFacts, Zenon DEF Exchange

LEMMA ExchangeType ==
    ASSUME TypeOK, NEW r \in Request, Exchange(r)
    PROVE  TypeOK'
<1> DEFINE f == handlers[r].attempt
           issued(o) == [family |-> f, generation |-> 0, offline |-> o]
<1>1. f \in Attempt /\ handlers[r].sid \in Sid
  BY ExchangeMoves, HandlerFacts, Zenon
<1>2. \A o \in BOOLEAN : issued(o) \in Tokens
  BY <1>1 DEF Tokens
<1>3. handlers' \in [Request -> Handler]
  <2> HIDE DEF issued
  <2>1. \/ \E o \in BOOLEAN : Become(r, [at |-> "verify", sid |-> handlers[r].sid,
                                         attempt |-> f, tokens |-> issued(o)])
        \/ Become(r, Idle)
    BY ExchangeMoves, Zenon DEF issued
  <2>2. QED
    BY <1>1, <1>2, <2>1, BecomeFacts, Made, Zenon
<1>4. families' \in Families
  <2>1. families \in Families /\ [families EXCEPT ![f].state = "live"] \in Families
    BY <1>1, FamilyUpdate, Zenon
  <2>2. QED
    BY <2>1, ExchangeMoves, Zenon
<1>5. QED
  BY <1>3, <1>4, ExchangeMoves, Zenon DEF TypeOK, Families

LEMMA VerifyType ==
    ASSUME TypeOK, NEW r \in Request, Verify(r)
    PROVE  TypeOK'
<1>1. /\ handlers[r].at = "verify" /\ Frame
      /\ sessions' = sessions /\ nextSweep' = nextSweep /\ cookies' = cookies
      /\ \/ Become(r, [handlers[r] EXCEPT !.at = "complete"])
         \/ Become(r, [at |-> "revoke", tokens |-> handlers[r].tokens])
  BY Zenon DEF Verify, Frame, provider
<1>2. handlers[r].tokens \in Tokens /\ [handlers[r] EXCEPT !.at = "complete"] \in Handler
  BY <1>1, HandlerFacts, GoesOn, Zenon
<1>3. handlers' \in [Request -> Handler]
  BY <1>1, <1>2, BecomeFacts, Made, Zenon
<1>4. QED
  BY <1>1, <1>3, Fields, TypeOf, Zenon

LEMMA CompleteType ==
    ASSUME TypeOK, NEW r \in Request, NEW s \in Sid, CompleteWithTokens(r, s)
    PROVE  TypeOK'
<1>1. /\ handlers[r].at = "complete" /\ Frame /\ Sweep(now)
      /\ cookies' \in {cookies, cookies \cup {s}}
  BY Zenon DEF CompleteWithTokens, Frame, provider
<1>2. handlers[r].tokens \in Tokens
  BY <1>1, HandlerFacts, Zenon
<1>3. handlers' \in [Request -> Handler]
  BY <1>2, CompleteRows, BecomeFacts, Made, Zenon
<1>4. cookies' \subseteq Sid /\ nextSweep' \in Nat
  BY <1>1, Fields, SweepType, Zenon
<1>5. sessions' \in Table
  BY CompleteRows, Zenon
<1>6. QED
  BY <1>1, <1>3, <1>4, <1>5, TypeOf, Zenon

LEMMA RevokeMoves ==
    ASSUME TypeOK, NEW r \in Request, Revoke(r)
    PROVE  /\ handlers[r].at = "revoke" /\ handlers[r].tokens \in Tokens
           /\ handlers[r].tokens.family \in Attempt
           /\ disowned' = disowned \cup {handlers[r].tokens.family}
           /\ \/ families' = families
              \/ families' = [families EXCEPT ![handlers[r].tokens.family].state = "revoked"]
           /\ Become(r, Idle)
           /\ UNCHANGED <<now, sessions, nextSweep, attempts, cookies, logouts, answers,
                          reused, superseded>>
<1>1. handlers[r].at = "revoke"
  BY Zenon DEF Revoke
<1>2. handlers[r].tokens \in Tokens /\ handlers[r].tokens.family \in Attempt
  BY <1>1, HandlerFacts, Kinds, Zenon
<1>3. QED
  BY <1>1, <1>2, Zenon DEF Revoke

LEMMA RevokeType ==
    ASSUME TypeOK, NEW r \in Request, Revoke(r)
    PROVE  TypeOK'
<1>1. handlers' \in [Request -> Handler]
  BY RevokeMoves, BecomeFacts, Made, Zenon
<1>2. families' \in Families
  <2> DEFINE f == handlers[r].tokens.family
  <2>1. f \in Attempt
    BY RevokeMoves, Zenon
  <2>2. families \in Families /\ [families EXCEPT ![f].state = "revoked"] \in Families
    BY <2>1, FamilyUpdate, Zenon
  <2>3. QED
    BY <2>2, RevokeMoves, Zenon
<1>3. /\ now' = now /\ sessions' = sessions /\ nextSweep' = nextSweep /\ attempts' = attempts
      /\ cookies' = cookies /\ logouts' = logouts /\ answers' = answers /\ reused' = reused
      /\ superseded' = superseded
  BY RevokeMoves, Zenon
<1>4. disowned' \subseteq Attempt
  BY RevokeMoves, Zenon DEF TypeOK
<1>5. QED
  BY <1>1, <1>2, <1>3, <1>4, Zenon DEF TypeOK, Families

LEMMA ClaimRefreshType ==
    ASSUME TypeOK, NEW r \in Request, NEW s \in Sid, ClaimRefresh(r, s)
    PROVE  TypeOK'
<1>1. /\ Frame /\ Sweep(now) /\ cookies' = cookies
      /\ Become(r, [at |-> "refresh", sid |-> s, version |-> sessions[s].version + 1,
                    tokens |-> sessions[s].tokens])
  BY Zenon DEF ClaimRefresh, Frame, provider
<1>2. sessions[s].version + 1 \in Nat
  <2>1. sessions[s].version \in Nat
    BY ClaimRows, Zenon
  <2>2. QED
    BY <2>1
<1>3. handlers' \in [Request -> Handler]
  BY <1>1, <1>2, ClaimRows, BecomeFacts, Made, Zenon
<1>4. sessions' \in Table
  BY ClaimRows, Zenon DEF Writes
<1>5. QED
  BY <1>1, <1>3, <1>4, SweepType, Fields, TypeOf, Zenon

\* What the exchange of a refresh token does: the family rotates and the handler
\* goes on with the new tokens or has lost them; or an old token retires the
\* family; or nothing happens at the provider.
LEMMA RefreshMoves ==
    ASSUME TypeOK, NEW r \in Request, RefreshExchange(r)
    PROVE  LET f == handlers[r].tokens.family
               g == families[f].generation
           IN  /\ handlers[r].at = "refresh" /\ handlers[r].tokens \in Tokens /\ f \in Attempt
               /\ UNCHANGED <<now, sessions, nextSweep, attempts, cookies, logouts, answers,
                              superseded, disowned>>
               /\ \/ /\ families' = [families EXCEPT ![f].generation = g + 1]
                     /\ \/ Become(r, [handlers[r] EXCEPT !.at = "replace",
                                                         !.tokens.generation = g + 1])
                        \/ Become(r, [handlers[r] EXCEPT !.at = "fail"])
                     /\ reused' = reused
                  \/ /\ handlers[r].tokens.generation < g
                     /\ families' = [families EXCEPT ![f].state = "revoked"]
                     /\ reused' = reused \cup {f}
                     /\ Become(r, [handlers[r] EXCEPT !.at = "fail"])
                  \/ /\ families' = families /\ reused' = reused
                     /\ Become(r, [handlers[r] EXCEPT !.at = "fail"])
<1>1. handlers[r].at = "refresh"
  BY Zenon DEF RefreshExchange
<1>2. handlers[r].tokens \in Tokens /\ handlers[r].tokens.family \in Attempt
  BY <1>1, HandlerFacts, Kinds, Zenon
<1>3. QED
  BY <1>1, <1>2, Zenon DEF RefreshExchange

LEMMA RefreshExchangeType ==
    ASSUME TypeOK, NEW r \in Request, RefreshExchange(r)
    PROVE  TypeOK'
<1> DEFINE f == handlers[r].tokens.family
           g == families[f].generation + 1
<1>1. handlers[r].at = "refresh" /\ f \in Attempt
  BY RefreshMoves, Zenon
<1>2. /\ families \in Families /\ families[f].generation \in Nat
      /\ [families EXCEPT ![f].state = "revoked"] \in Families
  BY <1>1, FamilyUpdate, Zenon
<1>3. g \in Nat
  BY <1>2
<1>4. [families EXCEPT ![f].generation = g] \in Families
  <2> HIDE DEF g
  <2>1. QED
    BY <1>1, <1>3, FamilyUpdate, Zenon
<1>5. families' \in Families
  BY <1>2, <1>4, RefreshMoves, Zenon
<1>6. /\ [handlers[r] EXCEPT !.at = "fail"] \in Handler
      /\ [handlers[r] EXCEPT !.at = "replace", !.tokens.generation = g] \in Handler
  <2> HIDE DEF g
  <2>1. QED
    BY <1>1, <1>3, GoesOn, Zenon
<1>7. handlers' \in [Request -> Handler]
  BY <1>6, RefreshMoves, BecomeFacts, Zenon
<1>8. reused' \subseteq Attempt
  BY <1>1, RefreshMoves, Zenon DEF TypeOK
<1>9. QED
  BY <1>5, <1>7, <1>8, RefreshMoves, Zenon DEF TypeOK, Families

\* What settling a refresh does.
LEMMA ReplaceRows ==
    ASSUME TypeOK, NEW r \in Request, ReplaceRefresh(r)
    PROVE  /\ handlers[r].at = "replace" /\ handlers[r].tokens \in Tokens
           /\ handlers[r].sid \in Sid
           /\ \/ /\ Writes(handlers[r].sid,
                           [sessions[handlers[r].sid] EXCEPT !.tokens = handlers[r].tokens,
                                                             !.inFlight = None])
                 /\ Become(r, Idle)
              \/ /\ sessions' \in Table /\ Trims({})
                 /\ Become(r, [at |-> "revoke", tokens |-> handlers[r].tokens])
<1>1. handlers[r].at = "replace"
  BY Zenon DEF ReplaceRefresh
<1>2. handlers[r].tokens \in Tokens /\ handlers[r].sid \in Sid
  BY <1>1, HandlerFacts, Zenon
<1>3. Settle(r, handlers[r].tokens, [at |-> "revoke", tokens |-> handlers[r].tokens])
  BY Zenon DEF ReplaceRefresh
<1>4. QED
  BY <1>1, <1>2, <1>3, SettleRows, Zenon

LEMMA FailRows ==
    ASSUME TypeOK, NEW r \in Request, FailRefresh(r)
    PROVE  /\ handlers[r].at = "fail" /\ handlers[r].sid \in Sid /\ Become(r, Idle)
           /\ \/ Writes(handlers[r].sid, [sessions[handlers[r].sid] EXCEPT !.tokens = NoTokens,
                                                                          !.inFlight = None])
              \/ sessions' \in Table /\ Trims({})
<1>1. handlers[r].at = "fail"
  BY Zenon DEF FailRefresh
<1>2. handlers[r].sid \in Sid
  BY <1>1, HandlerFacts, Zenon
<1>3. Settle(r, NoTokens, Idle)
  BY Zenon DEF FailRefresh
<1>4. QED
  BY <1>1, <1>2, <1>3, SettleRows, Zenon

LEMMA SettleType ==
    ASSUME TypeOK, NEW r \in Request, ReplaceRefresh(r) \/ FailRefresh(r)
    PROVE  TypeOK'
<1>1. Frame /\ Sweep(now) /\ cookies' = cookies
  BY Zenon DEF ReplaceRefresh, FailRefresh, Settle, Frame, provider
<1>2. handlers' \in [Request -> Handler]
  BY ReplaceRows, FailRows, BecomeFacts, Made, Zenon
<1>3. sessions' \in Table
  BY ReplaceRows, FailRows, Zenon DEF Writes
<1>4. QED
  BY <1>1, <1>2, <1>3, SweepType, Fields, TypeOf, Zenon

LEMMA EndType ==
    ASSUME TypeOK, NEW s \in Sid, BeginLogout(s) \/ FinishLogout(s) \/ GetExpired(s)
    PROVE  TypeOK'
<1>1. CASE BeginLogout(s)
  <2>1. /\ now' = now /\ attempts' = attempts /\ answers' = answers /\ families' = families
        /\ reused' = reused /\ superseded' = superseded /\ disowned' = disowned
        /\ cookies' = cookies /\ handlers' = handlers /\ Sweep(now)
    BY <1>1, Zenon DEF BeginLogout, provider
  <2>2. logouts' \in 0..MaxLogout
    BY <1>1, LimitAssumption DEF BeginLogout, TypeOK
  <2>3. sessions' \in Table
    BY <1>1, LogoutRows, Zenon DEF Writes
  <2>4. nextSweep' \in Nat
    BY <2>1, Fields, SweepType, Zenon
  <2>5. QED
    BY <2>1, <2>2, <2>3, <2>4, Zenon DEF TypeOK, Table
<1>2. CASE FinishLogout(s) \/ GetExpired(s)
  <2>1. /\ Frame /\ cookies' = cookies /\ handlers' = handlers
        /\ Sweep(now) \/ nextSweep' = nextSweep
    BY <1>2, Zenon DEF FinishLogout, GetExpired, Frame, provider
  <2>2. QED
    BY <1>2, <2>1, EndRows, SweepType, Fields, TypeOf, Zenon
<1>3. QED
  BY <1>1, <1>2, Zenon

LEMMA AroundType ==
    ASSUME TypeOK,
           \/ \E a \in Attempt, what \in {"code", "error"} : Answer(a, what)
           \/ \E f \in Attempt : RevokedAtProvider(f)
           \/ Tick
    PROVE  TypeOK'
<1>1. ASSUME NEW a \in Attempt, NEW what \in {"code", "error"}, Answer(a, what)
      PROVE  TypeOK'
  BY <1>1, Zenon DEF Answer, TypeOK
<1>2. ASSUME NEW f \in Attempt, RevokedAtProvider(f)
      PROVE  TypeOK'
  <2>1. families' \in Families
    BY <1>2, FamilyUpdate, Zenon DEF RevokedAtProvider
  <2>2. QED
    BY <1>2, <2>1, Zenon DEF RevokedAtProvider, TypeOK, Families
<1>3. ASSUME Tick PROVE TypeOK'
  <2>1. now' \in Nat
    BY <1>3 DEF Tick, TypeOK
  <2>2. QED
    BY <1>3, <2>1, Zenon DEF Tick, TypeOK, provider
<1>4. QED
  BY <1>1, <1>2, <1>3, Zenon

LEMMA TypeStep ==
    ASSUME TypeOK, Next
    PROVE  TypeOK'
<1>1. ASSUME NEW r \in Request, Step(r) PROVE TypeOK'
  BY <1>1, BeginAuthorizationType, ClearPendingType, ExchangeType, VerifyType, RevokeType,
     CompleteType, RefreshExchangeType, SettleType, Zenon DEF Step
<1>2. QED
  BY <1>1, BeginLoginType, CreateSessionType, CallbackType, ClaimRefreshType, EndType,
     AroundType, Zenon DEF Next

-----------------------------------------------------------------------------
(* Rows never come back, and a session keeps its identity.                 *)

Steady ==
    \A x \in Sid : sessions[x] # Unused =>
        /\ sessions'[x] # Unused
        /\ Present(sessions', x) => /\ Present(sessions, x)
                                    /\ sessions'[x].identity = sessions[x].identity

\* Nothing is begun or given up either.
Calm ==
    \A x \in Sid : Present(sessions', x) =>
        /\ Present(sessions, x)
        /\ sessions'[x].identity = sessions[x].identity
        /\ sessions'[x].pending = sessions[x].pending

LEMMA TrimsCalm ==
    ASSUME Trims({})
    PROVE  Calm /\ Steady
BY Kinds, Zenon DEF Trims, Calm, Steady, Present

LEMMA WritesSteady ==
    ASSUME TypeOK, NEW s \in Sid, NEW row, Writes(s, row),
           row.identity = sessions[s].identity
    PROVE  Steady /\ (row.pending = sessions[s].pending => Calm)
<1>1. /\ sessions'[s] = row /\ row \in Row /\ Present(sessions, s) /\ Trims({s})
      /\ row # Unused
  BY Kinds, Zenon DEF Writes
<1>2. \A x \in Sid \ {s} : \/ sessions'[x] = sessions[x]
                           \/ Present(sessions, x) /\ sessions'[x] = Gone
  BY <1>1, Zenon DEF Trims
<1>3. QED
  BY <1>1, <1>2, Kinds, Zenon DEF Steady, Calm, Present

\* The steps that leave every pending attempt alone.
CalmNext ==
    \/ \E r \in Request, s \in Sid : BeginLogin(r, s) \/ Callback(r, s) \/ ClaimRefresh(r, s)
    \/ \E r \in Request : \/ Exchange(r) \/ Verify(r) \/ Revoke(r)
                          \/ RefreshExchange(r) \/ ReplaceRefresh(r) \/ FailRefresh(r)
    \/ \E s \in Sid : BeginLogout(s) \/ FinishLogout(s) \/ GetExpired(s)
    \/ \E a \in Attempt : \/ \E what \in {"code", "error"} : Answer(a, what)
                          \/ RevokedAtProvider(a)
    \/ Tick

LEMMA CalmRows ==
    ASSUME TypeOK, CalmNext
    PROVE  Calm /\ Steady
<1>1. ASSUME sessions' = sessions PROVE Calm /\ Steady
  BY <1>1, Zenon DEF Calm, Steady
<1>2. ASSUME NEW r \in Request, NEW s \in Sid, ClaimRefresh(r, s) PROVE Calm /\ Steady
  <2>1. sessions[s] \in Row
    BY <1>2, ClaimRows, Zenon DEF Writes
  <2> DEFINE row == [sessions[s] EXCEPT !.version = sessions[s].version + 1,
                                        !.inFlight = sessions[s].version + 1]
  <2>2. row.identity = sessions[s].identity /\ row.pending = sessions[s].pending
    BY <2>1 DEF Row
  <2>3. Writes(s, row)
    BY <1>2, ClaimRows, Zenon
  <2> HIDE DEF row
  <2>4. QED
    BY <2>2, <2>3, WritesSteady, Zenon
<1>3. ASSUME NEW s \in Sid, NEW t, Writes(s, [sessions[s] EXCEPT !.tokens = t, !.inFlight = None])
      PROVE  Calm /\ Steady
  <2>1. sessions[s] \in Row
    BY <1>3, Zenon DEF Writes
  <2> DEFINE row == [sessions[s] EXCEPT !.tokens = t, !.inFlight = None]
  <2>2. row.identity = sessions[s].identity /\ row.pending = sessions[s].pending
    BY <2>1 DEF Row
  <2> HIDE DEF row
  <2>3. QED
    BY <1>3, <2>2, WritesSteady, Zenon DEF row
<1>4. ASSUME NEW r \in Request, ReplaceRefresh(r) \/ FailRefresh(r) PROVE Calm /\ Steady
  BY <1>3, <1>4, ReplaceRows, FailRows, TrimsCalm, Zenon
<1>5. ASSUME NEW s \in Sid, BeginLogout(s) PROVE Calm /\ Steady
  <2>1. sessions[s] \in Row
    BY <1>5, LogoutRows, Zenon DEF Writes
  <2> DEFINE row == [sessions[s] EXCEPT !.logout = logouts + 1, !.logoutAt = now]
  <2>2. row.identity = sessions[s].identity /\ row.pending = sessions[s].pending
    BY <2>1 DEF Row
  <2>3. Writes(s, row)
    BY <1>5, LogoutRows, Zenon
  <2> HIDE DEF row
  <2>4. QED
    BY <2>2, <2>3, WritesSteady, Zenon
<1>6. ASSUME NEW s \in Sid, FinishLogout(s) \/ GetExpired(s) PROVE Calm /\ Steady
  BY <1>6, EndRows, TrimsCalm, Zenon
<1>7. ASSUME \/ \E r \in Request, s \in Sid : BeginLogin(r, s) \/ Callback(r, s)
             \/ \E r \in Request : Exchange(r) \/ Verify(r) \/ Revoke(r) \/ RefreshExchange(r)
             \/ \E a \in Attempt : \/ \E what \in {"code", "error"} : Answer(a, what)
                                   \/ RevokedAtProvider(a)
             \/ Tick
      PROVE  sessions' = sessions
  BY <1>7, Zenon DEF BeginLogin, Callback, Exchange, Verify, Revoke, RefreshExchange, Answer,
                     RevokedAtProvider, Tick
<1>8. QED
  BY <1>1, <1>2, <1>4, <1>5, <1>6, <1>7, Zenon DEF CalmNext

\* A step that begins or gives up an attempt writes at most one row, and only
\* its pending attempt.
Pends(s, a) ==
    /\ Present(sessions, s) /\ Trims({s}) /\ sessions'[s] \in Row
    /\ sessions'[s].pending = a /\ sessions'[s].identity = sessions[s].identity
    /\ sessions'[s].tokens = sessions[s].tokens
    /\ sessions'[s].inFlight = sessions[s].inFlight

LEMMA BeginPends ==
    ASSUME TypeOK, NEW r \in Request, NEW a \in Attempt, BeginAuthorization(r, a)
    PROVE  /\ handlers[r].at = "begin" /\ handlers[r].sid \in Sid /\ handlers[r].time \in Nat
           /\ Become(r, Idle)
           /\ \/ /\ Pends(handlers[r].sid, a)
                 /\ attempts' = [attempts EXCEPT ![a] = handlers[r].time]
                 /\ superseded' = superseded \cup ({sessions[handlers[r].sid].pending} \ {None})
              \/ Trims({}) /\ attempts' = attempts /\ superseded' = superseded
<1>1. handlers[r].at = "begin" /\ Become(r, Idle)
  BY Zenon DEF BeginAuthorization
<1>2. handlers[r].sid \in Sid /\ handlers[r].time \in Nat
  BY <1>1, HandlerFacts, Zenon
<1> DEFINE s == handlers[r].sid
           e == handlers[r].time + SessionTTL
<1>3. ASSUME Writes(s, [sessions[s] EXCEPT !.pending = a, !.expires = e])
      PROVE  Pends(s, a)
  <2> HIDE DEF e
  <2>1. /\ sessions[s] \in Row /\ sessions'[s] \in Row
        /\ sessions'[s] = [sessions[s] EXCEPT !.pending = a, !.expires = e]
    BY <1>3, Zenon DEF Writes
  <2>2. /\ sessions'[s].pending = a /\ sessions'[s].identity = sessions[s].identity
        /\ sessions'[s].tokens = sessions[s].tokens
        /\ sessions'[s].inFlight = sessions[s].inFlight
    BY <2>1, Zenon DEF Row
  <2>3. QED
    BY <1>3, <2>1, <2>2, Zenon DEF Writes, Pends
<1>4. QED
  BY <1>1, <1>2, <1>3, BeginRows, Zenon

LEMMA ClearPends ==
    ASSUME TypeOK, NEW r \in Request, ClearPending(r)
    PROVE  /\ handlers[r].at = "clear" /\ handlers[r].sid \in Sid
           /\ handlers[r].attempt \in Attempt /\ Become(r, Idle) /\ attempts' = attempts
           /\ \/ /\ Pends(handlers[r].sid, None)
                 /\ sessions[handlers[r].sid].pending = handlers[r].attempt
                 /\ superseded' = superseded \cup {handlers[r].attempt}
              \/ Trims({}) /\ superseded' = superseded
<1>1. handlers[r].at = "clear" /\ Become(r, Idle) /\ attempts' = attempts
  BY Zenon DEF ClearPending
<1>2. handlers[r].sid \in Sid /\ handlers[r].attempt \in Attempt
  BY <1>1, HandlerFacts, Zenon
<1>3. ASSUME NEW s \in Sid, Writes(s, [sessions[s] EXCEPT !.pending = None])
      PROVE  Pends(s, None)
  <2>1. /\ sessions[s] \in Row /\ sessions'[s] \in Row
        /\ sessions'[s] = [sessions[s] EXCEPT !.pending = None]
    BY <1>3, Zenon DEF Writes
  <2>2. /\ sessions'[s].pending = None /\ sessions'[s].identity = sessions[s].identity
        /\ sessions'[s].tokens = sessions[s].tokens
        /\ sessions'[s].inFlight = sessions[s].inFlight
    BY <2>1 DEF Row
  <2>3. QED
    BY <1>3, <2>1, <2>2, Zenon DEF Writes, Pends
<1>4. QED
  BY <1>1, <1>2, <1>3, ClearRows, Zenon

LEMMA PendsSteady ==
    ASSUME NEW s \in Sid, NEW a, Pends(s, a)
    PROVE  Steady
BY Kinds, Zenon DEF Pends, Trims, Steady, Present

LEMMA SteadyStep ==
    ASSUME TypeOK, Next
    PROVE  Steady
<1>1. ASSUME NEW r \in Request, NEW s \in Sid, CreateSession(r, s) PROVE Steady
  BY <1>1, CreateRows, Kinds, Zenon DEF Trims, Steady, Present
<1>2. ASSUME NEW r \in Request, NEW a \in Attempt, BeginAuthorization(r, a) PROVE Steady
  BY <1>2, BeginPends, PendsSteady, TrimsCalm, Zenon
<1>3. ASSUME NEW r \in Request, ClearPending(r) PROVE Steady
  BY <1>3, ClearPends, PendsSteady, TrimsCalm, Zenon
<1>4. ASSUME NEW r \in Request, NEW s \in Sid, CompleteWithTokens(r, s) PROVE Steady
  <2>1. CASE Trims({})
    BY <2>1, TrimsCalm, Zenon
  <2>2. CASE /\ Trims({handlers[r].sid, s}) /\ sessions[s] = Unused
             /\ sessions'[handlers[r].sid] = Gone
    BY <2>2, Kinds, Zenon DEF Trims, Steady, Present
  <2>3. QED
    BY <1>4, <2>1, <2>2, CompleteRows, Zenon
<1>5. QED
  BY <1>1, <1>2, <1>3, <1>4, CalmRows, Zenon DEF Next, Step, CalmNext

-----------------------------------------------------------------------------
(* Capacity.                                                               *)

INSTANCE FiniteSetTheorems

Rows(table) == {x \in Sid : Present(table, x)}

LEMMA RowsFinite ==
    ASSUME NEW table
    PROVE  /\ IsFiniteSet(Rows(table)) /\ Size(table) \in Nat
           /\ Size(table) = Cardinality(Rows(table))
<1>1. IsFiniteSet(Sid) /\ Rows(table) \subseteq Sid
  BY FS_Interval, LimitAssumption DEF Sid, Rows
<1>2. IsFiniteSet(Rows(table))
  BY <1>1, FS_Subset
<1>3. QED
  BY <1>2, FS_CardinalityType, Zenon DEF Rows, Size

LEMMA NoMoreRows ==
    ASSUME NEW table, NEW new, \A x \in Sid : Present(new, x) => Present(table, x)
    PROVE  Size(new) <= Size(table)
<1>1. Rows(new) \subseteq Rows(table)
  BY Zenon DEF Rows
<1>2. Cardinality(Rows(new)) <= Cardinality(Rows(table))
  BY <1>1, RowsFinite, FS_Subset
<1>3. QED
  BY <1>2, RowsFinite

LEMMA OneMoreRow ==
    ASSUME NEW table, NEW new, NEW s \in Sid,
           \A x \in Sid \ {s} : Present(new, x) => Present(table, x)
    PROVE  Size(new) <= Size(table) + 1
<1>1. Rows(new) \subseteq Rows(table) \cup {s}
  BY Zenon DEF Rows
<1>2. IsFiniteSet(Rows(table) \cup {s}) /\ Cardinality(Rows(table) \cup {s}) <= Cardinality(Rows(table)) + 1
  BY RowsFinite, FS_AddElement
<1>3. Cardinality(Rows(new)) <= Cardinality(Rows(table) \cup {s})
  BY <1>1, <1>2, FS_Subset
<1>4. Cardinality(Rows(table) \cup {s}) \in Nat
  BY <1>2, FS_CardinalityType
<1>5. QED
  BY <1>2, <1>3, <1>4, RowsFinite

LEMMA OneLessRow ==
    ASSUME NEW table, NEW new, NEW s \in Sid, Present(table, s), ~Present(new, s),
           \A x \in Sid : Present(new, x) => Present(table, x)
    PROVE  Size(new) + 1 <= Size(table)
<1>1. Rows(new) \subseteq Rows(table) \ {s} /\ s \in Rows(table)
  BY Zenon DEF Rows
<1>2. /\ IsFiniteSet(Rows(table) \ {s})
      /\ Cardinality(Rows(table) \ {s}) = Cardinality(Rows(table)) - 1
  BY <1>1, RowsFinite, FS_RemoveElement
<1>3. Cardinality(Rows(new)) <= Cardinality(Rows(table) \ {s})
  BY <1>1, <1>2, FS_Subset
<1>4. QED
  BY <1>2, <1>3, RowsFinite

LEMMA CapacityStep ==
    ASSUME TypeOK, CapacityInv, Next
    PROVE  CapacityInv'
<1>0. /\ MaxSessions \in Nat /\ Size(sessions) \in Nat /\ Size(sessions') \in Nat
      /\ Size(sessions) <= MaxSessions
  BY LimitAssumption, RowsFinite DEF CapacityInv
<1> SUFFICES Size(sessions') <= MaxSessions
  BY DEF CapacityInv
<1>1. ASSUME \A x \in Sid : Present(sessions', x) => Present(sessions, x)
      PROVE  Size(sessions') <= MaxSessions
  <2>1. Size(sessions') <= Size(sessions)
    BY <1>1, NoMoreRows
  <2>2. QED
    BY <1>0, <2>1
<1>2. ASSUME NEW r \in Request, NEW s \in Sid, CreateSession(r, s)
      PROVE  Size(sessions') <= MaxSessions
  <2>1. CASE HasRoom(Swept(now))
    <3>1. sessions' = [Swept(now) EXCEPT ![s] = NewSession(now)] /\ Swept(now) \in Table
      BY <1>2, <2>1, SweptRows, Fields, Zenon DEF CreateSession
    <3>2. \A x \in Sid \ {s} : Present(sessions', x) => Present(Swept(now), x)
      BY <3>1, Zenon DEF Table, Present
    <3>3. Size(sessions') <= Size(Swept(now)) + 1
      BY <3>2, OneMoreRow
    <3>4. Size(Swept(now)) < MaxSessions /\ Size(Swept(now)) \in Nat
      BY <2>1, RowsFinite, Zenon DEF HasRoom
    <3>5. QED
      BY <1>0, <3>3, <3>4
  <2>2. CASE ~HasRoom(Swept(now))
    <3>1. sessions' = Swept(now)
      BY <1>2, <2>2, Zenon DEF CreateSession
    <3>2. Trims({})
      BY <3>1, SweptOnly, Fields, Zenon
    <3>3. QED
      BY <1>1, <3>2, TrimsCalm, Zenon DEF Calm
  <2>3. QED
    BY <2>1, <2>2, Zenon
<1>3. ASSUME NEW s \in Sid, NEW a, Pends(s, a)
      PROVE  Size(sessions') <= MaxSessions
  <2>1. \A x \in Sid : Present(sessions', x) => Present(sessions, x)
    BY <1>3, Kinds, Zenon DEF Pends, Trims, Present
  <2>2. QED
    BY <1>1, <2>1, Zenon
<1>4. ASSUME NEW r \in Request, NEW s \in Sid, CompleteWithTokens(r, s)
      PROVE  Size(sessions') <= MaxSessions
  <2> DEFINE old == handlers[r].sid
             table == [sessions EXCEPT ![old] = Gone]
  <2>1. CASE Trims({})
    BY <1>1, <2>1, TrimsCalm, Zenon DEF Calm
  <2>2. CASE /\ Trims({old, s}) /\ Present(sessions, old)
             /\ sessions'[old] = Gone /\ old # s
    <3>1. old \in Sid /\ sessions \in Table
      BY <1>4, HandlerFacts, Fields, Zenon DEF CompleteWithTokens
    <3>2. /\ ~Present(table, old)
          /\ \A x \in Sid : Present(table, x) => Present(sessions, x)
      BY <2>2, <3>1, Kinds, Zenon DEF Present, Table
    <3>3. \A x \in Sid \ {s} : Present(sessions', x) => Present(table, x)
      BY <2>2, <3>1, Kinds, Zenon DEF Trims, Present, Table
    <3> HIDE DEF table
    <3>4. Size(table) + 1 <= Size(sessions)
      BY <2>2, <3>1, <3>2, OneLessRow
    <3>5. Size(sessions') <= Size(table) + 1
      BY <3>3, OneMoreRow
    <3>6. Size(table) \in Nat
      BY RowsFinite, Zenon
    <3>7. QED
      BY <1>0, <3>4, <3>5, <3>6
  <2>3. QED
    BY <1>4, <2>1, <2>2, CompleteRows, Zenon
<1>5. ASSUME NEW r \in Request,
             ClearPending(r) \/ \E a \in Attempt : BeginAuthorization(r, a)
      PROVE  Size(sessions') <= MaxSessions
  <2>1. CASE Trims({})
    BY <1>1, <2>1, TrimsCalm, Zenon DEF Calm
  <2>2. QED
    BY <1>3, <1>5, <2>1, BeginPends, ClearPends, Zenon
<1>6. ASSUME CalmNext PROVE Size(sessions') <= MaxSessions
  BY <1>1, <1>6, CalmRows, Zenon DEF Calm
<1>7. QED
  BY <1>2, <1>4, <1>5, <1>6, Zenon DEF Next, Step, CalmNext

-----------------------------------------------------------------------------
(* What handlers carry.                                                    *)

\* A handler a step makes is on a proper errand already before the step.
LEMMA Errands ==
    ASSUME PartyInv, Next
    PROVE  \A q \in Request : Errand(handlers'[q])
<1>1. TypeOK /\ OwnInv /\ ErrandInv /\ now \in Nat
  BY Zenon DEF PartyInv, TypeOK
<1>2. \A q \in Request : Errand(handlers[q])
  BY <1>1, Zenon DEF ErrandInv
<1>3. ASSUME NEW r \in Request, NEW what, Become(r, what), Errand(what)
      PROVE  \A q \in Request : Errand(handlers'[q])
  <2>1. /\ handlers'[r] = what
        /\ \A q \in Request \ {r} : handlers'[q] = handlers[q]
    BY <1>1, <1>3, Zenon DEF Become, TypeOK
  <2>2. QED
    BY <1>2, <1>3, <2>1, Zenon
<1>4. /\ Errand(Idle)
      /\ \A t : Errand([at |-> "revoke", tokens |-> t])
      /\ \A s, a : \A at \in {"clear", "exchange"} :
             Errand([at |-> at, sid |-> s, attempt |-> a])
      /\ \A s : Errand([at |-> "begin", sid |-> s, time |-> now])
  BY <1>1 DEF Errand, Idle
<1>5. ASSUME NEW r \in Request, NEW s \in Sid, ClaimRefresh(r, s)
      PROVE  \A q \in Request : Errand(handlers'[q])
  <2> DEFINE what == [at |-> "refresh", sid |-> s, version |-> sessions[s].version + 1,
                      tokens |-> sessions[s].tokens]
  <2>1. Become(r, what)
    BY <1>5, Zenon DEF ClaimRefresh
  <2>2. Present(sessions, s) /\ sessions[s].tokens \in Tokens
    BY <1>1, <1>5, ClaimRows, Zenon DEF Writes
  <2>3. sessions[s] # Unused /\ sessions[s].tokens.family = sessions[s].identity
    BY <1>1, <2>2, Kinds, Zenon DEF OwnInv, Present
  <2>4. Errand(what)
    BY <2>3, Zenon DEF Errand
  <2> HIDE DEF what
  <2>5. QED
    BY <1>3, <2>1, <2>4, Zenon
<1>6. ASSUME NEW r \in Request, Exchange(r)
      PROVE  \A q \in Request : Errand(handlers'[q])
  <2>1. ASSUME NEW s, NEW f, NEW o
        PROVE  Errand([at |-> "verify", sid |-> s, attempt |-> f,
                       tokens |-> [family |-> f, generation |-> 0, offline |-> o]])
    BY DEF Errand
  <2>2. QED
    BY <1>1, <1>3, <1>4, <1>6, <2>1, ExchangeMoves, Zenon
<1>7. ASSUME NEW r \in Request, Verify(r)
      PROVE  \A q \in Request : Errand(handlers'[q])
  <2> DEFINE h == handlers[r]
  <2>1. /\ h.at = "verify"
        /\ \/ Become(r, [h EXCEPT !.at = "complete"])
           \/ Become(r, [at |-> "revoke", tokens |-> h.tokens])
    BY <1>7, Zenon DEF Verify
  <2>2. [h EXCEPT !.at = "complete"] =
          [at |-> "complete", sid |-> h.sid, attempt |-> h.attempt, tokens |-> h.tokens]
    BY <1>1, <2>1, GoesOn, Zenon
  <2>3. h.tokens.family = h.attempt
    BY <1>2, <2>1, Zenon DEF Errand
  <2>4. Errand([at |-> "complete", sid |-> h.sid, attempt |-> h.attempt, tokens |-> h.tokens])
    BY <2>3 DEF Errand
  <2>5. QED
    BY <1>3, <1>4, <2>1, <2>2, <2>4, Zenon
<1>8. ASSUME NEW r \in Request, RefreshExchange(r)
      PROVE  \A q \in Request : Errand(handlers'[q])
  <2> DEFINE h == handlers[r]
             g == families[h.tokens.family].generation + 1
             lost == [at |-> "fail", sid |-> h.sid, version |-> h.version, tokens |-> h.tokens]
             got == [at |-> "replace", sid |-> h.sid, version |-> h.version,
                     tokens |-> [family |-> h.tokens.family, generation |-> g,
                                 offline |-> h.tokens.offline]]
  <2>1. h.at = "refresh" /\ h.tokens.family \in Attempt
    BY <1>1, <1>8, RefreshMoves, Zenon
  <2>2. g \in Nat
    <3>1. families[h.tokens.family].generation \in Nat
      BY <1>1, <2>1, FamilyUpdate, Zenon
    <3>2. QED
      BY <3>1
  <2>3. /\ [h EXCEPT !.at = "fail"] = lost
        /\ [h EXCEPT !.at = "replace", !.tokens.generation = g] = got
    <3> HIDE DEF g
    <3>1. QED
      BY <1>1, <2>1, <2>2, GoesOn, Zenon
  <2>4. Become(r, lost) \/ Become(r, got)
    <3>1. \/ Become(r, [h EXCEPT !.at = "fail"])
          \/ Become(r, [h EXCEPT !.at = "replace", !.tokens.generation = g])
      BY <1>1, <1>8, RefreshMoves, Zenon
    <3>2. QED
      BY <2>3, <3>1, Zenon
  <2>5. /\ sessions[h.sid] # Unused
        /\ Present(sessions, h.sid) => h.tokens.family = sessions[h.sid].identity
    BY <1>2, <2>1, Zenon DEF Errand
  <2>6. Errand(lost) /\ Errand(got)
    <3> HIDE DEF g
    <3>1. QED
      BY <2>5, Zenon DEF Errand
  <2> HIDE DEF lost, got
  <2>7. QED
    BY <1>3, <2>4, <2>6, Zenon
<1>9. ASSUME NEW r \in Request, NEW s \in Sid, Callback(r, s)
      PROVE  \A q \in Request : Errand(handlers'[q])
  <2>1. \E at \in {"clear", "exchange"} :
            Become(r, [at |-> at, sid |-> s, attempt |-> sessions[s].pending])
    BY <1>9, Zenon DEF Callback
  <2>2. QED
    BY <1>3, <1>4, <2>1, Zenon
<1>10. ASSUME NEW r \in Request,
              \/ \E s \in Sid : BeginLogin(r, s) \/ CreateSession(r, s) \/ CompleteWithTokens(r, s)
              \/ \E a \in Attempt : BeginAuthorization(r, a)
              \/ ClearPending(r) \/ Revoke(r) \/ ReplaceRefresh(r) \/ FailRefresh(r)
       PROVE  \A q \in Request : Errand(handlers'[q])
  <2>1. \/ \E s : Become(r, [at |-> "begin", sid |-> s, time |-> now])
        \/ \E t : Become(r, [at |-> "revoke", tokens |-> t])
        \/ Become(r, Idle) \/ handlers' = handlers
    <3>1. ASSUME NEW s \in Sid, CreateSession(r, s)
          PROVE  \/ Become(r, [at |-> "begin", sid |-> s, time |-> now])
                 \/ handlers' = handlers
      BY <1>1, <3>1, CreateRows, Zenon
    <3>2. ASSUME NEW s \in Sid, CompleteWithTokens(r, s)
          PROVE  \/ Become(r, [at |-> "revoke", tokens |-> handlers[r].tokens])
                 \/ Become(r, Idle)
      BY <1>1, <3>2, CompleteRows, Zenon
    <3>3. ASSUME ReplaceRefresh(r)
          PROVE  \/ Become(r, [at |-> "revoke", tokens |-> handlers[r].tokens])
                 \/ Become(r, Idle)
      BY <1>1, <3>3, ReplaceRows, Zenon
    <3>4. ASSUME \/ \E a \in Attempt : BeginAuthorization(r, a)
                 \/ ClearPending(r) \/ Revoke(r) \/ FailRefresh(r)
          PROVE  Become(r, Idle)
      BY <1>1, <3>4, FailRows, Zenon DEF BeginAuthorization, ClearPending, Revoke
    <3>5. ASSUME NEW s \in Sid, BeginLogin(r, s)
          PROVE  Become(r, [at |-> "begin", sid |-> s, time |-> now])
      BY <3>5, Zenon DEF BeginLogin
    <3>6. QED
      BY <1>10, <3>1, <3>2, <3>3, <3>4, <3>5, Zenon
  <2>2. QED
    BY <1>2, <1>3, <1>4, <2>1, Zenon
<1>11. ASSUME \/ \E s \in Sid : BeginLogout(s) \/ FinishLogout(s) \/ GetExpired(s)
              \/ \E a \in Attempt : \/ \E what \in {"code", "error"} : Answer(a, what)
                                    \/ RevokedAtProvider(a)
              \/ Tick
       PROVE  \A q \in Request : Errand(handlers'[q])
  <2>1. handlers' = handlers
    BY <1>11, Zenon DEF BeginLogout, FinishLogout, GetExpired, Answer, RevokedAtProvider, Tick
  <2>2. QED
    BY <1>2, <2>1, Zenon
<1>12. QED
  BY <1>5, <1>6, <1>7, <1>8, <1>9, <1>10, <1>11, Zenon DEF Next, Step

LEMMA ErrandStep ==
    ASSUME PartyInv, Next
    PROVE  ErrandInv'
<1>1. TypeOK /\ now \in Nat /\ now <= MaxNow /\ MaxNow \in Nat
  BY LimitAssumption, Zenon DEF PartyInv, TypeOK, ErrandInv
<1>2. TypeOK' /\ Steady /\ \A q \in Request : Errand(handlers'[q])
  BY <1>1, TypeStep, SteadyStep, Errands, Zenon
<1>3. now <= now' /\ now' <= MaxNow /\ now' \in Nat
  <2>1. now' = now \/ Tick
    <3>1. ASSUME NEW r \in Request, Step(r) PROVE now' = now
      BY <3>1, Zenon DEF Step, BeginAuthorization, ClearPending, Exchange, Verify, Revoke,
         CompleteWithTokens, RefreshExchange, ReplaceRefresh, FailRefresh, Settle
    <3>2. QED
      BY <3>1, Zenon DEF Next, BeginLogin, CreateSession, Callback, ClaimRefresh, BeginLogout,
         FinishLogout, GetExpired, Answer, RevokedAtProvider
  <2>2. QED
    BY <1>1, <2>1 DEF Tick
<1>4. ASSUME NEW q \in Request PROVE Errand(handlers[q])'
  <2> DEFINE h == handlers'[q]
  <2>1. h \in Handler /\ Errand(h)
    BY <1>2, Zenon DEF TypeOK
  <2>2. h.at = "begin" => h.time <= now'
    <3>1. h.at = "begin" => h.time <= now /\ h.time \in Nat
      BY <2>1 DEF Errand, Handler, Idle
    <3>2. QED
      BY <1>1, <1>3, <3>1
  <2>3. h.at \in {"refresh", "fail", "replace"} =>
            /\ h.sid \in Sid /\ sessions[h.sid] # Unused
            /\ Present(sessions, h.sid) => h.tokens.family = sessions[h.sid].identity
    <3>1. h.at \in {"refresh", "fail", "replace"} => h.sid \in Sid
      BY <2>1 DEF Handler, Idle
    <3>2. QED
      BY <2>1, <3>1, Zenon DEF Errand
  <2>4. QED
    BY <1>2, <2>1, <2>2, <2>3, Zenon DEF Errand, Steady
<1>5. QED
  BY <1>3, <1>4, Zenon DEF ErrandInv

-----------------------------------------------------------------------------
(* Every session has the tokens of its own login.                          *)

Own(row) == row.tokens # NoTokens => row.tokens.family = row.identity

LEMMA OwnRows ==
    ASSUME OwnInv, NEW X, Trims(X), \A x \in Sid \cap X : Present(sessions', x) => Own(sessions'[x])
    PROVE  OwnInv'
<1>1. ASSUME NEW x \in Sid \ X, Present(sessions', x)
      PROVE  sessions'[x] = sessions[x] /\ Own(sessions'[x])
  BY <1>1, Kinds, Zenon DEF OwnInv, Own, Trims, Present
<1>2. QED
  BY <1>1, Zenon DEF OwnInv, Own

LEMMA OwnStep ==
    ASSUME PartyInv, Next
    PROVE  OwnInv'
<1>1. TypeOK /\ OwnInv /\ \A q \in Request : Errand(handlers[q])
  BY Zenon DEF PartyInv, ErrandInv
<1>2. ASSUME NEW x \in Sid, Present(sessions, x) PROVE Own(sessions[x])
  BY <1>1, <1>2, Zenon DEF OwnInv, Own
<1>3. ASSUME NEW s \in Sid, NEW row, Writes(s, row), Own(row)
      PROVE  OwnInv'
  BY <1>1, <1>3, OwnRows, Zenon DEF Writes
<1>4. ASSUME Trims({}) PROVE OwnInv'
  BY <1>1, <1>4, OwnRows, Zenon
<1>5. ASSUME NEW r \in Request, NEW s \in Sid, CreateSession(r, s) PROVE OwnInv'
  <2>1. sessions'[s] = Unused \/ sessions'[s].tokens = NoTokens
    BY <1>1, <1>5, CreateRows, NewRow, Fields, Zenon
  <2>2. Present(sessions', s) => Own(sessions'[s])
    BY <2>1, Kinds, Zenon DEF Own, Present
  <2>3. QED
    BY <1>1, <1>5, <2>2, CreateRows, OwnRows, Zenon
<1>6. ASSUME NEW s \in Sid, NEW a, Pends(s, a) PROVE OwnInv'
  <2>1. Own(sessions'[s])
    BY <1>2, <1>6, Zenon DEF Pends, Own
  <2>2. QED
    BY <1>1, <1>6, <2>1, OwnRows, Zenon DEF Pends
<1>7. ASSUME NEW r \in Request, NEW s \in Sid, CompleteWithTokens(r, s) PROVE OwnInv'
  <2> DEFINE h == handlers[r]
  <2>1. h.at = "complete" /\ h.attempt \in Attempt /\ h.tokens \in Tokens /\ now \in Nat
    BY <1>1, <1>7, HandlerFacts, Fields, Zenon DEF CompleteWithTokens
  <2>2. h.tokens.family = h.attempt
    BY <1>1, <2>1, Zenon DEF Errand
  <2>3. Own(SignedIn(h))
    BY <2>1, <2>2, SignedInRow, Zenon DEF Own
  <2>4. CASE Trims({h.sid, s}) /\ sessions'[h.sid] = Gone /\ sessions'[s] = SignedIn(h)
    <3>1. \A x \in Sid \cap {h.sid, s} : Present(sessions', x) => Own(sessions'[x])
      BY <2>3, <2>4, Kinds, Zenon DEF Present
    <3>2. QED
      BY <1>1, <2>4, <3>1, OwnRows, Zenon
  <2>5. QED
    BY <1>1, <1>4, <1>7, <2>4, CompleteRows, Zenon
<1>8. ASSUME NEW r \in Request, NEW s \in Sid, ClaimRefresh(r, s) PROVE OwnInv'
  <2> DEFINE row == [sessions[s] EXCEPT !.version = sessions[s].version + 1,
                                        !.inFlight = sessions[s].version + 1]
  <2>1. Writes(s, row) /\ sessions[s] \in Row /\ Present(sessions, s)
    BY <1>1, <1>8, ClaimRows, Zenon DEF Writes
  <2>2. row.tokens = sessions[s].tokens /\ row.identity = sessions[s].identity
    BY <2>1 DEF Row
  <2> HIDE DEF row
  <2>3. QED
    BY <1>2, <1>3, <2>1, <2>2, Zenon DEF Own
<1>9. ASSUME NEW r \in Request, ReplaceRefresh(r) PROVE OwnInv'
  <2> DEFINE h == handlers[r]
             row == [sessions[h.sid] EXCEPT !.tokens = h.tokens, !.inFlight = None]
  <2>1. CASE Writes(h.sid, row)
    <3>1. sessions[h.sid] \in Row /\ Present(sessions, h.sid) /\ h.sid \in Sid /\ h.at = "replace"
      BY <1>1, <1>9, <2>1, ReplaceRows, Zenon DEF Writes
    <3>2. row.tokens = h.tokens /\ row.identity = sessions[h.sid].identity
      BY <3>1, Zenon DEF Row
    <3> HIDE DEF row
    <3>3. Own(row)
      BY <1>1, <3>1, <3>2, Zenon DEF Own, Errand
    <3>4. QED
      BY <1>3, <2>1, <3>1, <3>3, Zenon
  <2>2. QED
    BY <1>1, <1>4, <1>9, <2>1, ReplaceRows, Zenon
<1>10. ASSUME NEW r \in Request, FailRefresh(r) PROVE OwnInv'
  <2> DEFINE h == handlers[r]
             row == [sessions[h.sid] EXCEPT !.tokens = NoTokens, !.inFlight = None]
  <2>1. CASE Writes(h.sid, row)
    <3>1. sessions[h.sid] \in Row /\ h.sid \in Sid
      BY <1>1, <1>10, <2>1, FailRows, Zenon DEF Writes
    <3>2. row.tokens = NoTokens
      BY <3>1, Zenon DEF Row
    <3> HIDE DEF row
    <3>3. QED
      BY <1>3, <2>1, <3>1, <3>2, Zenon DEF Own
  <2>2. QED
    BY <1>1, <1>4, <1>10, <2>1, FailRows, Zenon
<1>11. ASSUME NEW s \in Sid, BeginLogout(s) PROVE OwnInv'
  <2> DEFINE row == [sessions[s] EXCEPT !.logout = logouts + 1, !.logoutAt = now]
  <2>1. Writes(s, row) /\ sessions[s] \in Row /\ Present(sessions, s)
    BY <1>1, <1>11, LogoutRows, Zenon DEF Writes
  <2>2. row.tokens = sessions[s].tokens /\ row.identity = sessions[s].identity
    BY <2>1 DEF Row
  <2> HIDE DEF row
  <2>3. QED
    BY <1>2, <1>3, <2>1, <2>2, Zenon DEF Own
<1>12. ASSUME NEW s \in Sid, FinishLogout(s) \/ GetExpired(s) PROVE OwnInv'
  BY <1>1, <1>4, <1>12, EndRows, Zenon
<1>13. ASSUME NEW r \in Request,
              ClearPending(r) \/ \E a \in Attempt : BeginAuthorization(r, a)
       PROVE  OwnInv'
  BY <1>1, <1>4, <1>6, <1>13, BeginPends, ClearPends, Zenon
<1>14. ASSUME \/ \E r \in Request, s \in Sid : BeginLogin(r, s) \/ Callback(r, s)
              \/ \E r \in Request : Exchange(r) \/ Verify(r) \/ Revoke(r) \/ RefreshExchange(r)
              \/ \E a \in Attempt : \/ \E what \in {"code", "error"} : Answer(a, what)
                                    \/ RevokedAtProvider(a)
              \/ Tick
       PROVE  OwnInv'
  <2>1. sessions' = sessions
    BY <1>14, Zenon DEF BeginLogin, Callback, Exchange, Verify, Revoke, RefreshExchange, Answer,
                        RevokedAtProvider, Tick
  <2>2. QED
    BY <1>1, <2>1, Zenon DEF OwnInv
<1>15. QED
  BY <1>5, <1>7, <1>8, <1>9, <1>10, <1>11, <1>12, <1>13, <1>14, Zenon DEF Next, Step

-----------------------------------------------------------------------------
(* An attempt is one session's, or nobody's any more.                      *)

LEMMA CalmLogin ==
    ASSUME LoginInv, Calm, attempts' = attempts, superseded' = superseded
    PROVE  LoginInv'
<1>1. ASSUME NEW a, Nowhere(a) PROVE Nowhere(a)'
  BY <1>1, Zenon DEF Nowhere, Calm
<1>2. ASSUME NEW s \in Sid, NEW x \in Sid, Present(sessions', s), Present(sessions', x),
             sessions'[s].pending # None
      PROVE  /\ sessions'[x].pending = sessions'[s].pending => s = x
             /\ sessions'[x].identity # sessions'[s].pending
  BY <1>2, Zenon DEF LoginInv, Calm
<1>3. QED
  BY <1>1, <1>2, Zenon DEF LoginInv

LEMMA CreateLogin ==
    ASSUME TypeOK, LoginInv, NEW r \in Request, NEW s \in Sid, CreateSession(r, s)
    PROVE  LoginInv'
<1>1. /\ attempts' = attempts /\ superseded' = superseded /\ superseded \subseteq Attempt
      /\ None \notin Attempt
  BY Kinds, Zenon DEF CreateSession, TypeOK
<1>2. /\ ~Present(sessions, s)
      /\ Present(sessions', s) => sessions'[s].pending = None /\ sessions'[s].identity = None
  BY CreateRows, NewRow, Kinds, Fields, Zenon DEF Present
<1>3. \A x \in Sid \ {s} : Present(sessions', x) => Present(sessions, x) /\ sessions'[x] = sessions[x]
  BY CreateRows, Kinds, Zenon DEF Trims, Present
<1>4. ASSUME NEW a \in Attempt, Nowhere(a) PROVE Nowhere(a)'
  BY <1>1, <1>2, <1>3, <1>4, Zenon DEF Nowhere
<1>5. ASSUME NEW x \in Sid, NEW y \in Sid, Present(sessions', x), Present(sessions', y),
             sessions'[x].pending # None
      PROVE  /\ sessions'[y].pending = sessions'[x].pending => x = y
             /\ sessions'[y].identity # sessions'[x].pending
  <2>1. x # s /\ sessions'[x] = sessions[x] /\ Present(sessions, x)
    BY <1>2, <1>3, <1>5, Zenon
  <2>2. QED
    BY <1>2, <1>3, <1>5, <2>1, Zenon DEF LoginInv
<1>6. QED
  BY <1>1, <1>4, <1>5, Zenon DEF LoginInv

\* A step that gives up a pending attempt, and begins another one or none.
LEMMA PendsLogin ==
    ASSUME TypeOK, LoginInv, NEW s \in Sid, NEW a \in Attempt \cup {None}, Pends(s, a),
           a # None => a \notin superseded /\ Nowhere(a) /\ ~(attempts'[a] > MaxNow),
           superseded' = superseded \cup ({sessions[s].pending} \ {None}),
           \A b \in Attempt \ {a} : attempts'[b] = attempts[b]
    PROVE  LoginInv'
<1>1. /\ Present(sessions, s) /\ sessions'[s].pending = a
      /\ sessions'[s].identity = sessions[s].identity
      /\ \A x \in Sid \ {s} : Present(sessions', x) => Present(sessions, x) /\ sessions'[x] = sessions[x]
  BY Kinds, Zenon DEF Pends, Trims, Present
<1>2. ASSUME NEW b, b # a, Nowhere(b) PROVE Nowhere(b)'
  BY <1>1, <1>2, Zenon DEF Nowhere
<1>3. ASSUME sessions[s].pending # None
      PROVE  \A x \in Sid : Present(sessions', x) =>
                 /\ sessions'[x].pending # sessions[s].pending
                 /\ sessions'[x].identity # sessions[s].pending
  <2>1. sessions[s].pending # a
    BY <1>1, <1>3, Zenon DEF Nowhere
  <2>2. ASSUME NEW x \in Sid, Present(sessions', x)
        PROVE  /\ sessions'[x].pending # sessions[s].pending
               /\ sessions'[x].identity # sessions[s].pending
    <3>0. \A z \in Sid : Present(sessions, z) =>
              /\ sessions[z].pending = sessions[s].pending => s = z
              /\ sessions[z].identity # sessions[s].pending
      BY <1>1, <1>3, Zenon DEF LoginInv
    <3>1. CASE x = s
      BY <1>1, <2>1, <3>0, <3>1, Zenon
    <3>2. CASE x # s
      BY <1>1, <2>2, <3>0, <3>2, Zenon
    <3>3. QED
      BY <3>1, <3>2, Zenon
  <2>3. QED
    BY <2>2, Zenon
<1>4. ASSUME NEW b \in superseded' PROVE Nowhere(b)'
  <2>1. CASE b \in superseded
    <3>1. b # a /\ Nowhere(b)
      BY <2>1, Kinds, Zenon DEF LoginInv, TypeOK
    <3>2. QED
      BY <1>2, <3>1, Zenon
  <2>2. CASE b = sessions[s].pending /\ b # None
    BY <1>3, <2>2, Zenon DEF Nowhere
  <2>3. QED
    BY <1>4, <2>1, <2>2, Zenon
<1>5. ASSUME NEW b \in Attempt, attempts'[b] > MaxNow
      PROVE  b \notin superseded' /\ Nowhere(b)'
  <2>1. b # a /\ attempts[b] > MaxNow
    BY <1>5, Kinds, Zenon
  <2>2. b \notin superseded /\ Nowhere(b)
    BY <2>1, Zenon DEF LoginInv
  <2>3. b # sessions[s].pending
    BY <1>1, <2>2, Zenon DEF Nowhere
  <2>4. QED
    BY <1>2, <2>1, <2>2, <2>3, Zenon
<1>6. ASSUME NEW x \in Sid, NEW y \in Sid, Present(sessions', x), Present(sessions', y),
             sessions'[x].pending # None
      PROVE  /\ sessions'[y].pending = sessions'[x].pending => x = y
             /\ sessions'[y].identity # sessions'[x].pending
  <2>1. CASE x = s
    <3>1. a # None /\ Nowhere(a)
      BY <1>1, <1>6, <2>1, Zenon
    <3>2. QED
      BY <1>1, <1>6, <2>1, <3>1, Zenon DEF Nowhere
  <2>2. CASE x # s
    <3>1. Present(sessions, x) /\ sessions'[x] = sessions[x]
      BY <1>1, <1>6, <2>2, Zenon
    <3>2. a # None => sessions[x].pending # a
      BY <3>1, Zenon DEF Nowhere
    <3>3. /\ y # s => Present(sessions, y) /\ sessions'[y] = sessions[y]
          /\ sessions'[y].identity = sessions[y].identity /\ Present(sessions, y)
      BY <1>1, <1>6, Zenon
    <3>4. sessions[y].identity # sessions[x].pending
      BY <1>6, <3>1, <3>3, Zenon DEF LoginInv
    <3>5. y = s => sessions'[y].pending # sessions'[x].pending
      BY <1>1, <1>6, <3>1, <3>2, Zenon
    <3>6. QED
      BY <1>6, <3>1, <3>3, <3>4, <3>5, Zenon DEF LoginInv
  <2>3. QED
    BY <2>1, <2>2, Zenon
<1>7. QED
  BY <1>4, <1>5, <1>6, Zenon DEF LoginInv

LEMMA CompleteLogin ==
    ASSUME TypeOK, LoginInv, NEW r \in Request, NEW s \in Sid, CompleteWithTokens(r, s)
    PROVE  LoginInv'
<1> DEFINE h == handlers[r]
<1>1. attempts' = attempts /\ superseded' = superseded
  BY Zenon DEF CompleteWithTokens
<1>2. h.sid \in Sid /\ h.attempt \in Attempt /\ h.tokens \in Tokens /\ now \in Nat
  BY HandlerFacts, Fields, Zenon DEF CompleteWithTokens
<1>3. CASE Trims({})
  BY <1>1, <1>3, TrimsCalm, CalmLogin, Zenon
<1>4. CASE /\ Trims({h.sid, s}) /\ Present(sessions, h.sid)
           /\ sessions[h.sid].pending = h.attempt
           /\ sessions'[h.sid] = Gone /\ sessions'[s] = SignedIn(h)
  <2>1. /\ sessions'[s].pending = None /\ sessions'[s].identity = h.attempt
        /\ ~Present(sessions', h.sid) /\ h.attempt # None
    BY <1>2, <1>4, SignedInRow, Kinds, Zenon DEF Present
  <2>2. \A x \in Sid \ {s} : Present(sessions', x) =>
            Present(sessions, x) /\ sessions'[x] = sessions[x] /\ x # h.sid
    BY <1>4, <2>1, Kinds, Zenon DEF Trims, Present
  <2>3. \A x \in Sid \ {s} : Present(sessions', x) => sessions'[x].pending # h.attempt
    <3>1. \A x \in Sid : Present(sessions, x) /\ x # h.sid => sessions[x].pending # h.attempt
      BY <1>2, <1>4, <2>1, Zenon DEF LoginInv
    <3>2. QED
      BY <2>2, <3>1, Zenon
  <2>4. ASSUME NEW a \in Attempt, Nowhere(a) PROVE Nowhere(a)'
    <3>1. a # h.attempt /\ a # None
      BY <1>2, <1>4, <2>4, Kinds, Zenon DEF Nowhere
    <3>2. QED
      BY <2>1, <2>2, <2>4, <3>1, Zenon DEF Nowhere
  <2>5. ASSUME NEW x \in Sid, NEW y \in Sid, Present(sessions', x), Present(sessions', y),
               sessions'[x].pending # None
        PROVE  /\ sessions'[y].pending = sessions'[x].pending => x = y
               /\ sessions'[y].identity # sessions'[x].pending
    <3>1. x # s /\ Present(sessions, x) /\ sessions'[x] = sessions[x]
      BY <2>1, <2>2, <2>5, Zenon
    <3>2. CASE y = s
      BY <2>1, <2>3, <2>5, <3>1, <3>2, Zenon
    <3>3. CASE y # s
      <4>1. \A z \in Sid : Present(sessions, z) =>
                /\ sessions[z].pending = sessions[x].pending => x = z
                /\ sessions[z].identity # sessions[x].pending
        BY <2>5, <3>1, Zenon DEF LoginInv
      <4>2. QED
        BY <2>2, <2>5, <3>1, <3>3, <4>1, Zenon
    <3>4. QED
      BY <3>2, <3>3, Zenon
  <2>6. superseded \subseteq Attempt
    BY Zenon DEF TypeOK
  <2>7. QED
    BY <1>1, <2>4, <2>5, <2>6, Zenon DEF LoginInv
<1>5. QED
  BY <1>3, <1>4, CompleteRows, Zenon

LEMMA LoginStep ==
    ASSUME PartyInv, Next
    PROVE  LoginInv'
<1>1. TypeOK /\ LoginInv /\ ErrandInv /\ MaxNow \in Nat
  BY LimitAssumption, Zenon DEF PartyInv
<1>2. ASSUME NEW r \in Request, NEW a \in Attempt, BeginAuthorization(r, a) PROVE LoginInv'
  <2> DEFINE s == handlers[r].sid
             t == handlers[r].time
  <2>1. CASE Trims({}) /\ attempts' = attempts /\ superseded' = superseded
    BY <1>1, <2>1, TrimsCalm, CalmLogin, Zenon
  <2>2. CASE /\ Pends(s, a) /\ attempts' = [attempts EXCEPT ![a] = t]
             /\ superseded' = superseded \cup ({sessions[s].pending} \ {None})
    <3>1. s \in Sid /\ t \in Nat /\ handlers[r].at = "begin"
      BY <1>1, <1>2, BeginPends, Zenon
    <3>2. t <= now /\ now <= MaxNow /\ now \in Nat
      BY <1>1, <3>1, Zenon DEF ErrandInv, Errand, TypeOK
    <3>3. attempts'[a] = t /\ \A b \in Attempt \ {a} : attempts'[b] = attempts[b]
      BY <1>1, <2>2, Zenon DEF TypeOK
    <3>4. ~(attempts'[a] > MaxNow)
      BY <1>1, <3>1, <3>2, <3>3
    <3>5. attempts[a] > MaxNow
      BY <1>2, Zenon DEF BeginAuthorization
    <3>6. a \notin superseded /\ Nowhere(a)
      BY <1>1, <3>5, Zenon DEF LoginInv
    <3>7. QED
      BY <1>1, <2>2, <3>1, <3>3, <3>4, <3>6, PendsLogin, Zenon
  <2>3. QED
    BY <1>1, <1>2, <2>1, <2>2, BeginPends, Zenon
<1>3. ASSUME NEW r \in Request, ClearPending(r) PROVE LoginInv'
  <2> DEFINE s == handlers[r].sid
  <2>1. CASE Trims({}) /\ superseded' = superseded
    BY <1>1, <1>3, <2>1, ClearPends, TrimsCalm, CalmLogin, Zenon
  <2>2. CASE /\ Pends(s, None) /\ sessions[s].pending = handlers[r].attempt
             /\ superseded' = superseded \cup {handlers[r].attempt}
    <3>1. s \in Sid /\ handlers[r].attempt \in Attempt /\ attempts' = attempts
      BY <1>1, <1>3, ClearPends, Zenon
    <3>2. superseded' = superseded \cup ({sessions[s].pending} \ {None})
      BY <2>2, <3>1, Kinds, Zenon
    <3>3. QED
      BY <1>1, <2>2, <3>1, <3>2, PendsLogin, Zenon
  <2>3. QED
    BY <1>1, <1>3, <2>1, <2>2, ClearPends, Zenon
<1>4. ASSUME CalmNext PROVE LoginInv'
  <2>1. attempts' = attempts /\ superseded' = superseded
    BY <1>4, Zenon DEF CalmNext, BeginLogin, Callback, ClaimRefresh, Exchange, Verify, Revoke,
       RefreshExchange, ReplaceRefresh, FailRefresh, Settle, BeginLogout, FinishLogout,
       GetExpired, Answer, RevokedAtProvider, Tick
  <2>2. QED
    BY <1>1, <1>4, <2>1, CalmRows, CalmLogin, Zenon
<1>5. QED
  BY <1>1, <1>2, <1>3, <1>4, CreateLogin, CompleteLogin, Zenon DEF Next, Step, CalmNext

-----------------------------------------------------------------------------
(* Custody: the tokens of a family are in one place, and are the newest.   *)

LEMMA CustodyTypes ==
    ASSUME TypeOK
    PROVE  /\ \A r \in Request : Held(r) \in Tokens \cup {NoTokens}
           /\ \A s \in Sid : Kept(s) \in Tokens \cup {NoTokens}
<1>1. ASSUME NEW r \in Request PROVE Held(r) \in Tokens \cup {NoTokens}
  BY HandlerFacts, Zenon DEF Held, HeldBy
<1>2. ASSUME NEW s \in Sid PROVE Kept(s) \in Tokens \cup {NoTokens}
  BY RowFacts, Fields, Zenon DEF Kept, KeptBy, Present
<1>3. QED
  BY <1>1, <1>2, Zenon

\* What a step that makes a handler, or writes a row, does to the custody.
LEMMA HeldMoves ==
    ASSUME TypeOK, NEW r \in Request, NEW what, Become(r, what)
    PROVE  /\ Held(r)' = HeldBy(what)
           /\ \A q \in Request \ {r} : Held(q)' = Held(q)
<1>1. /\ handlers'[r] = what
      /\ \A q \in Request \ {r} : handlers'[q] = handlers[q]
  BY Zenon DEF Become, TypeOK
<1>2. QED
  BY <1>1, Zenon DEF Held

LEMMA KeptMoves ==
    ASSUME NEW X, Trims(X)
    PROVE  \A x \in Sid \ X : Kept(x)' \in {Kept(x), NoTokens}
<1>1. KeptBy(Gone) = NoTokens
  BY Kinds, Zenon DEF KeptBy
<1>2. QED
  BY <1>1, Zenon DEF Trims, Kept

LEMMA Loses ==
    ASSUME CustodyInv,
           \A q \in Request : Held(q)' \in {Held(q), NoTokens},
           \A x \in Sid : Kept(x)' \in {Kept(x), NoTokens},
           families' = families, disowned' = disowned, reused' = reused
    PROVE  CustodyInv'
BY Zenon DEF CustodyInv, Good, Apart

\* A handler stores what it holds in a session.
LEMMA HandsIn ==
    ASSUME CustodyInv, NEW r \in Request, NEW s \in Sid,
           Held(r)' = NoTokens, Kept(s)' = Held(r),
           \A q \in Request \ {r} : Held(q)' \in {Held(q), NoTokens},
           \A x \in Sid \ {s} : Kept(x)' \in {Kept(x), NoTokens},
           families' = families, disowned' = disowned, reused' = reused
    PROVE  CustodyInv'
<1>1. ASSUME NEW q \in Request PROVE Good(Held(q))'
  <2>1. CASE q = r
    BY <2>1, Zenon DEF Good
  <2>2. CASE q # r
    <3>1. Good(Held(q)) /\ Held(q)' \in {Held(q), NoTokens}
      BY <2>2, Zenon DEF CustodyInv
    <3>2. QED
      BY <3>1, Zenon DEF Good
  <2>3. QED
    BY <2>1, <2>2, Zenon
<1>2. ASSUME NEW x \in Sid PROVE Good(Kept(x))'
  <2>1. CASE x = s
    <3>1. Good(Held(r))
      BY Zenon DEF CustodyInv
    <3>2. QED
      BY <2>1, <3>1, Zenon DEF Good
  <2>2. CASE x # s
    <3>1. Good(Kept(x)) /\ Kept(x)' \in {Kept(x), NoTokens}
      BY <2>2, Zenon DEF CustodyInv
    <3>2. QED
      BY <3>1, Zenon DEF Good
  <2>3. QED
    BY <2>1, <2>2, Zenon
<1>3. \A q, p \in Request : q # p => Apart(Held(q), Held(p))'
  BY Zenon DEF CustodyInv, Apart
<1>4. \A x, y \in Sid : x # y => Apart(Kept(x), Kept(y))'
  BY Zenon DEF CustodyInv, Apart
<1>5. \A q \in Request, x \in Sid : Apart(Held(q), Kept(x))'
  BY Zenon DEF CustodyInv, Apart
<1>6. QED
  BY <1>1, <1>2, <1>3, <1>4, <1>5, Zenon DEF CustodyInv

\* A handler takes what a session keeps.
LEMMA TakesOut ==
    ASSUME CustodyInv, NEW r \in Request, NEW s \in Sid,
           Held(r)' = Kept(s), Kept(s)' = NoTokens,
           \A q \in Request \ {r} : Held(q)' \in {Held(q), NoTokens},
           \A x \in Sid \ {s} : Kept(x)' \in {Kept(x), NoTokens},
           families' = families, disowned' = disowned, reused' = reused
    PROVE  CustodyInv'
<1>1. ASSUME NEW q \in Request PROVE Good(Held(q))'
  <2>1. CASE q = r
    <3>1. Good(Kept(s))
      BY Zenon DEF CustodyInv
    <3>2. QED
      BY <2>1, <3>1, Zenon DEF Good
  <2>2. CASE q # r
    <3>1. Good(Held(q)) /\ Held(q)' \in {Held(q), NoTokens}
      BY <2>2, Zenon DEF CustodyInv
    <3>2. QED
      BY <3>1, Zenon DEF Good
  <2>3. QED
    BY <2>1, <2>2, Zenon
<1>2. ASSUME NEW x \in Sid PROVE Good(Kept(x))'
  <2>1. CASE x = s
    BY <2>1, Zenon DEF Good
  <2>2. CASE x # s
    <3>1. Good(Kept(x)) /\ Kept(x)' \in {Kept(x), NoTokens}
      BY <2>2, Zenon DEF CustodyInv
    <3>2. QED
      BY <3>1, Zenon DEF Good
  <2>3. QED
    BY <2>1, <2>2, Zenon
<1>3. \A q, p \in Request : q # p => Apart(Held(q), Held(p))'
  BY Zenon DEF CustodyInv, Apart
<1>4. \A x, y \in Sid : x # y => Apart(Kept(x), Kept(y))'
  BY Zenon DEF CustodyInv, Apart
<1>5. \A q \in Request, x \in Sid : Apart(Held(q), Kept(x))'
  BY Zenon DEF CustodyInv, Apart
<1>6. QED
  BY <1>1, <1>2, <1>3, <1>4, <1>5, Zenon DEF CustodyInv

\* The provider changes a family that only one handler may have tokens of.
LEMMA FamilyMoves ==
    ASSUME TypeOK, CustodyInv, NEW r \in Request, NEW f \in Attempt,
           \A q \in Request \ {r} : Held(q) # NoTokens => Held(q).family # f,
           \A x \in Sid : Kept(x) # NoTokens => Kept(x).family # f,
           \A g \in Attempt \ {f} : families'[g] = families[g],
           \A g \in Attempt \ {f} : g \in disowned' => g \in disowned,
           families'[f].state # "none", reused' = reused,
           Held(r)' # NoTokens => /\ Held(r)'.family = f /\ f \notin disowned'
                                  /\ Held(r)'.generation = families'[f].generation,
           \A q \in Request \ {r} : Held(q)' = Held(q),
           \A x \in Sid : Kept(x)' = Kept(x)
    PROVE  CustodyInv'
<1>1. ASSUME NEW t \in Tokens \cup {NoTokens}, Good(t), t # NoTokens => t.family # f
      PROVE  Good(t)'
  BY <1>1, Kinds, Zenon DEF Good
<1>2. ASSUME NEW q \in Request PROVE Good(Held(q))'
  <2>1. CASE q = r
    BY <2>1, Zenon DEF Good
  <2>2. CASE q # r
    <3>1. Good(Held(q)) /\ Held(q) \in Tokens \cup {NoTokens} /\ Held(q)' = Held(q)
      BY <2>2, CustodyTypes, Zenon DEF CustodyInv
    <3>2. QED
      BY <1>1, <2>2, <3>1, Zenon DEF Good
  <2>3. QED
    BY <2>1, <2>2, Zenon
<1>3. ASSUME NEW x \in Sid PROVE Good(Kept(x))'
  <2>1. Good(Kept(x)) /\ Kept(x) \in Tokens \cup {NoTokens} /\ Kept(x)' = Kept(x)
    BY CustodyTypes, Zenon DEF CustodyInv
  <2>2. QED
    BY <1>1, <2>1, Zenon DEF Good
<1>4. ASSUME NEW q \in Request, NEW p \in Request, q # p PROVE Apart(Held(q), Held(p))'
  <2>1. Apart(Held(q), Held(p))
    BY <1>4, Zenon DEF CustodyInv
  <2>2. CASE q = r
    BY <1>4, <2>2, Zenon DEF Apart
  <2>3. CASE p = r
    BY <1>4, <2>3, Zenon DEF Apart
  <2>4. CASE q # r /\ p # r
    BY <2>1, <2>4, Zenon DEF Apart
  <2>5. QED
    BY <2>2, <2>3, <2>4, Zenon
<1>5. ASSUME NEW x \in Sid, NEW y \in Sid, x # y PROVE Apart(Kept(x), Kept(y))'
  <2>1. Apart(Kept(x), Kept(y)) /\ Kept(x)' = Kept(x) /\ Kept(y)' = Kept(y)
    BY <1>5, Zenon DEF CustodyInv
  <2>2. QED
    BY <2>1, Zenon DEF Apart
<1>6. ASSUME NEW q \in Request, NEW x \in Sid PROVE Apart(Held(q), Kept(x))'
  <2>1. Apart(Held(q), Kept(x))
    BY Zenon DEF CustodyInv
  <2>2. CASE q = r
    BY <2>2, Zenon DEF Apart
  <2>3. CASE q # r
    BY <2>1, <2>3, Zenon DEF Apart
  <2>4. QED
    BY <2>2, <2>3, Zenon
<1>7. \A g \in Attempt : families'[g].state = "none" =>
           families'[g].generation = 0 /\ g \notin disowned'
  BY Zenon DEF CustodyInv
<1>8. QED
  BY <1>2, <1>3, <1>4, <1>5, <1>6, <1>7, Zenon DEF CustodyInv

\* A code is redeemed once, and nobody had tokens of it before.
LEMMA ExchangeCustody ==
    ASSUME TypeOK, CustodyInv, NEW r \in Request, Exchange(r)
    PROVE  CustodyInv'
<1> DEFINE f == handlers[r].attempt
<1>1. /\ f \in Attempt /\ handlers[r].at = "exchange" /\ sessions' = sessions
      /\ disowned' = disowned /\ reused' = reused
  BY ExchangeMoves, Zenon
<1>2. Held(r) = NoTokens /\ \A x \in Sid : Kept(x)' = Kept(x)
  BY <1>1, Zenon DEF Held, HeldBy, Kept
<1>3. HeldBy(Idle) = NoTokens
  BY Kinds, Zenon DEF HeldBy
<1>4. CASE families' = families /\ Become(r, Idle)
  <2>1. \A q \in Request : Held(q)' = Held(q)
    BY <1>2, <1>3, <1>4, HeldMoves, Zenon
  <2>2. QED
    BY <1>1, <1>2, <1>4, <2>1, Loses, Zenon
<1>5. CASE /\ families[f].state = "none"
           /\ families' = [families EXCEPT ![f].state = "live"]
           /\ \/ Become(r, Idle)
              \/ \E o \in BOOLEAN :
                   Become(r, [at |-> "verify", sid |-> handlers[r].sid, attempt |-> f,
                              tokens |-> [family |-> f, generation |-> 0, offline |-> o]])
  <2>1. /\ families'[f] = [state |-> "live", generation |-> families[f].generation]
        /\ \A g \in Attempt \ {f} : families'[g] = families[g]
    <3>1. families' = [families EXCEPT ![f].state = "live"] /\ families \in Families
      BY <1>1, <1>5, FamilyUpdate, Zenon
    <3>2. QED
      BY <1>1, <3>1, Zenon DEF Families
  <2>2. families'[f].state = "live" /\ families'[f].generation = 0 /\ f \notin disowned
    <3>1. families[f].generation = 0 /\ f \notin disowned
      BY <1>1, <1>5, Zenon DEF CustodyInv
    <3>2. QED
      BY <2>1, <3>1
  <2>3. /\ \A q \in Request : Held(q) # NoTokens => Held(q).family # f
        /\ \A x \in Sid : Kept(x) # NoTokens => Kept(x).family # f
    BY <1>5, Zenon DEF CustodyInv, Good
  <2>4. /\ \A q \in Request \ {r} : Held(q)' = Held(q)
        /\ Held(r)' # NoTokens => Held(r)'.family = f /\ Held(r)'.generation = 0
    <3>1. ASSUME NEW o, NEW s,
                 Become(r, [at |-> "verify", sid |-> s, attempt |-> f,
                            tokens |-> [family |-> f, generation |-> 0, offline |-> o]])
          PROVE  Held(r)' = [family |-> f, generation |-> 0, offline |-> o]
      <4>1. HeldBy([at |-> "verify", sid |-> s, attempt |-> f,
                    tokens |-> [family |-> f, generation |-> 0, offline |-> o]])
              = [family |-> f, generation |-> 0, offline |-> o]
        BY DEF HeldBy
      <4>2. QED
        BY <3>1, <4>1, HeldMoves, Zenon
    <3>2. ASSUME Become(r, Idle) PROVE Held(r)' = NoTokens
      BY <1>3, <3>2, HeldMoves, Zenon
    <3>3. \/ Held(r)' = NoTokens
          \/ \E o \in BOOLEAN : Held(r)' = [family |-> f, generation |-> 0, offline |-> o]
      BY <1>5, <3>1, <3>2, Zenon
    <3>4. \A q \in Request \ {r} : Held(q)' = Held(q)
      BY <1>5, HeldMoves, Zenon
    <3>5. QED
      BY <3>3, <3>4
  <2>5. /\ \A q \in Request \ {r} : Held(q) # NoTokens => Held(q).family # f
        /\ \A g \in Attempt \ {f} : g \in disowned' => g \in disowned
        /\ families'[f].state # "none"
        /\ Held(r)' # NoTokens => /\ Held(r)'.family = f /\ f \notin disowned'
                                  /\ Held(r)'.generation = families'[f].generation
    BY <1>1, <2>2, <2>3, <2>4, Zenon
  <2>6. QED
    BY <1>1, <1>2, <2>1, <2>3, <2>4, <2>5, FamilyMoves, Zenon
<1>6. QED
  BY <1>4, <1>5, ExchangeMoves, Zenon

\* The handler that refreshes has the newest token, so the provider rotates it
\* or refuses it, and finds no reuse.
LEMMA RefreshCustody ==
    ASSUME TypeOK, CustodyInv, NEW r \in Request, RefreshExchange(r)
    PROVE  CustodyInv'
<1> DEFINE h == handlers[r]
           f == h.tokens.family
           g == families[f].generation + 1
           lost == [h EXCEPT !.at = "fail"]
           got == [h EXCEPT !.at = "replace", !.tokens.generation = g]
<1>1. /\ h.at = "refresh" /\ h.tokens \in Tokens /\ f \in Attempt
      /\ sessions' = sessions /\ disowned' = disowned
  BY RefreshMoves, Zenon
<1>2. /\ Held(r) = h.tokens /\ h.tokens # NoTokens /\ h.tokens.generation \in Nat
      /\ \A x \in Sid : Kept(x)' = Kept(x)
  BY <1>1, Kinds, Zenon DEF Held, HeldBy, Kept
<1>3. /\ h.tokens.generation = families[f].generation
      /\ families[f].state # "none" /\ f \notin disowned
  BY <1>2, Zenon DEF CustodyInv, Good
<1>4. ~(h.tokens.generation < families[f].generation) /\ g \in Nat
  BY <1>2, <1>3
<1>5. HeldBy(lost) = NoTokens /\ HeldBy(got).family = f /\ HeldBy(got).generation = g
  <2>1. /\ lost = [at |-> "fail", sid |-> h.sid, version |-> h.version, tokens |-> h.tokens]
        /\ got = [at |-> "replace", sid |-> h.sid, version |-> h.version,
                  tokens |-> [family |-> f, generation |-> g, offline |-> h.tokens.offline]]
    <3> HIDE DEF g
    <3>1. QED
      BY <1>1, <1>4, GoesOn, Zenon
  <2> HIDE DEF lost, got, g
  <2>2. QED
    BY <2>1, Zenon DEF HeldBy
<1> HIDE DEF lost, got
<1>6. CASE Become(r, lost) /\ families' = families /\ reused' = reused
  <2>1. \A q \in Request : Held(q)' \in {Held(q), NoTokens}
    BY <1>5, <1>6, HeldMoves, Zenon
  <2>2. QED
    BY <1>1, <1>2, <1>6, <2>1, Loses, Zenon
<1>7. CASE /\ families' = [families EXCEPT ![f].generation = g] /\ reused' = reused
           /\ Become(r, lost) \/ Become(r, got)
  <2>1. /\ families'[f].generation = g /\ families'[f].state # "none"
        /\ \A x \in Attempt \ {f} : families'[x] = families[x]
    <3>1. families' = [families EXCEPT ![f].generation = g] /\ families \in Families
      BY <1>1, <1>7, FamilyUpdate, Zenon
    <3> HIDE DEF g
    <3>2. QED
      BY <1>1, <1>3, <3>1, Zenon DEF Families
  <2>2. /\ \A q \in Request \ {r} : Held(q) # NoTokens => Held(q).family # f
        /\ \A x \in Sid : Kept(x) # NoTokens => Kept(x).family # f
    BY <1>2, Zenon DEF CustodyInv, Apart
  <2>3. \A q \in Request \ {r} : Held(q)' = Held(q)
    BY <1>7, HeldMoves, Zenon
  <2>4. Held(r)' # NoTokens => Held(r)'.family = f /\ Held(r)'.generation = g
    <3> HIDE DEF g
    <3>1. Held(r)' = HeldBy(lost) \/ Held(r)' = HeldBy(got)
      BY <1>7, HeldMoves, Zenon
    <3>2. QED
      BY <1>5, <3>1, Zenon
  <2>5. Held(r)' # NoTokens => /\ Held(r)'.family = f /\ f \notin disowned'
                               /\ Held(r)'.generation = families'[f].generation
    <3> HIDE DEF g
    <3>1. QED
      BY <1>1, <1>3, <2>1, <2>4, Zenon
  <2> HIDE DEF f, g, h
  <2>6. QED
    BY <1>1, <1>2, <1>7, <2>1, <2>2, <2>3, <2>5, FamilyMoves, Zenon
<1>8. QED
  BY <1>4, <1>6, <1>7, RefreshMoves, Zenon DEF lost, got

\* A family that is given back is nobody's any more.
LEMMA RevokeCustody ==
    ASSUME TypeOK, CustodyInv, NEW r \in Request, Revoke(r)
    PROVE  CustodyInv'
<1> DEFINE h == handlers[r]
           f == h.tokens.family
<1>1. /\ h.at = "revoke" /\ h.tokens \in Tokens /\ f \in Attempt
      /\ sessions' = sessions /\ reused' = reused /\ Become(r, Idle)
      /\ disowned' = disowned \cup {f}
  BY RevokeMoves, Zenon
<1>2. /\ Held(r) = h.tokens /\ h.tokens # NoTokens
      /\ \A x \in Sid : Kept(x)' = Kept(x)
  BY <1>1, Kinds, Zenon DEF Held, HeldBy, Kept
<1>3. families[f].state # "none"
  BY <1>2, Zenon DEF CustodyInv, Good
<1>4. /\ families'[f].state # "none"
      /\ \A x \in Attempt \ {f} : families'[x] = families[x]
  <2>1. /\ families \in Families
        /\ \/ families' = families
           \/ families' = [families EXCEPT ![f].state = "revoked"]
    BY <1>1, RevokeMoves, FamilyUpdate, Zenon
  <2>2. QED
    BY <1>1, <1>3, <2>1, Zenon DEF Families
<1>5. /\ \A q \in Request \ {r} : Held(q) # NoTokens => Held(q).family # f
      /\ \A x \in Sid : Kept(x) # NoTokens => Kept(x).family # f
  BY <1>2, Zenon DEF CustodyInv, Apart
<1>6. Held(r)' = NoTokens /\ \A q \in Request \ {r} : Held(q)' = Held(q)
  <2>1. HeldBy(Idle) = NoTokens
    BY Kinds, Zenon DEF HeldBy
  <2>2. QED
    BY <1>1, <2>1, HeldMoves, Zenon
<1>7. \A g \in Attempt \ {f} : g \in disowned' => g \in disowned
  BY <1>1, Zenon
<1>8. QED
  BY <1>1, <1>2, <1>4, <1>5, <1>6, <1>7, FamilyMoves, Zenon

LEMMA RevokedCustody ==
    ASSUME TypeOK, CustodyInv, NEW f \in Attempt, RevokedAtProvider(f)
    PROVE  CustodyInv'
<1>1. /\ families[f].state = "live" /\ families' = [families EXCEPT ![f].state = "revoked"]
      /\ sessions' = sessions /\ handlers' = handlers /\ disowned' = disowned
      /\ reused' = reused /\ families \in Families
  BY FamilyUpdate, Zenon DEF RevokedAtProvider
<1>2. \A g \in Attempt : /\ families'[g].generation = families[g].generation
                         /\ families'[g].state = "none" <=> families[g].state = "none"
  BY <1>1 DEF Families
<1>3. /\ \A r \in Request : Held(r)' = Held(r) /\ Held(r) \in Tokens \cup {NoTokens}
      /\ \A x \in Sid : Kept(x)' = Kept(x) /\ Kept(x) \in Tokens \cup {NoTokens}
  BY <1>1, CustodyTypes, Zenon DEF Held, Kept
<1>4. ASSUME NEW t \in Tokens \cup {NoTokens}, Good(t)
      PROVE  /\ t # NoTokens => /\ t.generation = families'[t.family].generation
                                /\ families'[t.family].state # "none"
                                /\ t.family \notin disowned'
  BY <1>1, <1>2, <1>4, Kinds, Zenon DEF Good
<1>5. \A r \in Request : Good(Held(r))'
  BY <1>3, <1>4, Zenon DEF CustodyInv, Good
<1>6. \A x \in Sid : Good(Kept(x))'
  BY <1>3, <1>4, Zenon DEF CustodyInv, Good
<1>7. /\ \A r, q \in Request : r # q => Apart(Held(r), Held(q))'
      /\ \A s, x \in Sid : s # x => Apart(Kept(s), Kept(x))'
      /\ \A r \in Request, s \in Sid : Apart(Held(r), Kept(s))'
  <2>1. \A t, u : Apart(t, u)' <=> Apart(t, u)
    BY Zenon DEF Apart
  <2>2. QED
    BY <1>1, Zenon DEF CustodyInv, Apart, Held, Kept
<1>8. QED
  BY <1>1, <1>2, <1>5, <1>6, <1>7, Zenon DEF CustodyInv

\* The provider's families do not change, and none is given back.
Untouched == families' = families /\ disowned' = disowned /\ reused' = reused

LEMMA HandlerKeeps ==
    ASSUME TypeOK, NEW r \in Request, NEW what, Become(r, what),
           HeldBy(what) \in {Held(r), NoTokens}
    PROVE  \A q \in Request : Held(q)' \in {Held(q), NoTokens}
BY HeldMoves, Zenon

LEMMA Gives ==
    /\ HeldBy(Idle) = NoTokens
    /\ \A t : HeldBy([at |-> "revoke", tokens |-> t]) = t
BY DEF HeldBy, Idle

LEMMA TrimmedKeeps ==
    ASSUME Trims({})
    PROVE  \A x \in Sid : Kept(x)' \in {Kept(x), NoTokens}
<1>1. \A x \in Sid : x \in Sid \ {}
  BY Zenon
<1>2. QED
  BY <1>1, KeptMoves, Zenon

LEMMA WrittenKeeps ==
    ASSUME NEW s \in Sid, Trims({s}), Kept(s)' \in {Kept(s), NoTokens}
    PROVE  \A x \in Sid : Kept(x)' \in {Kept(x), NoTokens}
<1>1. \A x \in Sid : x = s \/ x \in Sid \ {s}
  BY Zenon
<1>2. \A x \in Sid \ {s} : Kept(x)' \in {Kept(x), NoTokens}
  BY KeptMoves, Zenon
<1>3. QED
  BY <1>1, <1>2, Zenon

LEMMA BeginLoginCustody ==
    ASSUME TypeOK, CustodyInv, NEW r \in Request, NEW s \in Sid,
           BeginLogin(r, s) \/ Callback(r, s)
    PROVE  CustodyInv'
<1>1. sessions' = sessions /\ Untouched
  BY Zenon DEF BeginLogin, Callback, Untouched, provider
<1>2. \A q \in Request : Held(q)' \in {Held(q), NoTokens}
  <2>1. CASE BeginLogin(r, s)
    <3>1. HeldBy([at |-> "begin", sid |-> s, time |-> now]) = NoTokens
      BY DEF HeldBy
    <3>2. QED
      BY <2>1, <3>1, HandlerKeeps, Zenon DEF BeginLogin
  <2>2. CASE Callback(r, s)
    <3> DEFINE a == sessions[s].pending
               k == IF answers[a] = "code" THEN "exchange" ELSE "clear"
               what == [at |-> k, sid |-> s, attempt |-> a]
    <3>1. k \in {"exchange", "clear"} /\ Become(r, what)
      BY <2>2, Zenon DEF Callback
    <3> HIDE DEF k, a
    <3>2. HeldBy(what) = NoTokens
      BY <3>1 DEF HeldBy
    <3> HIDE DEF what
    <3>3. QED
      BY <3>1, <3>2, HandlerKeeps, Zenon
  <2>3. QED
    BY <2>1, <2>2, Zenon
<1>3. QED
  BY <1>1, <1>2, Loses, Zenon DEF Kept, Untouched

LEMMA CreateCustody ==
    ASSUME TypeOK, CustodyInv, NEW r \in Request, NEW s \in Sid, CreateSession(r, s)
    PROVE  CustodyInv'
<1>1. Untouched
  BY Zenon DEF CreateSession, Untouched, provider
<1>2. \A q \in Request : Held(q)' \in {Held(q), NoTokens}
  <2>1. CASE handlers' = handlers
    BY <2>1, Zenon DEF Held
  <2>2. CASE Become(r, [at |-> "begin", sid |-> s, time |-> now])
    <3>1. HeldBy([at |-> "begin", sid |-> s, time |-> now]) = NoTokens
      BY DEF HeldBy
    <3>2. QED
      BY <2>2, <3>1, HandlerKeeps, Zenon
  <2>3. QED
    BY <2>1, <2>2, CreateRows, Zenon
<1>3. Kept(s)' = NoTokens
  BY CreateRows, NewRow, Kinds, Fields, Zenon DEF Kept, KeptBy
<1>4. \A x \in Sid : Kept(x)' \in {Kept(x), NoTokens}
  BY <1>3, CreateRows, WrittenKeeps, Zenon
<1>5. QED
  BY <1>1, <1>2, <1>4, Loses, Zenon DEF Untouched

LEMMA PendsCustody ==
    ASSUME TypeOK, CustodyInv, NEW r \in Request,
           ClearPending(r) \/ \E a \in Attempt : BeginAuthorization(r, a)
    PROVE  CustodyInv'
<1>1. Untouched
  BY Zenon DEF ClearPending, BeginAuthorization, Untouched, provider
<1>2. Become(r, Idle)
  BY Zenon DEF ClearPending, BeginAuthorization
<1>3. \A q \in Request : Held(q)' \in {Held(q), NoTokens}
  BY <1>2, HandlerKeeps, Gives, Zenon
<1>4. ASSUME NEW s \in Sid, NEW a, Pends(s, a)
      PROVE  \A x \in Sid : Kept(x)' \in {Kept(x), NoTokens}
  <2>1. Kept(s)' = Kept(s)
    <3>1. sessions'[s].state = "present"
      BY <1>4 DEF Pends, Row
    <3>2. QED
      BY <1>4, <3>1, Zenon DEF Kept, KeptBy, Pends, Present
  <2>2. QED
    BY <1>4, <2>1, WrittenKeeps, Zenon DEF Pends
<1>5. \A x \in Sid : Kept(x)' \in {Kept(x), NoTokens}
  <2>1. handlers[r].sid \in Sid /\ (Trims({}) \/ \E a : Pends(handlers[r].sid, a))
    BY BeginPends, ClearPends, Zenon
  <2>2. QED
    BY <1>4, <2>1, TrimmedKeeps, Zenon
<1>6. QED
  BY <1>1, <1>3, <1>5, Loses, Zenon DEF Untouched

LEMMA VerifyCustody ==
    ASSUME TypeOK, CustodyInv, NEW r \in Request, Verify(r)
    PROVE  CustodyInv'
<1>1. handlers[r].at = "verify" /\ sessions' = sessions /\ Untouched
  BY Zenon DEF Verify, Untouched, provider
<1>2. Held(r) = handlers[r].tokens
  BY <1>1, Zenon DEF Held, HeldBy
<1>3. HeldBy([handlers[r] EXCEPT !.at = "complete"]) = handlers[r].tokens
  <2> DEFINE h == handlers[r]
             next == [at |-> "complete", sid |-> h.sid, attempt |-> h.attempt, tokens |-> h.tokens]
  <2>1. [h EXCEPT !.at = "complete"] = next
    BY <1>1, GoesOn, Zenon
  <2>2. HeldBy(next) = h.tokens
    BY DEF HeldBy
  <2> HIDE DEF next
  <2>3. QED
    BY <2>1, <2>2, Zenon
<1>4. \A q \in Request : Held(q)' \in {Held(q), NoTokens}
  BY <1>2, <1>3, HandlerKeeps, Gives, Zenon DEF Verify
<1>5. QED
  BY <1>1, <1>4, Loses, Zenon DEF Kept, Untouched

LEMMA CompleteCustody ==
    ASSUME TypeOK, CustodyInv, NEW r \in Request, NEW s \in Sid, CompleteWithTokens(r, s)
    PROVE  CustodyInv'
<1> DEFINE h == handlers[r]
<1>1. /\ Untouched /\ h.at = "complete" /\ h.attempt \in Attempt /\ h.tokens \in Tokens
      /\ now \in Nat /\ h.sid \in Sid
  BY HandlerFacts, Fields, Zenon DEF CompleteWithTokens, Untouched, provider
<1>2. Held(r) = h.tokens
  BY <1>1, Zenon DEF Held, HeldBy
<1>3. CASE /\ Trims({h.sid, s}) /\ sessions'[h.sid] = Gone /\ sessions'[s] = SignedIn(h)
           /\ Become(r, Idle)
  <2>1. SignedIn(h).state = "present"
    BY <1>1, SignedInRow DEF Row
  <2>2. KeptBy(SignedIn(h)) = h.tokens
    BY <1>1, <2>1, SignedInRow, Zenon DEF KeptBy
  <2>3. PICK o \in Sid : o = h.sid
    BY <1>1, Zenon
  <2>4. Kept(s)' = Held(r)
    BY <1>2, <1>3, <2>2, Zenon DEF Kept
  <2>5. \A x \in Sid \ {s} : Kept(x)' \in {Kept(x), NoTokens}
    <3>1. Kept(o)' = NoTokens
      BY <1>3, <2>3, Kinds, Zenon DEF Kept, KeptBy
    <3>2. \A x \in Sid \ {o, s} : Kept(x)' \in {Kept(x), NoTokens}
      BY <1>3, <2>3, KeptMoves, Zenon
    <3>3. QED
      BY <3>1, <3>2, Zenon
  <2>6. Held(r)' = NoTokens /\ \A q \in Request \ {r} : Held(q)' \in {Held(q), NoTokens}
    BY <1>3, HeldMoves, Gives, Zenon
  <2>7. QED
    BY <1>1, <2>4, <2>5, <2>6, HandsIn, Zenon DEF Untouched
<1>4. CASE Trims({}) /\ Become(r, [at |-> "revoke", tokens |-> h.tokens])
  <2>1. \A q \in Request : Held(q)' \in {Held(q), NoTokens}
    BY <1>2, <1>4, HandlerKeeps, Gives, Zenon
  <2>2. \A x \in Sid : Kept(x)' \in {Kept(x), NoTokens}
    BY <1>4, TrimmedKeeps, Zenon
  <2>3. QED
    BY <1>1, <2>1, <2>2, Loses, Zenon DEF Untouched
<1>5. QED
  BY <1>3, <1>4, CompleteRows, Zenon

\* The claim is the session's way of giving its tokens away.
LEMMA ClaimCustody ==
    ASSUME TypeOK, CustodyInv, NEW r \in Request, NEW s \in Sid, ClaimRefresh(r, s)
    PROVE  CustodyInv'
<1> DEFINE v == sessions[s].version + 1
           row == [sessions[s] EXCEPT !.version = v, !.inFlight = v]
           what == [at |-> "refresh", sid |-> s, version |-> v, tokens |-> sessions[s].tokens]
<1>1. /\ Writes(s, row) /\ Become(r, what) /\ Untouched /\ sessions[s].version \in Nat
      /\ sessions[s].inFlight = None
  BY ClaimRows, Zenon DEF ClaimRefresh, Untouched, provider
<1>2. sessions[s] \in Row /\ sessions'[s] = row /\ Trims({s}) /\ Present(sessions, s)
  BY <1>1, Zenon DEF Writes
<1>3. row.inFlight # None
  BY <1>1, <1>2 DEF Row, None
<1>4. HeldBy(what) = sessions[s].tokens
  <2> HIDE DEF v
  <2>1. QED
    BY DEF HeldBy
<1> HIDE DEF row, what
<1>5. Kept(s) = sessions[s].tokens /\ Kept(s)' = NoTokens
  BY <1>1, <1>2, <1>3, Zenon DEF Kept, KeptBy, Present
<1>6. Held(r)' = Kept(s) /\ \A q \in Request \ {r} : Held(q)' \in {Held(q), NoTokens}
  BY <1>1, <1>4, <1>5, HeldMoves, Zenon
<1>7. \A x \in Sid \ {s} : Kept(x)' \in {Kept(x), NoTokens}
  BY <1>2, KeptMoves, Zenon
<1>8. QED
  BY <1>1, <1>5, <1>6, <1>7, TakesOut, Zenon DEF Untouched

LEMMA ReplaceCustody ==
    ASSUME TypeOK, CustodyInv, NEW r \in Request, ReplaceRefresh(r)
    PROVE  CustodyInv'
<1> DEFINE h == handlers[r]
<1>1. Untouched /\ h.at = "replace" /\ h.tokens \in Tokens /\ h.sid \in Sid
  BY ReplaceRows, Zenon DEF ReplaceRefresh, Settle, Untouched, provider
<1>2. Held(r) = h.tokens
  BY <1>1, Zenon DEF Held, HeldBy
<1> PICK s \in Sid : s = h.sid
  BY <1>1, Zenon
<1> DEFINE row == [sessions[s] EXCEPT !.tokens = h.tokens, !.inFlight = None]
<1>3. CASE Writes(s, row) /\ Become(r, Idle)
  <2>1. sessions[s] \in Row /\ sessions'[s] = row /\ Trims({s})
    BY <1>3, Zenon DEF Writes
  <2>2. row.state = "present" /\ row.inFlight = None /\ row.tokens = h.tokens
    BY <2>1, Zenon DEF Row
  <2> HIDE DEF row
  <2>3. Kept(s)' = Held(r)
    BY <1>2, <2>1, <2>2, Zenon DEF Kept, KeptBy
  <2>4. \A x \in Sid \ {s} : Kept(x)' \in {Kept(x), NoTokens}
    BY <2>1, KeptMoves, Zenon
  <2>5. Held(r)' = NoTokens /\ \A q \in Request \ {r} : Held(q)' \in {Held(q), NoTokens}
    BY <1>3, HeldMoves, Gives, Zenon
  <2>6. QED
    BY <1>1, <2>3, <2>4, <2>5, HandsIn, Zenon DEF Untouched
<1>4. CASE Trims({}) /\ Become(r, [at |-> "revoke", tokens |-> h.tokens])
  <2>1. \A q \in Request : Held(q)' \in {Held(q), NoTokens}
    BY <1>2, <1>4, HandlerKeeps, Gives, Zenon
  <2>2. \A x \in Sid : Kept(x)' \in {Kept(x), NoTokens}
    BY <1>4, TrimmedKeeps, Zenon
  <2>3. QED
    BY <1>1, <2>1, <2>2, Loses, Zenon DEF Untouched
<1>5. QED
  BY <1>3, <1>4, ReplaceRows, Zenon

LEMMA FailCustody ==
    ASSUME TypeOK, CustodyInv, NEW r \in Request, FailRefresh(r)
    PROVE  CustodyInv'
<1>1. Untouched /\ Become(r, Idle) /\ handlers[r].sid \in Sid
  BY FailRows, Zenon DEF FailRefresh, Settle, Untouched, provider
<1> PICK s \in Sid : s = handlers[r].sid
  BY <1>1, Zenon
<1> DEFINE row == [sessions[s] EXCEPT !.tokens = NoTokens, !.inFlight = None]
<1>2. \A q \in Request : Held(q)' \in {Held(q), NoTokens}
  BY <1>1, HandlerKeeps, Gives, Zenon
<1>3. ASSUME Writes(s, row) PROVE \A x \in Sid : Kept(x)' \in {Kept(x), NoTokens}
  <2>1. sessions[s] \in Row /\ sessions'[s] = row /\ Trims({s})
    BY <1>3, Zenon DEF Writes
  <2>2. row.tokens = NoTokens
    BY <2>1, Zenon DEF Row
  <2> HIDE DEF row
  <2>3. Kept(s)' = NoTokens
    BY <2>1, <2>2, Zenon DEF Kept, KeptBy
  <2>4. QED
    BY <2>1, <2>3, WrittenKeeps, Zenon
<1>4. \A x \in Sid : Kept(x)' \in {Kept(x), NoTokens}
  BY <1>3, FailRows, TrimmedKeeps, Zenon
<1>5. QED
  BY <1>1, <1>2, <1>4, Loses, Zenon DEF Untouched

LEMMA EndCustody ==
    ASSUME TypeOK, CustodyInv, NEW s \in Sid, BeginLogout(s) \/ FinishLogout(s) \/ GetExpired(s)
    PROVE  CustodyInv'
<1> DEFINE row == [sessions[s] EXCEPT !.logout = logouts + 1, !.logoutAt = now]
<1>1. Untouched /\ handlers' = handlers
  BY Zenon DEF BeginLogout, FinishLogout, GetExpired, Untouched, provider
<1>2. ASSUME Writes(s, row) PROVE \A x \in Sid : Kept(x)' \in {Kept(x), NoTokens}
  <2>1. sessions[s] \in Row /\ sessions'[s] = row /\ Trims({s})
    BY <1>2, Zenon DEF Writes
  <2>2. /\ row.state = sessions[s].state /\ row.inFlight = sessions[s].inFlight
        /\ row.tokens = sessions[s].tokens
    BY <2>1 DEF Row
  <2> HIDE DEF row
  <2>3. Kept(s)' = Kept(s)
    BY <2>1, <2>2, Zenon DEF Kept, KeptBy
  <2>4. QED
    BY <2>1, <2>3, WrittenKeeps, Zenon
<1>3. \A x \in Sid : Kept(x)' \in {Kept(x), NoTokens}
  BY <1>2, LogoutRows, EndRows, TrimmedKeeps, Zenon
<1>4. QED
  BY <1>1, <1>3, Loses, Zenon DEF Held, Untouched

LEMMA StillCustody ==
    ASSUME CustodyInv, sessions' = sessions, handlers' = handlers, Untouched
    PROVE  CustodyInv'
BY Loses, Zenon DEF Held, Kept, Untouched

LEMMA CustodyStep ==
    ASSUME PartyInv, Next
    PROVE  CustodyInv'
<1>1. TypeOK /\ CustodyInv
  BY Zenon DEF PartyInv
<1>2. ASSUME NEW r \in Request, Step(r) PROVE CustodyInv'
  BY <1>1, <1>2, PendsCustody, ExchangeCustody, VerifyCustody, RevokeCustody,
     CompleteCustody, RefreshCustody, ReplaceCustody, FailCustody, Zenon DEF Step
<1>3. ASSUME Tick \/ \E a \in Attempt, what \in {"code", "error"} : Answer(a, what)
      PROVE  CustodyInv'
  BY <1>1, <1>3, StillCustody, Zenon DEF Tick, Answer, Untouched, provider
<1>4. QED
  BY <1>1, <1>2, <1>3, BeginLoginCustody, CreateCustody, ClaimCustody, EndCustody,
     RevokedCustody, Zenon DEF Next

-----------------------------------------------------------------------------
(* The theorems.                                                           *)

LEMMA PartyInit ==
    ASSUME Init
    PROVE  PartyInv
<1>1. TypeOK
  <2>1. MaxNow \in Nat /\ MaxLogout \in Nat
    BY LimitAssumption, Zenon
  <2>2. Idle \in Handler
    BY Made, Zenon
  <2>3. QED
    BY <2>1, <2>2 DEF Init, TypeOK
<1>2. /\ \A s \in Sid : ~Present(sessions, s) /\ Kept(s) = NoTokens
      /\ \A r \in Request : handlers[r] = Idle /\ Held(r) = NoTokens
  BY Kinds, Gives, Zenon DEF Init, Present, Kept, KeptBy, Held
<1>3. CapacityInv
  <2>1. {s \in Sid : Present(sessions, s)} = {}
    BY <1>2, Zenon
  <2>2. Size(sessions) = 0 /\ MaxSessions \in Nat
    BY <2>1, FS_EmptySet, LimitAssumption, Zenon DEF Size
  <2>3. QED
    BY <2>2 DEF CapacityInv
<1>4. LoginInv /\ OwnInv
  BY <1>2, Zenon DEF LoginInv, OwnInv, Nowhere, Init
<1>5. ErrandInv
  <2>1. now = 0 /\ MaxNow \in Nat
    BY LimitAssumption, Zenon DEF Init
  <2>2. \A r \in Request : Errand(handlers[r])
    BY <1>2, Kinds, Zenon DEF Errand
  <2>3. QED
    BY <2>1, <2>2 DEF ErrandInv
<1>6. CustodyInv
  <2>1. /\ \A f \in Attempt : families[f].generation = 0
        /\ disowned = {} /\ reused = {}
    BY DEF Init
  <2>2. QED
    BY <1>2, <2>1, Zenon DEF CustodyInv, Good, Apart
<1>7. QED
  BY <1>1, <1>3, <1>4, <1>5, <1>6, Zenon DEF PartyInv

LEMMA PartyStep ==
    ASSUME PartyInv, [Next]_vars
    PROVE  PartyInv'
<1>1. CASE Next
  BY <1>1, TypeStep, CapacityStep, LoginStep, OwnStep, ErrandStep, CustodyStep, Zenon DEF PartyInv
<1>2. CASE UNCHANGED vars
  <2>1. TypeOK' /\ CapacityInv' /\ LoginInv' /\ OwnInv'
    BY <1>2, Zenon DEF vars, provider, PartyInv, TypeOK, CapacityInv, Size, Present, LoginInv,
                       Nowhere, OwnInv
  <2>2. ErrandInv' /\ CustodyInv'
    BY <1>2, Zenon DEF vars, provider, PartyInv, ErrandInv, Errand, CustodyInv, Held, Kept,
                       Good, Present
  <2>3. QED
    BY <2>1, <2>2, Zenon DEF PartyInv
<1>3. QED
  BY <1>1, <1>2, Zenon

\* Every reachable state satisfies PartyInv: between the store's critical
\* sections, while a handler waits for the provider, its tokens are nobody
\* else's and its errand is still that of the session it will come back to
\* (claimRefresh, replaceRefresh, failRefresh, completeWithTokens).
THEOREM PartyInvariant == Spec => []PartyInv
<1>1. Init => PartyInv
  BY PartyInit
<1>2. PartyInv /\ [Next]_vars => PartyInv'
  BY PartyStep
<1>3. QED
  BY <1>1, <1>2, PTL DEF Spec

\* A session shows the login its tokens are of: a refresh that was under way
\* while the browser signed in again never lands in the new session, an attempt
\* that was given up signs nobody in, and the table keeps within its capacity.
THEOREM SessionIsItsLoginHolds == Spec => []SessionIsItsLogin
<1>1. PartyInv => SessionIsItsLogin
  <2>1. ASSUME PartyInv, NEW s \in Sid, Present(sessions, s)
        PROVE  sessions[s].identity \notin superseded
    BY <2>1, Zenon DEF PartyInv, LoginInv, Nowhere
  <2>2. QED
    BY <2>1, Zenon DEF PartyInv, CapacityInv, OwnInv, SessionIsItsLogin
<1>2. QED
  BY <1>1, PartyInvariant, PTL

\* A refresh token that the provider has rotated is never presented again,
\* whichever answers are lost and however many handlers refresh at once.
THEOREM NeverReusedHolds == Spec => []NeverReused
<1>1. PartyInv => NeverReused
  BY Zenon DEF PartyInv, CustodyInv, NeverReused
<1>2. QED
  BY <1>1, PartyInvariant, PTL

\* Tokens that a session could still refresh with are never given back to the
\* provider: revokeProviderTokens gets what no session was able to store.
THEOREM RevokesOnlyOrphansHolds == Spec => []RevokesOnlyOrphans
<1>1. PartyInv => RevokesOnlyOrphans
  <2>1. ASSUME PartyInv, NEW s \in Sid, Readable(s), Claimable(s)
        PROVE  sessions[s].tokens.family \notin disowned
    <3>1. Kept(s) = sessions[s].tokens /\ sessions[s].tokens # NoTokens /\ Good(Kept(s))
      BY <2>1, Zenon DEF Readable, Claimable, Kept, KeptBy, Present, PartyInv, CustodyInv
    <3>2. QED
      BY <3>1, Zenon DEF Good
  <2>2. QED
    BY <2>1, Zenon DEF RevokesOnlyOrphans
<1>2. QED
  BY <1>1, PartyInvariant, PTL
=============================================================================
