----------------------------- MODULE RateLimiter -----------------------------
(***************************************************************************)
(* The in-memory rate limiter in front of the browser forms and the OAuth   *)
(* endpoints (internal/httpserver/auth_rate_limit.go): a bucket for the     *)
(* whole process and one for every address, charged together by allow, and  *)
(* one for every authenticated client, charged later by allowClient.        *)
(*                                                                          *)
(* The mutex makes each call one step, but a caller reads the wall clock    *)
(* before it waits for the mutex, so a call may work with an older reading  *)
(* than the call before it.  MaxLag bounds how much older.                  *)
(*                                                                          *)
(* Tokens are counted in the units a bucket gains in one tick of the clock. *)
(* In these units a request costs Cost (60 / perMinute seconds' worth) of   *)
(* an address or a client and GlobalCost of the whole process.              *)
(***************************************************************************)
EXTENDS Integers, FiniteSets, WallClock

CONSTANTS
    Address,       \* unmapped client addresses
    Client,        \* authenticated clients
    Cost, Burst,               \* of an address or a client
    GlobalCost, GlobalBurst,   \* of the process
    MaxEntries,    \* maxAuthRateLimitEntries
    TTL,           \* authRateEntryTTL
    Interval,      \* authRateSweepInterval
    MaxTime        \* bound on the clock

Whole == [payer |-> "process"]    \* the process as a payer
Capacity == Burst * Cost
GlobalCapacity == GlobalBurst * GlobalCost

\* What an empty bucket may still miss when its entry is dropped: nothing if an
\* entry is kept for as long as a bucket needs to fill, which holds for the
\* defaults but not for every burst and rate the configuration accepts.
Excess == IF Capacity + 2 * MaxLag > TTL THEN Capacity + 2 * MaxLag - TTL ELSE 0

\* newAuthenticationRateLimiter replaces rates and bursts below one.  A caller does not
\* wait for the mutex as long as an idle entry is kept, which is ten minutes.
ASSUME RateLimiterAssumption ==
    /\ Address \cap Client = {} /\ Whole \notin Address \cup Client
    /\ Cost \in Nat \ {0} /\ Burst \in Nat \ {0}
    /\ GlobalCost \in Nat \ {0} /\ GlobalBurst \in Nat \ {0}
    /\ Capacity \in Nat /\ Cost <= Capacity /\ GlobalCapacity \in Nat
    /\ MaxEntries \in Nat \ {0} /\ TTL \in Nat /\ Interval \in Nat \ {0}
    /\ MaxLag \in Nat /\ MaxLag <= TTL /\ MaxTime \in Nat

Absent == [tokens |-> -1, last |-> -1, lastSeen |-> -1]
Payer == Address \cup Client \cup {Whole}

VARIABLES
    global,         \* the bucket of the process
    clients,        \* the bucket of each address
    authenticated,  \* the bucket of each client
    nextSweep, nextAuthSweep,
    watched,        \* the payer whose spending is recorded (history)
    spent,          \* units spent by it with readings of s or later, for each s (history)
    drops           \* how often its entry was dropped after that, for each s (history)

vars == <<now, global, clients, authenticated, nextSweep, nextAuthSweep, watched, spent, drops>>

Time == 0..MaxTime
Bucket(capacity) == [tokens : 0..capacity, last : Time, lastSeen : Time]

TypeOK ==
    /\ now \in Time
    /\ global \in Bucket(GlobalCapacity)
    /\ clients \in [Address -> Bucket(Capacity) \cup {Absent}]
    /\ authenticated \in [Client -> Bucket(Capacity) \cup {Absent}]
    /\ nextSweep \in Nat /\ nextAuthSweep \in Nat
    /\ watched \in Payer
    /\ spent \in [Time -> Nat] /\ drops \in [Time -> Nat]

Init ==
    /\ now = 0
    /\ global = [tokens |-> GlobalCapacity, last |-> 0, lastSeen |-> 0]
    /\ clients = [a \in Address |-> Absent]
    /\ authenticated = [c \in Client |-> Absent]
    /\ nextSweep = Interval /\ nextAuthSweep = Interval
    /\ watched \in Payer
    /\ spent = [s \in Time |-> 0] /\ drops = [s \in Time |-> 0]

\* What a caller may have read from the clock when it gets the mutex.
Readings == {t \in Time : t <= now /\ now <= t + MaxLag}

-----------------------------------------------------------------------------
(* Buckets and tables of buckets.                                          *)

\* (mutant) an older reading moves the bucket's clock back
BugRefill(bucket, capacity, t) ==
    LET filled == bucket.tokens + (IF t > bucket.last THEN t - bucket.last ELSE 0)
    IN  [tokens |-> IF filled > capacity THEN capacity ELSE filled,
         last |-> t, lastSeen |-> bucket.lastSeen]

\* refillBucket: an older reading changes nothing.
Refill(bucket, capacity, t) ==
    LET filled == bucket.tokens + (t - bucket.last)
    IN  IF t > bucket.last
        THEN [tokens |-> IF filled > capacity THEN capacity ELSE filled,
              last |-> t, lastSeen |-> bucket.lastSeen]
        ELSE bucket

Spend(bucket, cost, t) ==
    [tokens |-> bucket.tokens - cost, last |-> bucket.last, lastSeen |-> t]

Fresh(t) == [tokens |-> Capacity, last |-> t, lastSeen |-> t]

\* sweepLocked, sweepAuthenticatedLocked: at most one scan in an interval, and
\* by the time of the last admitted request.
Sweep(table, due, t) ==
    IF t < due THEN table
    ELSE [k \in DOMAIN table |-> IF table[k].lastSeen < t - TTL THEN Absent ELSE table[k]]

\* (mutant) every newcomer puts the sweep off
BugNextDue(due, t) == t + Interval

NextDue(due, t) == IF t < due THEN due ELSE t + Interval

Entries(table) == {k \in DOMAIN table : table[k] # Absent}
Full(table) == Cardinality(Entries(table)) >= MaxEntries

\* The table in which k is looked up: swept if k is not in it.
Searched(table, due, k, t) == IF table[k] = Absent THEN Sweep(table, due, t) ELSE table
DueAfter(table, due, k, t) == IF table[k] = Absent THEN NextDue(due, t) ELSE due

Found(table, k, t) ==
    IF table[k] = Absent THEN Fresh(t) ELSE Refill(table[k], Capacity, t)

CostOf(payer) == IF payer = Whole THEN GlobalCost ELSE Cost
CapacityOf(payer) == IF payer = Whole THEN GlobalCapacity ELSE Capacity

Record(payers, t, dropped) ==
    /\ spent' = IF watched \in payers
                THEN [s \in Time |-> spent[s] + (IF s <= t THEN CostOf(watched) ELSE 0)]
                ELSE spent
    /\ drops' = IF watched \in dropped
                THEN [s \in Time |-> drops[s] + (IF spent[s] > 0 THEN 1 ELSE 0)]
                ELSE drops

-----------------------------------------------------------------------------
(* A call, for a table and a key.                                          *)

\* There is no room for a new entry.
NoRoom(table, due, k, t) == table[k] = Absent /\ Full(Sweep(table, due, t))

Pays(table, due, k, t) == ~NoRoom(table, due, k, t) /\ Found(table, k, t).tokens >= Cost

\* The table after the call.
Charged(table, due, k, t) ==
    IF NoRoom(table, due, k, t) THEN Sweep(table, due, t)
    ELSE [Searched(table, due, k, t) EXCEPT ![k] =
              IF Pays(table, due, k, t) THEN Spend(Found(table, k, t), Cost, t)
              ELSE Found(table, k, t)]

-----------------------------------------------------------------------------
(* The calls.                                                              *)

\* allow when the process has spent its budget: only its bucket is refilled.
AllowExhausted(t) ==
    /\ Refill(global, GlobalCapacity, t).tokens < GlobalCost
    /\ global' = Refill(global, GlobalCapacity, t)
    /\ UNCHANGED <<now, clients, authenticated, nextSweep, nextAuthSweep, watched, spent,
                   drops>>

\* allow: the address and the process pay together or not at all.
Allow(a, t) ==
    LET filled == Refill(global, GlobalCapacity, t)
        pays == Pays(clients, nextSweep, a, t)
    IN  /\ filled.tokens >= GlobalCost
        /\ global' = IF pays THEN Spend(filled, GlobalCost, t) ELSE filled
        /\ clients' = Charged(clients, nextSweep, a, t)
        /\ nextSweep' = DueAfter(clients, nextSweep, a, t)
        /\ Record(IF pays THEN {a, Whole} ELSE {}, t, Entries(clients) \ Entries(clients'))
        /\ UNCHANGED <<now, authenticated, nextAuthSweep, watched>>

\* allowClient: the process has already paid for the request.
AllowClient(c, t) ==
    /\ authenticated' = Charged(authenticated, nextAuthSweep, c, t)
    /\ nextAuthSweep' = DueAfter(authenticated, nextAuthSweep, c, t)
    /\ Record(IF Pays(authenticated, nextAuthSweep, c, t) THEN {c} ELSE {}, t,
              Entries(authenticated) \ Entries(authenticated'))
    /\ UNCHANGED <<now, global, clients, nextSweep, watched>>

Tick ==
    /\ now < MaxTime /\ now' = now + 1
    /\ UNCHANGED <<global, clients, authenticated, nextSweep, nextAuthSweep, watched, spent, drops>>

CallAllow == \E t \in Readings : AllowExhausted(t) \/ \E a \in Address : Allow(a, t)
CallAllowClient == \E t \in Readings, c \in Client : AllowClient(c, t)

Next == CallAllow \/ CallAllowClient \/ Tick

Spec == Init /\ [][Next]_vars

-----------------------------------------------------------------------------
(* Properties.                                                             *)

\* Whatever the order in which readings reach the mutex, no address, client or
\* process is admitted more than its burst and what its rate gave since, counted
\* from any moment on, and at most Excess for each time its idle entry was
\* dropped and started again with a full bucket (refillBucket, sweepLocked).
Envelope ==
    \A s \in Time : s <= now =>
        spent[s] <= CapacityOf(watched) + (now - s) + drops[s] * Excess

\* A full table turns a newcomer away only because of MaxEntries others that
\* were all admitted within the last TTL + Interval: refused requests do not
\* keep an entry alive and no due sweep is missed (allow, sweepLocked).
RecentlyAdmitted(table, t) == \A k \in Entries(table) : table[k].lastSeen >= t - TTL - Interval
CrowdedOutByActive ==
    \A t \in Readings :
        /\ Full(Sweep(clients, nextSweep, t)) =>
               RecentlyAdmitted(Sweep(clients, nextSweep, t), t)
        /\ Full(Sweep(authenticated, nextAuthSweep, t)) =>
               RecentlyAdmitted(Sweep(authenticated, nextAuthSweep, t), t)
=============================================================================
