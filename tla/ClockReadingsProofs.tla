------------------------ MODULE ClockReadingsProofs ------------------------
(***************************************************************************)
(* Proofs about RateLimiter, for any number of addresses and clients, any   *)
(* rates and any order of the readings, and about SessionActivity, for any  *)
(* number of tabs, any lifetimes that NewTokenManager accepts and any       *)
(* interleaving of the tabs' requests.                                      *)
(*                                                                          *)
(* Envelope speaks of what was spent, the code only of what is left.  The   *)
(* invariant ties them together: spending and tokens add up to no more than *)
(* the bucket could have held (Within); what was spent stopped growing at   *)
(* the last admitted request (Since); and once an entry has been dropped,   *)
(* so much time has passed that a full bucket is what it would have had     *)
(* anyway, but for the excess (Forgotten).                                  *)
(*                                                                          *)
(* IdleWindow is not inductive: a touch applied late could find the session *)
(* idle out.  ActivityInv adds that the idle expiry is what the last touch  *)
(* made it and that a request on its way to a touch will still find the     *)
(* session live.  LoadRepairs rests on QuietInv, which follows the CSRF     *)
(* token of the quiet tab from the row to the page and back.                *)
(***************************************************************************)
EXTENDS RateLimiter, SessionActivity, TLAPS

\* In these, sp is what was spent and cr what drops gave since each moment.
Within(sp, cr, b, capacity) ==
    \A s \in Time : IF s <= b.last
                    THEN sp[s] + b.tokens <= capacity + (b.last - s) + cr[s]
                    ELSE sp[s] <= cr[s]

Since(sp, cr, b) ==
    \A s \in Time : sp[s] <= cr[s] + (IF s <= b.lastSeen + MaxLag
                                     THEN Capacity + (b.lastSeen + MaxLag - s) ELSE 0)

Forgotten(sp, cr, n) ==
    \A s \in Time : sp[s] <= cr[s] + (IF s <= n - MaxLag THEN n - MaxLag - s ELSE 0)

Accounted(sp, cr, b, n) ==
    IF b = Absent THEN Forgotten(sp, cr, n) ELSE Within(sp, cr, b, Capacity) /\ Since(sp, cr, b)

Added(sp, cost, t) == [s \in Time |-> sp[s] + (IF s <= t THEN cost ELSE 0)]

Given(sp, cr) == [s \in Time |-> cr[s] + (IF sp[s] > 0 THEN Excess ELSE 0)]

Credit == [s \in Time |-> drops[s] * Excess]

Table(K) == [K -> Bucket(Capacity) \cup {Absent}]

-----------------------------------------------------------------------------
(* One bucket.                                                             *)

\* (the bound on the clock, on its own)
LEMMA MaxTimeNat == MaxTime \in Nat
BY RateLimiterAssumption

\* refillBucket keeps a bucket well formed and its clock at or after the
\* reading.
LEMMA RefillType ==
    ASSUME NEW capacity \in Nat, NEW b \in Bucket(capacity), NEW t \in Time
    PROVE  /\ Refill(b, capacity, t) \in Bucket(capacity)
           /\ Refill(b, capacity, t).lastSeen = b.lastSeen
           /\ t <= Refill(b, capacity, t).last
           /\ \A n \in Nat : t <= n /\ b.last <= n => Refill(b, capacity, t).last <= n
BY DEF Refill, Bucket, Time

\* refillBucket gives back no more than the time that passed, once.
LEMMA RefillWithin ==
    ASSUME NEW capacity \in Nat, NEW b \in Bucket(capacity), NEW t \in Time,
           NEW sp \in [Time -> Nat], NEW cr \in [Time -> Nat],
           Within(sp, cr, b, capacity)
    PROVE  Within(sp, cr, Refill(b, capacity, t), capacity)
<1>1. CASE ~(t > b.last)
    BY <1>1 DEF Refill
<1>2. CASE t > b.last
  <2> DEFINE c == Refill(b, capacity, t)
             filled == b.tokens + (t - b.last)
  <2>4. b.tokens \in Nat /\ b.last \in Nat /\ t \in Nat
      BY MaxTimeNat DEF Bucket, Time
  <2>5. c.last = t /\ c.tokens = IF filled > capacity THEN capacity ELSE filled
      BY <1>2 DEF Refill
  <2>1. /\ c.last = t /\ c.tokens \in Nat /\ c.tokens <= capacity
        /\ c.tokens <= b.tokens + (t - b.last)
        /\ b.tokens \in Nat /\ b.last \in Nat /\ t \in Nat
      BY <1>2, <2>4, <2>5
  <2> HIDE DEF c
  <2> SUFFICES ASSUME NEW s \in Time
               PROVE  IF s <= c.last THEN sp[s] + c.tokens <= capacity + (c.last - s) + cr[s]
                      ELSE sp[s] <= cr[s]
      BY DEF Within, c
  <2>2. s \in Nat /\ sp[s] \in Nat /\ cr[s] \in Nat
      BY MaxTimeNat DEF Time
  <2>3. IF s <= b.last THEN sp[s] + b.tokens <= capacity + (b.last - s) + cr[s] ELSE sp[s] <= cr[s]
      BY DEF Within
  <2> QED
      BY <1>2, <2>1, <2>2, <2>3
<1> QED
    BY <1>1, <1>2

\* A request that is paid for moves its cost from the tokens to what was spent.
LEMMA SpendWithin ==
    ASSUME NEW capacity \in Nat, NEW b \in Bucket(capacity), NEW t \in Time, NEW cost \in Nat,
           NEW sp \in [Time -> Nat], NEW cr \in [Time -> Nat],
           Within(sp, cr, b, capacity), t <= b.last, cost <= b.tokens
    PROVE  /\ Spend(b, cost, t) \in Bucket(capacity)
           /\ Within(Added(sp, cost, t), cr, Spend(b, cost, t), capacity)
<1> DEFINE c == Spend(b, cost, t)
<1>1. /\ c.last = b.last /\ c.tokens = b.tokens - cost
      /\ b.tokens \in Nat /\ b.last \in Nat /\ t \in Nat
    BY MaxTimeNat DEF Spend, Bucket, Time
<1>2. c \in Bucket(capacity)
    BY DEF Spend, Bucket, Time
<1>3. ASSUME NEW s \in Time
      PROVE  IF s <= c.last THEN Added(sp, cost, t)[s] + c.tokens <= capacity + (c.last - s) + cr[s]
             ELSE Added(sp, cost, t)[s] <= cr[s]
  <2>1. s \in Nat /\ sp[s] \in Nat /\ cr[s] \in Nat
      BY MaxTimeNat DEF Time
  <2>2. IF s <= b.last THEN sp[s] + b.tokens <= capacity + (b.last - s) + cr[s] ELSE sp[s] <= cr[s]
      BY DEF Within
  <2>3. Added(sp, cost, t)[s] = sp[s] + (IF s <= t THEN cost ELSE 0)
      BY DEF Added
  <2> HIDE DEF c
  <2> QED
      BY <1>1, <2>1, <2>2, <2>3
<1> QED
    BY <1>2, <1>3, Zenon DEF Within

\* At an admitted request, what was spent is bounded by its reading.
LEMMA SinceSpend ==
    ASSUME NEW b \in Bucket(Capacity), NEW sp \in [Time -> Nat], NEW cr \in [Time -> Nat],
           Within(sp, cr, b, Capacity), b.last <= b.lastSeen + MaxLag
    PROVE  Since(sp, cr, b)
<1> SUFFICES ASSUME NEW s \in Time
             PROVE  sp[s] <= cr[s] + (IF s <= b.lastSeen + MaxLag
                                      THEN Capacity + (b.lastSeen + MaxLag - s) ELSE 0)
    BY DEF Since
<1>1. s \in Nat /\ sp[s] \in Nat /\ cr[s] \in Nat
    BY MaxTimeNat DEF Time
<1>2. b.tokens \in Nat /\ b.last \in Nat /\ b.lastSeen \in Nat
    BY MaxTimeNat DEF Bucket, Time
<1>3. IF s <= b.last THEN sp[s] + b.tokens <= Capacity + (b.last - s) + cr[s]
      ELSE sp[s] <= cr[s]
    BY DEF Within
<1> QED
    BY <1>1, <1>2, <1>3, RateLimiterAssumption

\* Within looks at tokens and clock of a bucket, Since at the last admitted
\* request: a refill does not change the latter.
LEMMA SinceSame ==
    ASSUME NEW b, NEW c, NEW sp, NEW cr, Since(sp, cr, b), b.lastSeen = c.lastSeen
    PROVE  Since(sp, cr, c)
BY DEF Since

\* A new entry starts with a full bucket: whatever was spent before was spent
\* long enough ago or is covered by the credit.
LEMMA FreshWithin ==
    ASSUME NEW t \in Time, NEW n \in Time, n <= t + MaxLag, NEW sp \in [Time -> Nat],
           NEW cr \in [Time -> Nat], Forgotten(sp, cr, n)
    PROVE  Fresh(t) \in Bucket(Capacity) /\ Within(sp, cr, Fresh(t), Capacity)
<1>1. /\ Fresh(t) \in Bucket(Capacity) /\ Fresh(t).tokens = Capacity /\ Fresh(t).last = t
      /\ Capacity \in Nat /\ MaxLag \in Nat /\ t \in Nat /\ n \in Nat
  BY RateLimiterAssumption DEF Fresh, Bucket, Time
<1>2. ASSUME NEW s \in Time
      PROVE  IF s <= t THEN sp[s] + Capacity <= Capacity + (t - s) + cr[s] ELSE sp[s] <= cr[s]
  <2>1. s \in Nat /\ sp[s] \in Nat /\ cr[s] \in Nat
    BY MaxTimeNat DEF Time
  <2>2. sp[s] <= cr[s] + (IF s <= n - MaxLag THEN n - MaxLag - s ELSE 0)
    BY DEF Forgotten
  <2>3. QED
    BY <1>1, <2>1, <2>2
<1>3. QED
  BY <1>1, <1>2, Zenon DEF Within

\* (the excess, on its own)
LEMMA ExcessNat == Excess \in Nat /\ Capacity + 2 * MaxLag - TTL <= Excess
BY RateLimiterAssumption DEF Excess

\* What sweepLocked drops has been idle for longer than a bucket needs to fill,
\* but for the excess.
LEMMA SweptForgotten ==
    ASSUME NEW b \in Bucket(Capacity), NEW t \in Time, NEW n \in Time, t <= n,
           NEW sp \in [Time -> Nat], NEW cr \in [Time -> Nat], Since(sp, cr, b),
           b.lastSeen < t - TTL
    PROVE  Forgotten(sp, Given(sp, cr), n)
<1>1. SUFFICES ASSUME NEW s \in Time
               PROVE  sp[s] <= Given(sp, cr)[s]
                               + (IF s <= n - MaxLag THEN n - MaxLag - s ELSE 0)
  BY DEF Forgotten
<1>2. sp[s] <= cr[s] + (IF s <= b.lastSeen + MaxLag
                        THEN Capacity + (b.lastSeen + MaxLag - s) ELSE 0)
  BY DEF Since
<1>3. /\ sp[s] \in Nat /\ cr[s] \in Nat /\ s \in Nat /\ b.lastSeen \in Nat /\ t \in Nat
      /\ n \in Nat /\ Capacity \in Nat /\ MaxLag \in Nat /\ TTL \in Nat
  BY RateLimiterAssumption DEF Bucket, Time
<1>4. Given(sp, cr)[s] = cr[s] + (IF sp[s] > 0 THEN Excess ELSE 0)
  BY DEF Given
<1>5. CASE sp[s] = 0
  BY <1>3, <1>4, <1>5, ExcessNat
<1>6. CASE sp[s] > 0
  <2>1. Given(sp, cr)[s] = cr[s] + Excess
    BY <1>4, <1>6
  <2>2. b.lastSeen + MaxLag - s <= n - MaxLag - s + 2 * MaxLag - TTL
    BY <1>3
  <2>3. QED
    BY <1>2, <1>3, <2>1, <2>2, ExcessNat
<1>7. QED
  BY <1>3, <1>5, <1>6

-----------------------------------------------------------------------------
(* A table of buckets.                                                     *)

\* An absent entry is told apart from every bucket.
LEMMA AbsentIsNone == Absent \notin Bucket(Capacity)
BY DEF Absent, Bucket

\* The bucket a call works with is well formed, and as recent as its reading.
LEMMA FoundType ==
    ASSUME NEW K, NEW table \in Table(K), NEW k \in K, NEW t \in Time
    PROVE  /\ Found(table, k, t) \in Bucket(Capacity)
           /\ t <= Found(table, k, t).last
           /\ \A n \in Nat : t <= n /\ table[k].last <= n => Found(table, k, t).last <= n
<1>1. Capacity \in Nat
    BY RateLimiterAssumption
<1>2. CASE table[k] = Absent
    BY <1>1, <1>2, MaxTimeNat DEF Found, Fresh, Bucket, Time
<1>3. CASE table[k] # Absent
  <2>1. table[k] \in Bucket(Capacity) /\ Found(table, k, t) = Refill(table[k], Capacity, t)
      BY <1>3 DEF Found, Table
  <2> QED
      BY <1>1, <2>1, RefillType
<1> QED
    BY <1>2, <1>3

\* sweepLocked keeps an entry as it is or drops it.
LEMMA SweepEntry ==
    ASSUME NEW K, NEW table \in Table(K), NEW due \in Nat, NEW t \in Time, NEW k \in K
    PROVE  /\ Sweep(table, due, t) \in Table(K)
           /\ \/ Sweep(table, due, t)[k] = table[k]
              \/ Sweep(table, due, t)[k] = Absent /\ table[k].lastSeen < t - TTL
BY DEF Sweep, Table

\* A call leaves the entries of others as they are or drops them.
LEMMA ChargedOther ==
    ASSUME NEW K, NEW table \in Table(K), NEW due \in Nat, NEW t \in Time,
           NEW k \in K, NEW j \in K, j # k
    PROVE  \/ Charged(table, due, j, t)[k] = table[k]
           \/ Charged(table, due, j, t)[k] = Absent /\ table[k].lastSeen < t - TTL
<1>1. Sweep(table, due, t) \in Table(K) /\ Searched(table, due, j, t) \in Table(K)
    BY SweepEntry DEF Searched
<1>2. \/ Charged(table, due, j, t)[k] = Sweep(table, due, t)[k]
      \/ Charged(table, due, j, t)[k] = table[k]
    BY <1>1, Zenon DEF Charged, Searched, Table
<1>3. \/ Sweep(table, due, t)[k] = table[k]
      \/ Sweep(table, due, t)[k] = Absent /\ table[k].lastSeen < t - TTL
    BY SweepEntry, Zenon
<1> QED
    BY <1>2, <1>3, Zenon

\* A call leaves its own entry out, refills it, or refills it and takes the cost.
LEMMA ChargedSelf ==
    ASSUME NEW K, NEW table \in Table(K), NEW due \in Nat, NEW t \in Time, NEW k \in K
    PROVE  \/ /\ NoRoom(table, due, k, t) /\ ~Pays(table, due, k, t)
              /\ table[k] = Absent /\ Charged(table, due, k, t)[k] = Absent
           \/ /\ ~NoRoom(table, due, k, t) /\ ~Pays(table, due, k, t) /\ table[k] # Absent
              /\ Charged(table, due, k, t)[k] = Found(table, k, t)
           \/ /\ ~NoRoom(table, due, k, t) /\ Pays(table, due, k, t)
              /\ Charged(table, due, k, t)[k] = Spend(Found(table, k, t), Cost, t)
              /\ Cost <= Found(table, k, t).tokens
<1>1. Searched(table, due, k, t) \in Table(K) /\ Sweep(table, due, t) \in Table(K)
    BY SweepEntry DEF Searched
<1>2. CASE NoRoom(table, due, k, t)
    BY <1>1, <1>2, SweepEntry, Zenon DEF NoRoom, Pays, Charged
<1>3. CASE ~NoRoom(table, due, k, t)
  <2>1. Charged(table, due, k, t)[k] =
            IF Pays(table, due, k, t) THEN Spend(Found(table, k, t), Cost, t)
            ELSE Found(table, k, t)
      BY <1>1, <1>3 DEF Charged, Table
  <2>2. Found(table, k, t).tokens \in Int /\ Cost \in Nat
      BY FoundType, RateLimiterAssumption DEF Bucket
  <2>3. table[k] = Absent => Pays(table, due, k, t)
      BY <1>3, RateLimiterAssumption DEF Pays, Found, Fresh
  <2> QED
      BY <1>3, <2>1, <2>2, <2>3, Zenon DEF Pays
<1> QED
    BY <1>2, <1>3, Zenon

\* A call keeps a table well formed and its clocks in the past.
LEMMA ChargedType ==
    ASSUME NEW K, NEW table \in Table(K), NEW due \in Nat, NEW t \in Time, NEW j \in K,
           NEW n \in Time, t <= n, \A k \in K : table[k].last <= n
    PROVE  /\ Charged(table, due, j, t) \in Table(K)
           /\ \A k \in K : Charged(table, due, j, t)[k].last <= n
<1>1. Searched(table, due, j, t) \in Table(K) /\ Sweep(table, due, t) \in Table(K)
    BY SweepEntry DEF Searched
<1>2. Found(table, j, t) \in Bucket(Capacity) /\ Found(table, j, t).last <= n
    BY FoundType, MaxTimeNat DEF Time
<1>3. Pays(table, due, j, t) =>
        /\ Spend(Found(table, j, t), Cost, t) \in Bucket(Capacity)
        /\ Spend(Found(table, j, t), Cost, t).last <= n
    BY <1>2, RateLimiterAssumption DEF Pays, Spend, Bucket, Time
<1>4. Charged(table, due, j, t) \in Table(K)
    BY <1>1, <1>2, <1>3, Zenon DEF Charged, Table
<1>5. Absent.last <= n
    BY MaxTimeNat DEF Absent, Time
<1>6. Charged(table, due, j, t)[j].last <= n
    BY <1>2, <1>3, <1>5, ChargedSelf
<1>7. ASSUME NEW k \in K, k # j
      PROVE  Charged(table, due, j, t)[k].last <= n
    BY <1>5, <1>7, ChargedOther
<1> QED
    BY <1>4, <1>6, <1>7

\* The account of the payer that makes the call.
LEMMA AccountedSelf ==
    ASSUME NEW K, NEW table \in Table(K), NEW due \in Nat, NEW t \in Time, NEW k \in K,
           NEW n \in Time, t <= n, n <= t + MaxLag, table[k].last <= n,
           NEW sp \in [Time -> Nat], NEW cr \in [Time -> Nat],
           Accounted(sp, cr, table[k], n)
    PROVE  Accounted(IF Pays(table, due, k, t) THEN Added(sp, Cost, t) ELSE sp, cr,
                     Charged(table, due, k, t)[k], n)
<1> DEFINE b == Found(table, k, t)
<1>0. n \in Nat /\ Capacity \in Nat /\ Cost \in Nat /\ MaxLag \in Nat
    BY MaxTimeNat, RateLimiterAssumption DEF Time
<1>1. /\ b \in Bucket(Capacity) /\ t <= b.last /\ b.last <= n
      /\ Capacity \in Nat /\ Cost \in Nat /\ MaxLag \in Nat
    BY <1>0, FoundType, Zenon
<1>2. Within(sp, cr, b, Capacity)
  <2>1. CASE table[k] = Absent
      BY <2>1, FreshWithin DEF Accounted, Found
  <2>2. CASE table[k] # Absent
      BY <2>2, <1>1, RefillWithin, Zenon DEF Accounted, Found, Table
  <2> QED
      BY <2>1, <2>2
<1>3. CASE NoRoom(table, due, k, t) /\ ~Pays(table, due, k, t)
           /\ table[k] = Absent /\ Charged(table, due, k, t)[k] = Absent
    BY <1>3
<1>4. CASE ~Pays(table, due, k, t) /\ table[k] # Absent /\ Charged(table, due, k, t)[k] = b
  <2>1. Since(sp, cr, table[k]) /\ table[k] \in Bucket(Capacity)
      BY <1>4 DEF Accounted, Table
  <2>2. b = Refill(table[k], Capacity, t)
      BY <1>4 DEF Found
  <2>3. b.lastSeen = table[k].lastSeen
      BY <1>1, <2>1, <2>2, RefillType
  <2>4. Since(sp, cr, b)
      BY <2>1, <2>3, SinceSame
  <2> QED
      BY <1>1, <1>2, <1>4, <2>4, AbsentIsNone, Zenon DEF Accounted
<1>5. CASE /\ Pays(table, due, k, t)
           /\ Charged(table, due, k, t)[k] = Spend(b, Cost, t) /\ Cost <= b.tokens
  <2> DEFINE sq == Added(sp, Cost, t)
             c == Spend(b, Cost, t)
  <2>1. c \in Bucket(Capacity) /\ Within(sq, cr, c, Capacity)
      BY <1>1, <1>2, <1>5, SpendWithin, Zenon
  <2>2. sq \in [Time -> Nat]
      BY <1>1 DEF Added
  <2>3. c.last <= c.lastSeen + MaxLag
      BY <1>1, MaxTimeNat DEF Spend, Bucket, Time
  <2>4. Since(sq, cr, c)
      BY <2>1, <2>2, <2>3, SinceSpend, Zenon
  <2> QED
      BY <1>5, <2>1, <2>4, AbsentIsNone, Zenon DEF Accounted
<1> QED
    BY <1>3, <1>4, <1>5, ChargedSelf

\* It is not dropped by its own call.
LEMMA SelfStays ==
    ASSUME NEW K, NEW table \in Table(K), NEW due \in Nat, NEW t \in Time, NEW k \in K,
           table[k] # Absent
    PROVE  Charged(table, due, k, t)[k] # Absent
<1>1. Found(table, k, t) \in Bucket(Capacity)
    BY FoundType
<1>2. Found(table, k, t) # Absent
    BY <1>1, AbsentIsNone
<1>3. Spend(Found(table, k, t), Cost, t).lastSeen = t /\ Absent.lastSeen = -1 /\ t \in Nat
    BY MaxTimeNat DEF Spend, Absent, Time
<1>4. Spend(Found(table, k, t), Cost, t) # Absent
    BY <1>3
<1> QED
    BY <1>2, <1>4, ChargedSelf, Zenon

\* The account of every other payer of the table.
LEMMA AccountedOther ==
    ASSUME NEW K, NEW table \in Table(K), NEW due \in Nat, NEW t \in Time, NEW k \in K,
           NEW j \in K, j # k, NEW n \in Time, t <= n,
           NEW sp \in [Time -> Nat], NEW cr \in [Time -> Nat], Accounted(sp, cr, table[k], n)
    PROVE  Accounted(sp, IF table[k] # Absent /\ Charged(table, due, j, t)[k] = Absent
                         THEN Given(sp, cr) ELSE cr,
                     Charged(table, due, j, t)[k], n)
<1>1. CASE Charged(table, due, j, t)[k] = table[k]
    BY <1>1, Zenon
<1>2. CASE /\ Charged(table, due, j, t)[k] = Absent /\ table[k] # Absent
           /\ table[k].lastSeen < t - TTL
  <2>1. table[k] \in Bucket(Capacity) /\ Since(sp, cr, table[k])
      BY <1>2, Zenon DEF Accounted, Table
  <2>2. Forgotten(sp, Given(sp, cr), n)
      BY <1>2, <2>1, SweptForgotten, Zenon
  <2> QED
      BY <1>2, <2>2, Zenon DEF Accounted
<1>3. \/ Charged(table, due, j, t)[k] = table[k]
      \/ Charged(table, due, j, t)[k] = Absent /\ table[k].lastSeen < t - TTL
    BY ChargedOther, Zenon
<1>4. CASE table[k] = Absent
    BY <1>1, <1>3, <1>4, Zenon
<1> QED
    BY <1>1, <1>2, <1>3, <1>4, Zenon

-----------------------------------------------------------------------------
(* The invariant.                                                          *)

Clocks ==
    /\ global.last <= now
    /\ \A a \in Address : clients[a].last <= now
    /\ \A c \in Client : authenticated[c].last <= now

Books ==
    /\ watched = Whole => Within(spent, Credit, global, GlobalCapacity)
    /\ watched \in Address => Accounted(spent, Credit, clients[watched], now)
    /\ watched \in Client => Accounted(spent, Credit, authenticated[watched], now)

LimiterInv == TypeOK /\ Clocks /\ Books

\* What drops gave is a history.
LEMMA CreditNat == ASSUME drops \in [Time -> Nat] PROVE Credit \in [Time -> Nat]
<1>1. ASSUME NEW n \in Nat PROVE n * Excess \in Nat
  BY ExcessNat
<1>2. QED
  BY <1>1 DEF Credit

\* The limiter starts with nothing spent (newAuthenticationRateLimiter).
LEMMA InitLimiter == Init => LimiterInv
<1> SUFFICES ASSUME Init PROVE LimiterInv
    OBVIOUS
<1>1. TypeOK
    BY RateLimiterAssumption DEF Init, TypeOK, Time, Bucket, Payer
<1>2. Clocks
    BY DEF Init, Clocks, Absent
<1>3. Within(spent, Credit, global, GlobalCapacity)
    BY <1>1, CreditNat, RateLimiterAssumption DEF Init, TypeOK, Within, Time
<1>4. Forgotten(spent, Credit, now)
    BY <1>1, CreditNat, RateLimiterAssumption DEF Init, TypeOK, Forgotten, Time
<1> QED
    BY <1>1, <1>2, <1>3, <1>4, Zenon DEF Init, LimiterInv, Books, Accounted

\* The three kinds of payer are apart.
LEMMA PayersApart == Address \cap Client = {} /\ Whole \notin Address /\ Whole \notin Client
BY RateLimiterAssumption

\* What Record adds is what Added and Given add.
LEMMA RecordAdds ==
    ASSUME drops \in [Time -> Nat], NEW payers, NEW t \in Time, NEW dropped,
           Record(payers, t, dropped)
    PROVE  /\ spent' = IF watched \in payers THEN Added(spent, CostOf(watched), t) ELSE spent
           /\ drops' \in [Time -> Nat]
           /\ Credit' = IF watched \in dropped THEN Given(spent, Credit) ELSE Credit
<1>1. spent' = IF watched \in payers THEN Added(spent, CostOf(watched), t) ELSE spent
  BY Zenon DEF Record, Added
<1>2. CASE watched \notin dropped
  BY <1>1, <1>2, Zenon DEF Record, Credit
<1>3. CASE watched \in dropped
  <2>1. drops' = [s \in Time |-> drops[s] + (IF spent[s] > 0 THEN 1 ELSE 0)]
    BY <1>3, Zenon DEF Record
  <2>2. drops' \in [Time -> Nat]
    BY <2>1
  <2>3. ASSUME NEW s \in Time PROVE Credit'[s] = Given(spent, Credit)[s]
    <3>1. /\ Credit'[s] = drops'[s] * Excess /\ Credit[s] = drops[s] * Excess
          /\ Given(spent, Credit)[s] = Credit[s] + (IF spent[s] > 0 THEN Excess ELSE 0)
      BY DEF Credit, Given
    <3>2. CASE spent[s] > 0
      <4>1. drops'[s] = drops[s] + 1 /\ drops[s] \in Nat
        BY <2>1, <3>2
      <4>2. \A n, e \in Nat : (n + 1) * e = n * e + e
        OBVIOUS
      <4>3. QED
        BY <3>1, <3>2, <4>1, <4>2, ExcessNat
    <3>3. CASE ~(spent[s] > 0)
      <4>1. drops'[s] = drops[s] + 0 /\ drops[s] \in Nat
        BY <2>1, <3>3
      <4>2. drops[s] * Excess \in Nat
        BY <4>1, ExcessNat
      <4>3. QED
        BY <3>1, <3>3, <4>1, <4>2
    <3>4. QED
      BY <3>2, <3>3
  <2>4. Credit' = Given(spent, Credit)
    BY <2>3, Zenon DEF Credit, Given
  <2>5. QED
    BY <1>1, <1>3, <2>2, <2>4, Zenon
<1>4. QED
  BY <1>2, <1>3

\* The entries of a table.
LEMMA EntriesOf ==
    ASSUME NEW K, NEW table \in Table(K)
    PROVE  \A k : k \in Entries(table) <=> k \in K /\ table[k] # Absent
BY DEF Entries, Table

\* A history with an addition is a history.
LEMMA AddedType ==
    ASSUME NEW sp \in [Time -> Nat], NEW cr \in [Time -> Nat],
           NEW cost \in Nat, NEW t \in Time
    PROVE  Added(sp, cost, t) \in [Time -> Nat]
BY DEF Added

\* The next sweep is due at some time.
LEMMA DueType ==
    ASSUME NEW table, NEW due \in Nat, NEW k, NEW t \in Time
    PROVE  DueAfter(table, due, k, t) \in Nat
<1>1. t \in Nat /\ Interval \in Nat
    BY MaxTimeNat, RateLimiterAssumption DEF Time
<1>2. NextDue(due, t) \in Nat
    BY <1>1 DEF NextDue
<1> QED
    BY <1>2, Zenon DEF DueAfter

\* No call and no tick breaks the books.
LEMMA LimiterStep == LimiterInv /\ [Next]_vars => LimiterInv'
<1> SUFFICES ASSUME LimiterInv, [Next]_vars PROVE LimiterInv'
    OBVIOUS
<1> USE MaxTimeNat
<1>0. /\ now \in Time /\ global \in Bucket(GlobalCapacity)
      /\ clients \in Table(Address) /\ authenticated \in Table(Client)
      /\ nextSweep \in Nat /\ nextAuthSweep \in Nat
      /\ spent \in [Time -> Nat] /\ drops \in [Time -> Nat] /\ watched \in Payer
      /\ Credit \in [Time -> Nat]
      /\ Cost \in Nat /\ GlobalCost \in Nat /\ GlobalCapacity \in Nat /\ Interval \in Nat
    BY CreditNat, RateLimiterAssumption DEF LimiterInv, TypeOK, Table
<1>1. ASSUME NEW t \in Readings, AllowExhausted(t)
      PROVE  LimiterInv'
  <2>1. t \in Time /\ t <= now
      BY DEF Readings
  <2>2. /\ global' = Refill(global, GlobalCapacity, t)
        /\ UNCHANGED <<now, clients, authenticated, nextSweep, nextAuthSweep, watched, spent,
                       drops>>
      BY <1>1 DEF AllowExhausted
  <2>3. global' \in Bucket(GlobalCapacity) /\ global'.last <= now
    <3>1. now \in Nat /\ global.last <= now
        BY <1>0 DEF LimiterInv, Clocks, Time
    <3> QED
        BY <1>0, <2>1, <2>2, <3>1, RefillType, Zenon
  <2>4. TypeOK' /\ Clocks'
      BY <2>2, <2>3, Zenon DEF LimiterInv, TypeOK, Clocks
  <2>5. watched = Whole => Within(spent, Credit, global', GlobalCapacity)
      BY <1>0, <2>1, <2>2, RefillWithin, Zenon DEF LimiterInv, Books
  <2>6. Books'
    <3>1. Credit' = Credit
        BY <2>2, Zenon DEF Credit
    <3> QED
        BY <2>2, <2>5, <3>1, Zenon DEF LimiterInv, Books
  <2> QED
      BY <2>4, <2>6 DEF LimiterInv
<1>2. ASSUME NEW t \in Readings, NEW a \in Address, Allow(a, t)
      PROVE  LimiterInv'
  <2> DEFINE filled == Refill(global, GlobalCapacity, t)
             pays == Pays(clients, nextSweep, a, t)
  <2>1. t \in Time /\ t <= now /\ now <= t + MaxLag
      BY DEF Readings
  <2>2. /\ filled.tokens >= GlobalCost
        /\ global' = IF pays THEN Spend(filled, GlobalCost, t) ELSE filled
        /\ clients' = Charged(clients, nextSweep, a, t)
        /\ nextSweep' = DueAfter(clients, nextSweep, a, t)
        /\ Record(IF pays THEN {a, Whole} ELSE {}, t, Entries(clients) \ Entries(clients'))
        /\ UNCHANGED <<now, authenticated, nextAuthSweep, watched>>
      BY <1>2, Zenon DEF Allow
  <2>3. /\ filled \in Bucket(GlobalCapacity) /\ t <= filled.last /\ filled.last <= now
    <3>1. now \in Nat /\ global.last <= now
        BY <1>0 DEF LimiterInv, Clocks, Time
    <3> QED
        BY <1>0, <2>1, <3>1, RefillType, Zenon
  <2>4. Spend(filled, GlobalCost, t) \in Bucket(GlobalCapacity)
        /\ Spend(filled, GlobalCost, t).last <= now
      BY <1>0, <2>1, <2>2, <2>3 DEF Spend, Bucket
  <2>5. global' \in Bucket(GlobalCapacity) /\ global'.last <= now
      BY <2>2, <2>3, <2>4, Zenon
  <2>6. clients' \in Table(Address) /\ \A k \in Address : clients'[k].last <= now
      BY <1>0, <2>1, <2>2, ChargedType, Zenon DEF LimiterInv, Clocks
  <2>7. nextSweep' \in Nat
      BY <1>0, <2>1, <2>2, DueType, Zenon
  <2>8. /\ spent' = IF watched \in (IF pays THEN {a, Whole} ELSE {})
                    THEN Added(spent, CostOf(watched), t) ELSE spent
        /\ drops' \in [Time -> Nat]
        /\ Credit' = IF watched \in Entries(clients) \ Entries(clients')
                     THEN Given(spent, Credit) ELSE Credit
      BY <1>0, <2>1, <2>2, RecordAdds, Zenon
  <2>9. spent' \in [Time -> Nat]
      BY <1>0, <2>1, <2>8, AddedType, Zenon DEF CostOf
  <2>10. TypeOK' /\ Clocks'
      BY <2>2, <2>5, <2>6, <2>7, <2>8, <2>9, Zenon DEF LimiterInv, TypeOK, Clocks, Table
  <2> DEFINE gone == watched \in Address /\ clients[watched] # Absent /\ clients'[watched] = Absent
  <2>15. Credit' = IF gone THEN Given(spent, Credit) ELSE Credit
      BY <1>0, <2>6, <2>8, EntriesOf, Zenon
  <2>11. CASE watched = Whole
    <3>1. Within(spent, Credit, filled, GlobalCapacity)
        BY <1>0, <2>1, <2>11, RefillWithin, Zenon DEF LimiterInv, Books
    <3>2. Within(Added(spent, GlobalCost, t), Credit, Spend(filled, GlobalCost, t), GlobalCapacity)
        BY <1>0, <2>1, <2>2, <2>3, <3>1, SpendWithin, Zenon DEF Bucket
    <3>3. spent' = IF pays THEN Added(spent, GlobalCost, t) ELSE spent
        BY <2>8, <2>11 DEF CostOf
    <3>4. Within(spent', Credit', global', GlobalCapacity)
        BY <2>2, <2>11, <2>15, <3>1, <3>2, <3>3, PayersApart, Zenon
    <3> QED
        BY <2>2, <2>10, <2>11, <3>4, PayersApart, Zenon DEF LimiterInv, Books
  <2>12. CASE watched = a
    <3>1. Accounted(spent, Credit, clients[a], now) /\ clients[a].last <= now
        BY <2>12 DEF LimiterInv, Books, Clocks
    <3>2. spent' = IF pays THEN Added(spent, Cost, t) ELSE spent
        BY <2>8, <2>12, PayersApart DEF CostOf
    <3>3. Accounted(spent', Credit, clients'[a], now)
        BY <1>0, <2>1, <2>2, <3>1, <3>2, AccountedSelf, Zenon
    <3>4. Credit' = Credit
        BY <1>0, <2>1, <2>2, <2>12, <2>15, SelfStays, Zenon
    <3> QED
        BY <2>2, <2>10, <2>12, <3>3, <3>4, PayersApart, Zenon DEF LimiterInv, Books
  <2>13. CASE watched \in Address /\ watched # a
    <3>1. spent' = spent
        BY <2>8, <2>13, PayersApart
    <3>2. Accounted(spent, Credit', clients'[watched], now)
        BY <1>0, <2>1, <2>2, <2>13, <2>15, AccountedOther, Zenon DEF LimiterInv, Books
    <3> QED
        BY <2>2, <2>10, <2>13, <3>1, <3>2, PayersApart, Zenon DEF LimiterInv, Books
  <2>14. CASE watched \in Client
    <3>1. spent' = spent
        BY <2>8, <2>14, PayersApart
    <3>2. Credit' = Credit
        BY <2>14, <2>15, PayersApart, Zenon
    <3> QED
        BY <2>2, <2>10, <2>14, <3>1, <3>2, PayersApart, Zenon DEF LimiterInv, Books
  <2> QED
      BY <1>0, <2>11, <2>12, <2>13, <2>14 DEF Payer
<1>3. ASSUME NEW t \in Readings, NEW c \in Client, AllowClient(c, t)
      PROVE  LimiterInv'
  <2> DEFINE pays == Pays(authenticated, nextAuthSweep, c, t)
  <2>1. t \in Time /\ t <= now /\ now <= t + MaxLag
      BY DEF Readings
  <2>2. /\ authenticated' = Charged(authenticated, nextAuthSweep, c, t)
        /\ nextAuthSweep' = DueAfter(authenticated, nextAuthSweep, c, t)
        /\ Record(IF pays THEN {c} ELSE {}, t, Entries(authenticated) \ Entries(authenticated'))
        /\ UNCHANGED <<now, global, clients, nextSweep, watched>>
      BY <1>3 DEF AllowClient
  <2>3. authenticated' \in Table(Client) /\ \A k \in Client : authenticated'[k].last <= now
      BY <1>0, <2>1, <2>2, ChargedType, Zenon DEF LimiterInv, Clocks
  <2>4. nextAuthSweep' \in Nat
      BY <1>0, <2>1, <2>2, DueType, Zenon
  <2>5. /\ spent' = IF watched \in (IF pays THEN {c} ELSE {})
                    THEN Added(spent, CostOf(watched), t) ELSE spent
        /\ drops' \in [Time -> Nat]
        /\ Credit' = IF watched \in Entries(authenticated) \ Entries(authenticated')
                     THEN Given(spent, Credit) ELSE Credit
      BY <1>0, <2>1, <2>2, RecordAdds, Zenon
  <2>6. spent' \in [Time -> Nat]
      BY <1>0, <2>1, <2>5, AddedType, Zenon DEF CostOf
  <2>7. TypeOK' /\ Clocks'
      BY <2>2, <2>3, <2>4, <2>5, <2>6, Zenon DEF LimiterInv, TypeOK, Clocks, Table
  <2> DEFINE gone == /\ watched \in Client /\ authenticated[watched] # Absent
                     /\ authenticated'[watched] = Absent
  <2>11. Credit' = IF gone THEN Given(spent, Credit) ELSE Credit
      BY <1>0, <2>3, <2>5, EntriesOf, Zenon
  <2>8. CASE watched = c
    <3>1. Accounted(spent, Credit, authenticated[c], now) /\ authenticated[c].last <= now
        BY <2>8 DEF LimiterInv, Books, Clocks
    <3>2. spent' = IF pays THEN Added(spent, Cost, t) ELSE spent
        BY <2>5, <2>8, PayersApart DEF CostOf
    <3>3. Accounted(spent', Credit, authenticated'[c], now)
        BY <1>0, <2>1, <2>2, <3>1, <3>2, AccountedSelf, Zenon
    <3>4. Credit' = Credit
        BY <1>0, <2>1, <2>2, <2>8, <2>11, SelfStays, Zenon
    <3> QED
        BY <2>2, <2>7, <2>8, <3>3, <3>4, PayersApart, Zenon DEF LimiterInv, Books
  <2>9. CASE watched \in Client /\ watched # c
    <3>1. spent' = spent
        BY <2>5, <2>9
    <3>2. Accounted(spent, Credit', authenticated'[watched], now)
        BY <1>0, <2>1, <2>2, <2>9, <2>11, AccountedOther, Zenon DEF LimiterInv, Books
    <3> QED
        BY <2>2, <2>7, <2>9, <3>1, <3>2, PayersApart, Zenon DEF LimiterInv, Books
  <2>10. CASE watched \notin Client
    <3>1. spent' = spent
        BY <2>5, <2>10
    <3>2. Credit' = Credit
        BY <2>10, <2>11, Zenon
    <3> QED
        BY <2>2, <2>7, <2>10, <3>1, <3>2, Zenon DEF LimiterInv, Books
  <2> QED
      BY <2>8, <2>9, <2>10
<1>4. CASE Tick
  <2>1. now' = now + 1 /\ now < MaxTime
        /\ UNCHANGED <<global, clients, authenticated, nextSweep, nextAuthSweep, watched, spent,
                       drops>>
      BY <1>4 DEF Tick
  <2>2. TypeOK'
      BY <1>0, <2>1 DEF LimiterInv, TypeOK, Time
  <2>3. Clocks'
    <3>1. ASSUME NEW a \in Address PROVE clients[a].last \in Int
        BY <1>0 DEF Table, Bucket, Absent, Time
    <3>2. ASSUME NEW c \in Client PROVE authenticated[c].last \in Int
        BY <1>0 DEF Table, Bucket, Absent, Time
    <3>3. global.last \in Int /\ now \in Int
        BY <1>0 DEF Bucket, Time
    <3> QED
        BY <2>1, <3>1, <3>2, <3>3 DEF LimiterInv, Clocks
  <2>4. Forgotten(spent, Credit, now) => Forgotten(spent, Credit, now')
      BY <1>0, <2>1, RateLimiterAssumption DEF Forgotten, Time
  <2>6. Credit' = Credit
      BY <2>1, Zenon DEF Credit
  <2>5. \A b : Accounted(spent, Credit, b, now) => Accounted(spent, Credit, b, now')
      BY <2>4 DEF Accounted
  <2> QED
      BY <2>1, <2>2, <2>3, <2>5, <2>6, Zenon DEF LimiterInv, Books
<1>5. CASE UNCHANGED vars
    BY <1>5, Zenon DEF vars, LimiterInv, TypeOK, Clocks, Books, Credit
<1> QED
    BY <1>1, <1>2, <1>3, <1>4, <1>5 DEF Next, CallAllow, CallAllowClient

\* The books always balance (allow, allowClient, their sweeps and the clock).
THEOREM LimiterInvariant == Spec => []LimiterInv
<1> QED
    BY InitLimiter, LimiterStep, PTL DEF Spec

\* From any moment on no address, no client and not the process is admitted more
\* than its burst, what its rate gave since and the excess of each time its entry
\* was dropped, for every burst and rate, whatever the order in which old readings
\* reach refillBucket and whatever sweepLocked drops.
THEOREM EnvelopeHolds == Spec => []Envelope
<1>1. LimiterInv => Envelope
  <2> SUFFICES ASSUME LimiterInv, NEW s \in Time, s <= now
               PROVE  spent[s] <= CapacityOf(watched) + (now - s) + drops[s] * Excess
      BY DEF Envelope
  <2>1. /\ s \in Nat /\ now \in Nat /\ MaxLag \in Nat /\ spent[s] \in Nat
        /\ Capacity \in Nat /\ GlobalCapacity \in Nat /\ watched \in Payer
        /\ Credit[s] \in Nat
      BY MaxTimeNat, CreditNat, RateLimiterAssumption DEF LimiterInv, TypeOK, Time
  <2>2. ASSUME NEW b, NEW capacity \in Nat, b \in Bucket(capacity), b.last <= now,
               Within(spent, Credit, b, capacity)
        PROVE  spent[s] <= capacity + (now - s) + Credit[s]
    <3>1. b.tokens \in Nat /\ b.last \in Nat
        BY <2>2, MaxTimeNat DEF Bucket, Time
    <3>2. IF s <= b.last THEN spent[s] + b.tokens <= capacity + (b.last - s) + Credit[s]
          ELSE spent[s] <= Credit[s]
        BY <2>2 DEF Within
    <3> QED
        BY <2>1, <2>2, <3>1, <3>2
  <2>3. ASSUME NEW b \in Bucket(Capacity) \cup {Absent}, b.last <= now,
               Accounted(spent, Credit, b, now)
        PROVE  spent[s] <= Capacity + (now - s) + Credit[s]
    <3>1. CASE b = Absent
      <4>1. Forgotten(spent, Credit, now)
          BY <2>3, <3>1 DEF Accounted
      <4> QED
          BY <2>1, <4>1 DEF Forgotten
    <3>2. CASE b # Absent
        BY <2>1, <2>2, <2>3, <3>2 DEF Accounted
    <3> QED
        BY <3>1, <3>2
  <2>7. Credit[s] = drops[s] * Excess
      BY DEF Credit
  <2>4. CASE watched = Whole
      BY <2>1, <2>2, <2>4, <2>7, Zenon DEF LimiterInv, TypeOK, Clocks, Books, CapacityOf
  <2>5. CASE watched \in Address
      BY <2>3, <2>5, <2>7, PayersApart, Zenon DEF LimiterInv, TypeOK, Clocks, Books, CapacityOf
  <2>6. CASE watched \in Client
      BY <2>3, <2>6, <2>7, PayersApart, Zenon DEF LimiterInv, TypeOK, Clocks, Books, CapacityOf
  <2> QED
      BY <2>1, <2>4, <2>5, <2>6 DEF Payer
<1> QED
    BY <1>1, LimiterInvariant, PTL

-----------------------------------------------------------------------------
(* Who fills a table.                                                      *)

Active(K, table, due) ==
    \A k \in K : table[k] # Absent => table[k].lastSeen >= due - Interval - TTL

\* A sweep that is not due leaves nothing older than an interval and the time to
\* live, one that is due nothing older than the time to live (sweepLocked).
LEMMA SweepActive ==
    ASSUME NEW K, NEW table \in Table(K), NEW due \in Nat, NEW t \in Time,
           Active(K, table, due)
    PROVE  Active(K, Sweep(table, due, t), NextDue(due, t))
<1> SUFFICES ASSUME NEW k \in K, Sweep(table, due, t)[k] # Absent
             PROVE  Sweep(table, due, t)[k].lastSeen >= NextDue(due, t) - Interval - TTL
    BY DEF Active
<1>1. CASE t < due
    BY <1>1 DEF Sweep, NextDue, Active
<1>2. CASE ~(t < due)
  <2>1. Sweep(table, due, t)[k] = IF table[k].lastSeen < t - TTL THEN Absent ELSE table[k]
      BY <1>2 DEF Sweep, Table
  <2>2. table[k].lastSeen \in Int /\ t \in Int /\ Interval \in Int /\ TTL \in Int
      BY MaxTimeNat, RateLimiterAssumption DEF Table, Bucket, Absent, Time
  <2>3. NextDue(due, t) = t + Interval
      BY <1>2 DEF NextDue
  <2> QED
      BY <2>1, <2>2, <2>3
<1> QED
    BY <1>1, <1>2

\* A call keeps every entry of a table that recent (allow, allowClient).
LEMMA ChargedActive ==
    ASSUME NEW K, NEW table \in Table(K), NEW due \in Nat, NEW t \in Time, NEW j \in K,
           NEW n \in Time, t <= n, n <= t + MaxLag, due <= n + Interval,
           Active(K, table, due)
    PROVE  /\ Active(K, Charged(table, due, j, t), DueAfter(table, due, j, t))
           /\ DueAfter(table, due, j, t) \in Nat
           /\ DueAfter(table, due, j, t) <= n + Interval
<1> DEFINE next == DueAfter(table, due, j, t)
<1>1. /\ t \in Nat /\ n \in Nat /\ MaxLag \in Nat /\ Interval \in Nat /\ TTL \in Nat
      /\ MaxLag <= TTL
    BY MaxTimeNat, RateLimiterAssumption DEF Time
<1>2. next \in Nat /\ next <= n + Interval
    BY <1>1 DEF DueAfter, NextDue
<1>3. t >= next - Interval - TTL
    BY <1>1, <1>2
<1>4. Active(K, Searched(table, due, j, t), next)
    BY SweepActive DEF Searched, DueAfter
<1>5. NoRoom(table, due, j, t) => Charged(table, due, j, t) = Searched(table, due, j, t)
    BY DEF NoRoom, Charged, Searched
<1>6. ASSUME NEW k \in K, k # j, Charged(table, due, j, t)[k] # Absent
      PROVE  Charged(table, due, j, t)[k].lastSeen >= next - Interval - TTL
  <2>1. Searched(table, due, j, t) \in Table(K)
      BY SweepEntry DEF Searched
  <2>2. Charged(table, due, j, t)[k] = Searched(table, due, j, t)[k]
      BY <1>5, <1>6, <2>1, Zenon DEF Charged, Table
  <2> QED
      BY <1>4, <1>6, <2>2, Zenon DEF Active
<1>7. ASSUME Charged(table, due, j, t)[j] # Absent
      PROVE  Charged(table, due, j, t)[j].lastSeen >= next - Interval - TTL
  <2>1. CASE /\ table[j] # Absent /\ Charged(table, due, j, t)[j] = Found(table, j, t)
    <3>1. /\ next = due /\ table[j] \in Bucket(Capacity)
          /\ Found(table, j, t) = Refill(table[j], Capacity, t)
        BY <2>1 DEF DueAfter, Found, Table
    <3>2. Found(table, j, t).lastSeen = table[j].lastSeen
        BY <3>1, RefillType, RateLimiterAssumption, SMTT(30)
    <3> QED
        BY <2>1, <3>1, <3>2, Zenon DEF Active
  <2>2. CASE Charged(table, due, j, t)[j] = Spend(Found(table, j, t), Cost, t)
      BY <2>2, <1>3, SMTT(30) DEF Spend
  <2> QED
      BY <1>7, <2>1, <2>2, ChargedSelf, SMTT(30)
<1> HIDE DEF next
<1>8. Active(K, Charged(table, due, j, t), next)
    BY <1>6, <1>7, Zenon DEF Active
<1> QED
    BY <1>2, <1>8 DEF next

Recent ==
    /\ nextSweep <= now + Interval /\ Active(Address, clients, nextSweep)
    /\ nextAuthSweep <= now + Interval /\ Active(Client, authenticated, nextAuthSweep)

\* No call and no tick leaves an entry in a table for longer than that.
LEMMA RecentStep == LimiterInv /\ Recent /\ [Next]_vars => Recent'
<1> SUFFICES ASSUME LimiterInv, Recent, [Next]_vars PROVE Recent'
    OBVIOUS
<1>0. /\ now \in Time /\ nextSweep \in Nat /\ nextAuthSweep \in Nat
      /\ clients \in Table(Address) /\ authenticated \in Table(Client)
      /\ now \in Nat /\ Interval \in Nat
    BY MaxTimeNat, RateLimiterAssumption DEF LimiterInv, TypeOK, Table, Time
<1>1. ASSUME NEW t \in Readings, AllowExhausted(t)
      PROVE  Recent'
    BY <1>1 DEF AllowExhausted, Recent
<1>2. ASSUME NEW t \in Readings, NEW a \in Address, Allow(a, t)
      PROVE  Recent'
  <2>1. t \in Time /\ t <= now /\ now <= t + MaxLag
      BY DEF Readings
  <2>2. /\ Active(Address, Charged(clients, nextSweep, a, t), DueAfter(clients, nextSweep, a, t))
        /\ DueAfter(clients, nextSweep, a, t) <= now + Interval
      BY <1>0, <2>1, ChargedActive, Zenon DEF Recent
  <2> QED
      BY <1>2, <2>2, Zenon DEF Allow, Recent
<1>3. ASSUME NEW t \in Readings, NEW c \in Client, AllowClient(c, t)
      PROVE  Recent'
  <2>1. t \in Time /\ t <= now /\ now <= t + MaxLag
      BY DEF Readings
  <2>2. /\ Active(Client, Charged(authenticated, nextAuthSweep, c, t),
                  DueAfter(authenticated, nextAuthSweep, c, t))
        /\ DueAfter(authenticated, nextAuthSweep, c, t) <= now + Interval
      BY <1>0, <2>1, ChargedActive, Zenon DEF Recent
  <2> QED
      BY <1>3, <2>2, Zenon DEF AllowClient, Recent
<1>4. CASE Tick
    BY <1>0, <1>4 DEF Tick, Recent
<1>5. CASE UNCHANGED vars
    BY <1>5 DEF vars, Recent
<1> QED
    BY <1>1, <1>2, <1>3, <1>4, <1>5 DEF Next, CallAllow, CallAllowClient

\* A full table holds only payers admitted within the time to live and one sweep
\* interval: no due sweep is missed, and what is refused keeps no entry alive.
THEOREM CrowdedOutByActiveHolds == Spec => []CrowdedOutByActive
<1>1. Init => Recent
    BY RateLimiterAssumption DEF Init, Recent, Active
<1>2. LimiterInv /\ Recent => CrowdedOutByActive
  <2>1. ASSUME NEW K, NEW table \in Table(K), NEW due \in Nat, NEW t \in Time,
               Active(K, table, due)
        PROVE  RecentlyAdmitted(Sweep(table, due, t), t)
    <3>1. Active(K, Sweep(table, due, t), NextDue(due, t))
        BY <2>1, SweepActive
    <3>2. /\ Sweep(table, due, t) \in [K -> Bucket(Capacity) \cup {Absent}]
          /\ \A k \in K : Sweep(table, due, t)[k].lastSeen \in Int
      <4>1. Sweep(table, due, t) \in Table(K)
          BY DEF Sweep, Table
      <4> QED
          BY <4>1, MaxTimeNat DEF Table, Bucket, Absent, Time
    <3>3. t \in Nat /\ Interval \in Nat /\ TTL \in Nat /\ NextDue(due, t) \in Nat
          /\ t <= NextDue(due, t)
        BY MaxTimeNat, RateLimiterAssumption DEF Time, NextDue
    <3> SUFFICES ASSUME NEW k \in Entries(Sweep(table, due, t))
                 PROVE  Sweep(table, due, t)[k].lastSeen >= t - TTL - Interval
        BY DEF RecentlyAdmitted
    <3>4. k \in K /\ Sweep(table, due, t)[k] # Absent
        BY <3>2 DEF Entries
    <3> QED
        BY <3>1, <3>2, <3>3, <3>4 DEF Active
  <2>2. LimiterInv => /\ clients \in Table(Address) /\ authenticated \in Table(Client)
                      /\ nextSweep \in Nat /\ nextAuthSweep \in Nat
      BY DEF LimiterInv, TypeOK, Table
  <2> QED
      BY <2>1, <2>2 DEF Recent, CrowdedOutByActive, Readings
<1> QED
    BY <1>1, <1>2, LimiterInvariant, RecentStep, PTL DEF Spec

-----------------------------------------------------------------------------
(* A session: types.                                                       *)

\* A request is under way exactly when it has left "idle".
LEMMA RequestRow ==
  ASSUME SessionTypeOK, NEW b \in Tab, request[b].at # "idle"
  PROVE  request[b] \in InFlight
  BY DEF SessionTypeOK, Idle

\* The request after EnsureCSRF.
LEMMA AnswerType ==
  ASSUME NEW q \in InFlight, NEW k \in Token
  PROVE  /\ Answer(q, k) \in InFlight
         /\ Answer(q, k).at = "respond" /\ Answer(q, k).token = k
         /\ Answer(q, k).kind = q.kind /\ Answer(q, k).cookie = q.cookie
<1>1. 0 \in Token
  BY SessionAssumption DEF Token
<1>. QED BY <1>1, Zenon DEF InFlight, Answer

\* The row after a touch.
LEMMA TouchedType ==
  ASSUME row \in Row, NEW t \in Nat
  PROVE  /\ Touched(t) \in Row
         /\ Touched(t).lastSeen = t /\ Touched(t).revoked = row.revoked
         /\ Touched(t).csrf = row.csrf /\ Touched(t).csrfExpires = row.csrfExpires
         /\ Touched(t).idle = Earlier(Expires, t + IdleTimeout)
<1>1. SessionTTL \in Nat /\ IdleTimeout \in Nat
  BY SessionAssumption DEF ValidLifetimes
<1> DEFINE e == Earlier(Expires, NextIdleExpiry(t))
<1>2. e \in Nat /\ e = Earlier(Expires, t + IdleTimeout)
  BY <1>1 DEF NextIdleExpiry, Earlier, Expires
<1>3. Touched(t) = [row EXCEPT !.lastSeen = t, !.idle = e]
  BY DEF Touched
<1> HIDE DEF e
<1>. QED BY <1>2, <1>3, Zenon DEF Row

\* The state is well typed at the sign-in.
LEMMA InitType == SessionInit => SessionTypeOK
  BY SessionAssumption DEF SessionInit, SessionTypeOK, ValidLifetimes, Row, Token, Idle

\* What FindLoginSession does to a live session's request.
FoundBy(b) ==
    LET q == request[b]
        fresh == q.now - row.lastSeen < TouchEvery
    IN  /\ request[b] \in InFlight /\ q.at = "find" /\ Live(q.now)
        /\ request' = [request EXCEPT ![b] = request'[b]]
        /\ request'[b] \in InFlight
        /\ request'[b].at = IF fresh THEN "ready" ELSE "touch"
        /\ request'[b].now = IF fresh THEN 0 ELSE q.now
        /\ request'[b].csrf = row.csrf /\ request'[b].csrfExpires = row.csrfExpires
        /\ request'[b].kind = q.kind /\ request'[b].cookie = q.cookie
        /\ request'[b].token = q.token
        /\ active' = IF fresh THEN Later(active, q.now) ELSE active
        /\ UNCHANGED <<now, row, jar, page, issued, quiet>>

\* FindLoginSession finds the session live, or ends the request.
LEMMA FindEffect ==
  ASSUME SessionTypeOK, NEW b \in Tab, FindLoginSession(b)
  PROVE  \/ FoundBy(b)
         \/ End(b) /\ quiet' = None /\ UNCHANGED <<now, row, jar, page, issued, active>>
<1> DEFINE q == request[b]
           fresh == q.now - row.lastSeen < TouchEvery
           w == IF fresh THEN "ready" ELSE "touch"
           n == IF fresh THEN 0 ELSE q.now
<1>1. q \in InFlight /\ q.at = "find"
  BY RequestRow DEF FindLoginSession
<1>2. w \in {"ready", "touch"} /\ n \in Nat /\ row.csrf \in Token /\ row.csrfExpires \in Nat
  BY <1>1, Zenon DEF SessionTypeOK, Row, InFlight
<1>3. CASE Live(q.now)
  <2>1. /\ request' = [request EXCEPT ![b] =
              [q EXCEPT !.at = w, !.now = n, !.csrf = row.csrf, !.csrfExpires = row.csrfExpires]]
        /\ active' = IF fresh THEN Later(active, q.now) ELSE active
        /\ UNCHANGED <<now, row, jar, page, issued, quiet>>
    BY <1>1, <1>3, Zenon DEF FindLoginSession
  <2>2. request'[b] = [q EXCEPT !.at = w, !.now = n, !.csrf = row.csrf,
                                !.csrfExpires = row.csrfExpires]
    BY <2>1 DEF SessionTypeOK
  <2> HIDE DEF w, n, q
  <2>3. /\ request'[b] \in InFlight
        /\ request'[b].at = w /\ request'[b].now = n
        /\ request'[b].csrf = row.csrf /\ request'[b].csrfExpires = row.csrfExpires
        /\ request'[b].kind = q.kind /\ request'[b].cookie = q.cookie
        /\ request'[b].token = q.token
    BY <1>1, <1>2, <2>2, Zenon DEF InFlight
  <2>4. request' = [request EXCEPT ![b] = request'[b]]
    BY <2>1, <2>2, Zenon
  <2>. QED BY <1>1, <1>3, <2>1, <2>3, <2>4, Zenon DEF FoundBy, w, n, q
<1>4. CASE ~Live(q.now)
  BY <1>4 DEF FindLoginSession
<1>. QED BY <1>3, <1>4

\* TouchLoginSession moves the request on and keeps what it read.
LEMMA TouchEffect ==
  ASSUME SessionTypeOK, NEW b \in Tab, TouchLoginSession(b)
  PROVE  /\ request[b] \in InFlight /\ request[b].at = "touch"
         /\ request' = [request EXCEPT ![b] = request'[b]]
         /\ request'[b] \in InFlight /\ request'[b].at = "ready"
         /\ request'[b].kind = request[b].kind /\ request'[b].cookie = request[b].cookie
         /\ request'[b].token = request[b].token /\ request'[b].csrf = request[b].csrf
         /\ request'[b].csrfExpires = request[b].csrfExpires
<1>1. request[b] \in InFlight /\ request[b].at = "touch"
  BY RequestRow DEF TouchLoginSession
<1>2. request' = [request EXCEPT ![b] = [request[b] EXCEPT !.at = "ready", !.now = 0]]
  BY Zenon DEF TouchLoginSession, SessionTypeOK
<1>3. request'[b] = [request[b] EXCEPT !.at = "ready", !.now = 0]
  BY <1>2 DEF SessionTypeOK
<1>4. request' = [request EXCEPT ![b] = request'[b]]
  BY <1>2, <1>3, Zenon
<1>5. /\ request'[b] \in InFlight /\ request'[b].at = "ready"
      /\ request'[b].kind = request[b].kind /\ request'[b].cookie = request[b].cookie
      /\ request'[b].token = request[b].token /\ request'[b].csrf = request[b].csrf
      /\ request'[b].csrfExpires = request[b].csrfExpires
  <2> DEFINE q == request[b]
             r == request'[b]
  <2>1. q \in InFlight /\ r = [q EXCEPT !.at = "ready", !.now = 0]
    BY <1>1, <1>3
  <2> HIDE DEF q, r
  <2>2. /\ r \in InFlight /\ r.at = "ready" /\ r.kind = q.kind /\ r.cookie = q.cookie
        /\ r.token = q.token /\ r.csrf = q.csrf /\ r.csrfExpires = q.csrfExpires
    BY <2>1, Zenon DEF InFlight
  <2>. QED BY <2>2 DEF q, r
<1>. QED BY <1>1, <1>4, <1>5, Zenon

\* EnsureCSRF answers with the cookie's token or with a new one.
LEMMA EnsureEffect ==
  ASSUME SessionTypeOK, NEW b \in Tab, EnsureCSRF(b)
  PROVE  /\ request[b] \in InFlight /\ request[b].at = "ready" /\ request[b].kind = "load"
         /\ request' = [request EXCEPT ![b] = request'[b]]
         /\ request'[b] \in InFlight /\ request'[b].at = "respond"
         /\ request'[b].kind = "load" /\ request'[b].cookie = request[b].cookie
         /\ \/ /\ request'[b].token = request[b].cookie /\ Valid(request[b], request[b].cookie)
               /\ UNCHANGED <<row, issued>>
            \/ /\ request'[b].token = issued + 1 /\ issued' = issued + 1 /\ issued < MaxToken
               /\ row' = IF row.revoked THEN row
                         ELSE [row EXCEPT !.csrf = issued + 1, !.csrfExpires = now + CsrfTTL]
         /\ UNCHANGED <<now, jar, page, active, quiet>>
<1> DEFINE q == request[b]
<1>1. q \in InFlight /\ q.at = "ready" /\ q.kind = "load"
  BY RequestRow DEF EnsureCSRF
<1>2. q.cookie \in Token
  BY <1>1 DEF InFlight
<1>3. UNCHANGED <<now, jar, page, active, quiet>>
  BY DEF EnsureCSRF
<1>4. CASE Valid(q, q.cookie)
  <2>1. request' = [request EXCEPT ![b] = Answer(q, q.cookie)] /\ UNCHANGED <<row, issued>>
    BY <1>4 DEF EnsureCSRF
  <2>2. request'[b] = Answer(q, q.cookie)
    BY <2>1 DEF SessionTypeOK
  <2>3. request' = [request EXCEPT ![b] = request'[b]]
    BY <2>1, <2>2, Zenon
  <2>4. /\ request'[b] \in InFlight /\ request'[b].at = "respond"
        /\ request'[b].kind = "load" /\ request'[b].cookie = q.cookie
        /\ request'[b].token = q.cookie
    BY <1>1, <1>2, <2>2, AnswerType
  <2>. QED BY <1>1, <1>3, <1>4, <2>1, <2>3, <2>4, Zenon
<1>5. CASE ~Valid(q, q.cookie)
  <2>1. /\ request' = [request EXCEPT ![b] = Answer(q, issued + 1)]
        /\ issued' = issued + 1 /\ issued < MaxToken
        /\ row' = IF row.revoked THEN row
                  ELSE [row EXCEPT !.csrf = issued + 1, !.csrfExpires = now + CsrfTTL]
    BY <1>5 DEF EnsureCSRF
  <2>2. request'[b] = Answer(q, issued + 1)
    BY <2>1 DEF SessionTypeOK
  <2>3. issued + 1 \in Token
    BY <2>1, SessionAssumption DEF SessionTypeOK, Token
  <2>4. request' = [request EXCEPT ![b] = request'[b]]
    BY <2>1, <2>2, Zenon
  <2>5. /\ request'[b] \in InFlight /\ request'[b].at = "respond"
        /\ request'[b].kind = "load" /\ request'[b].cookie = q.cookie
        /\ request'[b].token = issued + 1
    BY <1>1, <2>2, <2>3, AnswerType
  <2>. QED BY <1>1, <1>3, <2>1, <2>4, <2>5, Zenon
<1>. QED BY <1>4, <1>5, Zenon

\* A request that begins.
LEMMA BeginType ==
  ASSUME SessionTypeOK, NEW b \in Tab, NEW kind \in {"load", "mutation"}, Begin(b, kind)
  PROVE  /\ request[b] = Idle /\ request' = [request EXCEPT ![b] = request'[b]]
         /\ request'[b] \in InFlight /\ request'[b].at = "find" /\ request'[b].kind = kind
         /\ request'[b].now = now /\ request'[b].cookie = jar
         /\ kind = "mutation" => request'[b].token = page[b]
<1>1. 0 \in Token /\ page[b] \in Token /\ jar \in Token /\ now \in Nat
  BY SessionAssumption DEF Token, SessionTypeOK
<1> DEFINE r == [at |-> "find", kind |-> kind, now |-> now, cookie |-> jar,
                 token |-> IF kind = "load" THEN 0 ELSE page[b], csrf |-> 0, csrfExpires |-> 0]
<1>2. request[b] = Idle /\ request' = [request EXCEPT ![b] = r]
  BY Zenon DEF Begin
<1>3. request'[b] = r
  BY <1>2, Zenon DEF SessionTypeOK
<1>4. r \in InFlight
  BY <1>1 DEF InFlight
<1>5. request' = [request EXCEPT ![b] = request'[b]]
  BY <1>2, <1>3, Zenon
<1>6. /\ request'[b].at = "find" /\ request'[b].kind = kind
      /\ request'[b].now = now /\ request'[b].cookie = jar
      /\ kind = "mutation" => request'[b].token = page[b]
  BY <1>3, SMTT(30)
<1>. QED BY <1>2, <1>3, <1>4, <1>5, <1>6, Zenon

\* Every step keeps the types.
LEMMA TypeStep == SessionTypeOK /\ [SessionNext]_sessionVars => SessionTypeOK'
<1> SUFFICES ASSUME SessionTypeOK, [SessionNext]_sessionVars PROVE SessionTypeOK'
  OBVIOUS
<1>0. ASSUME NEW b \in Tab, \/ request'[b] \in InFlight
                            \/ request' = [request EXCEPT ![b] = Idle],
             request' = [request EXCEPT ![b] = request'[b]]
      PROVE  request' \in [Tab -> InFlight \cup {Idle}]
  BY <1>0 DEF SessionTypeOK
<1>00. ASSUME NEW b \in Tab, End(b) PROVE request' \in [Tab -> InFlight \cup {Idle}]
  BY <1>00 DEF SessionTypeOK, End
<1>1. ASSUME NEW b \in Tab, NEW kind \in {"load", "mutation"}, Begin(b, kind) PROVE SessionTypeOK'
  <2>1. request' \in [Tab -> InFlight \cup {Idle}]
    BY <1>0, <1>1, BeginType
  <2>2. quiet' \in Tab \cup {None} /\ UNCHANGED <<now, row, jar, page, issued, active>>
    BY <1>1, Zenon DEF Begin
  <2>. QED BY <2>1, <2>2 DEF SessionTypeOK
<1>2. ASSUME NEW b \in Tab, FindLoginSession(b) PROVE SessionTypeOK'
  <2>1. CASE FoundBy(b)
    <3>1. active' \in Nat
      BY <2>1, Zenon DEF FoundBy, SessionTypeOK, Later, InFlight
    <3>2. request' \in [Tab -> InFlight \cup {Idle}]
      BY <1>0, <2>1, Zenon DEF FoundBy
    <3>. QED BY <2>1, <3>1, <3>2, Zenon DEF FoundBy, SessionTypeOK
  <2>2. CASE End(b) /\ quiet' = None /\ UNCHANGED <<now, row, jar, page, issued, active>>
    BY <1>00, <2>2 DEF SessionTypeOK
  <2>. QED BY <1>2, <2>1, <2>2, FindEffect
<1>3. ASSUME NEW b \in Tab, TouchLoginSession(b) PROVE SessionTypeOK'
  <2>1. request' \in [Tab -> InFlight \cup {Idle}] /\ request[b] \in InFlight
    BY <1>0, <1>3, TouchEffect, Zenon
  <2>2. request[b].now \in Nat
    BY <2>1 DEF InFlight
  <2>3. row' \in Row
    BY <1>3, <2>2, TouchedType, Zenon DEF TouchLoginSession, SessionTypeOK
  <2>4. active' \in Nat /\ UNCHANGED <<now, jar, page, issued, quiet>>
    BY <1>3, <2>2 DEF TouchLoginSession, SessionTypeOK, Later
  <2>. QED BY <2>1, <2>3, <2>4 DEF SessionTypeOK
<1>4. ASSUME NEW b \in Tab, EnsureCSRF(b) PROVE SessionTypeOK'
  <2>1. request' \in [Tab -> InFlight \cup {Idle}]
    BY <1>0, <1>4, EnsureEffect, Zenon
  <2>2. row' \in Row /\ issued' \in Token
    <3>1. CASE UNCHANGED <<row, issued>>
      BY <3>1 DEF SessionTypeOK
    <3>2. CASE /\ issued' = issued + 1 /\ issued < MaxToken
               /\ row' = IF row.revoked THEN row
                         ELSE [row EXCEPT !.csrf = issued + 1, !.csrfExpires = now + CsrfTTL]
      <4>1. issued + 1 \in Token /\ now + CsrfTTL \in Nat
        BY <3>2, SessionAssumption DEF SessionTypeOK, Token, ValidLifetimes
      <4>. QED BY <3>2, <4>1, Zenon DEF SessionTypeOK, Row
    <3>. QED BY <1>4, <3>1, <3>2, EnsureEffect, Zenon
  <2>3. UNCHANGED <<now, jar, page, active, quiet>>
    BY <1>4, EnsureEffect, Zenon
  <2>. QED BY <2>1, <2>2, <2>3 DEF SessionTypeOK
<1>5. ASSUME NEW b \in Tab, Respond(b) PROVE SessionTypeOK'
  <2>1. request[b] \in InFlight /\ request[b].token \in Token
    BY <1>5, RequestRow, Zenon DEF Respond, InFlight
  <2>. QED BY <1>5, <1>00, <2>1, Zenon DEF Respond, SessionTypeOK
<1>6. ASSUME NEW b \in Tab, Mutation(b) \/ Lose(b) PROVE SessionTypeOK'
  BY <1>6, <1>00, Zenon DEF Mutation, Lose, SessionTypeOK
<1>7. CASE DropCookie
  BY <1>7, SessionAssumption DEF DropCookie, SessionTypeOK, Token
<1>8. CASE Revoke
  BY <1>8, Zenon DEF Revoke, SessionTypeOK, Row
<1>9. CASE SessionTick
  BY <1>9 DEF SessionTick, SessionTypeOK
<1>10. CASE UNCHANGED sessionVars
  BY <1>10 DEF sessionVars, SessionTypeOK
<1>. QED BY <1>1, <1>2, <1>3, <1>4, <1>5, <1>6, <1>7, <1>8, <1>9, <1>10 DEF SessionNext

-----------------------------------------------------------------------------
(* The idle window.                                                        *)

Slack == Later(TouchEvery, MaxLag)

\* The idle expiry is what the last touch made it, and the last touch is no
\* further behind the activity than the slack.
Follows ==
    /\ row.idle = Earlier(Expires, row.lastSeen + IdleTimeout)
    /\ row.lastSeen <= active /\ active <= now
    /\ ~row.revoked /\ active < Expires => active <= row.lastSeen + Slack

\* A request that is still authenticating has a reading of the last MaxLag, and
\* one that was found live and is about to touch finds the session live again.
Timely ==
    \A b \in Tab :
        /\ Authenticating(b) => request[b].now <= now /\ now <= request[b].now + MaxLag
        /\ request[b].at = "touch" /\ ~row.revoked /\ request[b].now < Expires =>
               request[b].now < row.idle

ActivityInv == Follows /\ Timely

\* The two bounds of IdleWindow are what ActivityInv says of the last touch.
LEMMA ActivityWindow == SessionTypeOK /\ ActivityInv => IdleWindow
<1> SUFFICES ASSUME SessionTypeOK, ActivityInv PROVE IdleWindow
  OBVIOUS
<1>1. /\ row.idle \in Nat /\ row.lastSeen \in Nat /\ active \in Nat
      /\ TouchEvery \in Nat /\ MaxLag \in Nat /\ IdleTimeout \in Nat /\ SessionTTL \in Nat
  BY SessionAssumption DEF SessionTypeOK, Row, ValidLifetimes
<1>2. Slack \in Nat
  BY <1>1 DEF Slack, Later
<1>. QED BY <1>1, <1>2 DEF ActivityInv, Follows, IdleWindow, Earlier, Slack, Expires

\* The sign-in is the first touch.
LEMMA InitActivity == SessionInit => ActivityInv
  BY SessionAssumption DEF SessionInit, ActivityInv, Follows, Timely, Authenticating, Idle, ValidLifetimes,
         Slack, Later, Earlier, Expires

\* Tab b moves on and is not authenticating any more; the others stay.
LEMMA TimelyOthers ==
  ASSUME SessionTypeOK, Timely, NEW b \in Tab, UNCHANGED now,
         \A c \in Tab \ {b} : request'[c] = request[c],
         request'[b].at \notin {"find", "touch"},
         row'.revoked = row.revoked, row'.idle = row.idle
  PROVE  Timely'
  BY DEF Timely, Authenticating

\* ActivityInv survives every step.
LEMMA ActivityStep == SessionTypeOK /\ ActivityInv /\ [SessionNext]_sessionVars => ActivityInv'
<1> SUFFICES ASSUME SessionTypeOK, ActivityInv, [SessionNext]_sessionVars PROVE ActivityInv'
  OBVIOUS
<1>a. /\ TouchEvery \in Nat /\ MaxLag \in Nat /\ IdleTimeout \in Nat /\ SessionTTL \in Nat
      /\ MaxLag < IdleTimeout
  BY SessionAssumption DEF ValidLifetimes
<1>b. /\ now \in Nat /\ active \in Nat /\ row.idle \in Nat /\ row.lastSeen \in Nat
  BY DEF SessionTypeOK, Row
<1>c. Slack \in Nat /\ TouchEvery <= Slack /\ MaxLag <= Slack
  BY <1>a DEF Slack, Later
<1>d. Follows /\ Timely
  BY DEF ActivityInv
<1>e. ASSUME NEW b \in Tab, End(b)
      PROVE  /\ \A c \in Tab \ {b} : request'[c] = request[c]
             /\ request'[b].at \notin {"find", "touch"}
  BY <1>e DEF End, Idle, SessionTypeOK
<1>f. ASSUME UNCHANGED <<now, active>>, row'.idle = row.idle, row'.lastSeen = row.lastSeen,
             row'.revoked = row.revoked
      PROVE  Follows'
  BY <1>d, <1>f DEF Follows
<1>1. ASSUME NEW b \in Tab, NEW kind \in {"load", "mutation"}, Begin(b, kind)
      PROVE  ActivityInv'
  <2>1. /\ \A c \in Tab \ {b} : request'[c] = request[c]
        /\ request'[b].at = "find" /\ request'[b].now = now
    BY <1>1, BeginType DEF SessionTypeOK
  <2>2. UNCHANGED <<now, row, active>>
    BY <1>1, Zenon DEF Begin
  <2>3. Timely'
    BY <1>a, <1>b, <1>d, <2>1, <2>2, SMTT(30) DEF Timely, Authenticating
  <2>. QED BY <1>f, <2>2, <2>3 DEF ActivityInv
<1>2. ASSUME NEW b \in Tab, FindLoginSession(b) PROVE ActivityInv'
  <2>1. CASE FoundBy(b)
    <3> DEFINE q == request[b]
    <3>1. /\ \A c \in Tab \ {b} : request'[c] = request[c]
          /\ UNCHANGED <<now, row>>
      BY <2>1, Zenon DEF FoundBy, SessionTypeOK
    <3>2. q.now \in Nat /\ q.now <= now /\ now <= q.now + MaxLag
      BY <1>d, <2>1, Zenon DEF FoundBy, InFlight, Timely, Authenticating
    <3>3. Timely'
      <4>1. CASE q.now - row.lastSeen < TouchEvery
        BY <1>d, <2>1, <3>1, <4>1, TimelyOthers, Zenon DEF FoundBy
      <4>2. CASE ~(q.now - row.lastSeen < TouchEvery)
        <5>1. request'[b].at = "touch" /\ request'[b].now = q.now /\ q.now < row.idle
          BY <2>1, <4>2, Zenon DEF FoundBy, Live
        <5>. QED BY <1>d, <3>1, <3>2, <5>1, Zenon DEF Timely, Authenticating
      <4>. QED BY <4>1, <4>2
    <3>4. Follows'
      <4>1. CASE q.now - row.lastSeen < TouchEvery
        <5>1. active' = Later(active, q.now)
          BY <2>1, <4>1, Zenon DEF FoundBy
        <5>2. /\ row.lastSeen <= active' /\ active' <= now
              /\ ~row.revoked /\ active' < Expires => active' <= row.lastSeen + Slack
          BY <1>a, <1>b, <1>c, <1>d, <3>2, <4>1, <5>1 DEF Follows, Later, Expires
        <5>. QED BY <1>d, <3>1, <5>2 DEF Follows
      <4>2. CASE ~(q.now - row.lastSeen < TouchEvery)
        <5>1. UNCHANGED active
          BY <2>1, <4>2, Zenon DEF FoundBy
        <5>. QED BY <1>f, <3>1, <5>1
      <4>. QED BY <4>1, <4>2
    <3>. QED BY <3>3, <3>4 DEF ActivityInv
  <2>2. CASE End(b) /\ quiet' = None /\ UNCHANGED <<now, row, jar, page, issued, active>>
    BY <1>d, <1>e, <1>f, <2>2, TimelyOthers, Zenon DEF ActivityInv
  <2>. QED BY <1>2, <2>1, <2>2, FindEffect
<1>3. ASSUME NEW b \in Tab, TouchLoginSession(b) PROVE ActivityInv'
  <2> DEFINE q == request[b]
  <2>1. /\ \A c \in Tab \ {b} : request'[c] = request[c]
        /\ request'[b].at = "ready" /\ q.at = "touch" /\ q \in InFlight
    BY <1>3, TouchEffect DEF SessionTypeOK
  <2>2. /\ q.now \in Nat /\ q.now <= now /\ now <= q.now + MaxLag
        /\ ~row.revoked /\ q.now < Expires => q.now < row.idle
    BY <1>d, <2>1, Zenon DEF InFlight, Timely, Authenticating
  <2>3. UNCHANGED now /\ active' = Later(active, q.now)
    BY <1>3 DEF TouchLoginSession
  <2>4. row.lastSeen <= active' /\ active' <= now /\ q.now <= active' /\ active' \in Nat
    BY <1>b, <1>d, <2>2, <2>3 DEF Follows, Later
  <2>5. CASE Live(q.now)
    <3>1. /\ row'.lastSeen = q.now /\ row'.revoked = row.revoked
          /\ row'.idle = Earlier(Expires, q.now + IdleTimeout)
      BY <1>3, <2>2, <2>5, TouchedType, Zenon DEF TouchLoginSession, SessionTypeOK
    <3>2. active' <= q.now + Slack
      BY <1>a, <1>b, <1>c, <2>2, <2>4
    <3>3. Follows'
      BY <2>3, <2>4, <3>1, <3>2, Zenon DEF Follows
    <3>4. ASSUME NEW c \in Tab, request'[c].at = "touch", request'[c].now < Expires
          PROVE  request'[c].now < row'.idle
      <4>1. c # b /\ request'[c] = request[c]
        BY <2>1, <3>4
      <4>2. request[c] \in InFlight
        BY <3>4, <4>1, RequestRow
      <4>3. request[c].now \in Nat /\ request[c].now <= now
        BY <1>d, <3>4, <4>1, <4>2, Zenon DEF Timely, Authenticating, InFlight
      <4>4. request[c].now < q.now + IdleTimeout
        BY <1>a, <1>b, <2>2, <4>3
      <4>. QED BY <1>a, <2>2, <3>1, <3>4, <4>1, <4>3, <4>4, Zenon DEF Earlier, Expires
    <3>5. Timely'
      BY <1>d, <2>1, <2>3, <3>4, Zenon DEF Timely, Authenticating
    <3>. QED BY <3>3, <3>5 DEF ActivityInv
  <2>6. CASE ~Live(q.now)
    <3>1. row' = row
      BY <1>3, <2>6 DEF TouchLoginSession
    <3>2. row.revoked \/ ~(q.now < Expires)
      BY <2>2, <2>6 DEF Live
    <3>3. row.revoked \/ ~(active' < Expires)
      BY <1>a, <2>2, <2>4, <3>2 DEF Expires
    <3>4. Follows'
      BY <1>d, <2>3, <2>4, <3>1, <3>3, Zenon DEF Follows
    <3>5. Timely'
      BY <1>d, <2>1, <2>3, <3>1, TimelyOthers
    <3>. QED BY <3>4, <3>5 DEF ActivityInv
  <2>. QED BY <2>5, <2>6
<1>4. ASSUME NEW b \in Tab, EnsureCSRF(b) PROVE ActivityInv'
  <2>1. /\ \A c \in Tab \ {b} : request'[c] = request[c]
        /\ request'[b].at = "respond" /\ UNCHANGED <<now, active>>
    BY <1>4, EnsureEffect, Zenon DEF SessionTypeOK
  <2>2. row'.idle = row.idle /\ row'.lastSeen = row.lastSeen /\ row'.revoked = row.revoked
    BY <1>4, Zenon DEF EnsureCSRF, SessionTypeOK, Row
  <2>. QED BY <1>d, <1>f, <2>1, <2>2, TimelyOthers DEF ActivityInv
<1>5. ASSUME NEW b \in Tab, Respond(b) \/ Mutation(b) \/ Lose(b) PROVE ActivityInv'
  <2>1. End(b) /\ UNCHANGED <<now, row, active>>
    BY <1>5, Zenon DEF Respond, Mutation, Lose
  <2>. QED BY <1>d, <1>e, <1>f, <2>1, TimelyOthers DEF ActivityInv
<1>6. CASE DropCookie \/ UNCHANGED sessionVars
  BY <1>6, Zenon DEF DropCookie, sessionVars, ActivityInv, Follows, Timely, Authenticating
<1>7. CASE Revoke
  <2>1. row'.revoked /\ row'.idle = row.idle /\ row'.lastSeen = row.lastSeen
    BY <1>7 DEF Revoke, SessionTypeOK, Row
  <2>2. UNCHANGED <<now, active, request>>
    BY <1>7 DEF Revoke
  <2>. QED BY <1>d, <2>1, <2>2, Zenon DEF ActivityInv, Follows, Timely, Authenticating
<1>8. CASE SessionTick
  <2>1. /\ now' = now + 1 /\ UNCHANGED <<row, active, request>>
        /\ \A b \in Tab : Authenticating(b) => now < request[b].now + MaxLag
    BY <1>8 DEF SessionTick
  <2>2. Follows'
    BY <1>b, <1>d, <2>1 DEF Follows
  <2>3. ASSUME NEW b \in Tab, Authenticating(b)
        PROVE  request[b].now <= now' /\ now' <= request[b].now + MaxLag
    <3>1. request[b].now \in Nat
      BY <2>3, RequestRow DEF Authenticating, InFlight
    <3>2. request[b].now <= now /\ now < request[b].now + MaxLag
      BY <1>d, <2>1, <2>3, Zenon DEF Timely
    <3>. QED BY <1>a, <1>b, <2>1, <3>1, <3>2
  <2>4. Timely'
    BY <1>d, <2>1, <2>3, Zenon DEF Timely, Authenticating
  <2>. QED BY <2>2, <2>4 DEF ActivityInv
<1>. QED BY <1>1, <1>2, <1>3, <1>4, <1>5, <1>6, <1>7, <1>8 DEF SessionNext

\* The idle expiry follows the activity of the browser, within the touch interval
\* and the time a late touch was under way, for any number of tabs whose touches
\* are applied in any order (Authenticate, TouchLoginSession).
THEOREM IdleWindowHolds == SessionSpec => []IdleWindow
<1>1. SessionInit => SessionTypeOK /\ ActivityInv
  BY InitType, InitActivity
<1>2. SessionTypeOK /\ ActivityInv /\ [SessionNext]_sessionVars => (SessionTypeOK /\ ActivityInv)'
  BY TypeStep, ActivityStep
<1>3. SessionTypeOK /\ ActivityInv => IdleWindow
  BY ActivityWindow
<1>. QED BY <1>1, <1>2, <1>3, PTL DEF SessionSpec

-----------------------------------------------------------------------------
(* The quiet tab.                                                          *)

\* Page, cookie and session agree on a CSRF token.
Settled(b) == page[b] = jar /\ jar # 0 /\ (row.revoked \/ jar = row.csrf)

\* The CSRF token of tab b, at each stage of a page load and of the mutations
\* after it.
QuietAt(b) ==
    LET q == request[b]
    IN  /\ q.at = "idle" => Settled(b)
        /\ q.at # "idle" => q.cookie = jar
        /\ q.at # "idle" /\ q.kind = "mutation" => Settled(b) /\ q.token = page[b]
        /\ q.at \in {"touch", "ready"} =>
               q.csrf = IF q.kind = "load" THEN row.csrf ELSE jar
        /\ q.at = "respond" => /\ q.kind = "load" /\ q.token # 0
                               /\ row.revoked \/ q.token = row.csrf

QuietInv ==
    \A b \in Tab : quiet = b =>
        QuietAt(b) /\ \A c \in Tab \ {b} : request[c].at = "idle"

\* A mutation from the quiet tab carries the session's token.
LEMMA QuietRepairs == QuietInv => LoadRepairs
  BY DEF QuietInv, QuietAt, Settled, LoadRepairs, Accepts, Valid

\* What a request of tab b does is quiet only if tab b is the quiet one.
LEMMA QuietTab ==
  ASSUME QuietInv, NEW b \in Tab, request[b].at # "idle",
         \A c \in Tab \ {b} : request'[c] = request[c],
         quiet' \in {quiet, None}, quiet = b => QuietAt(b)' \/ quiet' = None
  PROVE  QuietInv'
<1> SUFFICES ASSUME NEW d \in Tab, quiet' = d
             PROVE  QuietAt(d)' /\ \A c \in Tab \ {d} : request'[c].at = "idle"
  BY DEF QuietInv
<1>1. quiet = d
  BY SessionAssumption
<1>2. \A c \in Tab \ {d} : request[c].at = "idle"
  BY <1>1 DEF QuietInv
<1>3. d = b
  BY <1>2
<1>. QED BY <1>1, <1>2, <1>3, SessionAssumption

\* Neither time nor a revocation disturbs it.
LEMMA QuietSame ==
  ASSUME QuietInv, row'.csrf = row.csrf, row.revoked => row'.revoked,
         UNCHANGED <<jar, page, request, quiet>>
  PROVE  QuietInv'
<1>1. \A b \in Tab : Settled(b) => Settled(b)'
  BY DEF Settled
<1>2. ASSUME NEW b \in Tab, QuietAt(b) PROVE QuietAt(b)'
  BY <1>1, <1>2, Zenon DEF QuietAt
<1>. QED BY <1>2 DEF QuietInv

\* QuietInv survives every step.
LEMMA QuietStep == SessionTypeOK /\ QuietInv /\ [SessionNext]_sessionVars => QuietInv'
<1> SUFFICES ASSUME SessionTypeOK, QuietInv, [SessionNext]_sessionVars PROVE QuietInv'
  OBVIOUS
<1>1. ASSUME NEW b \in Tab, NEW kind \in {"load", "mutation"}, Begin(b, kind)
      PROVE  QuietInv'
  <2> SUFFICES ASSUME NEW d \in Tab, quiet' = d
               PROVE  QuietAt(d)' /\ \A c \in Tab \ {d} : request'[c].at = "idle"
    BY DEF QuietInv
  <2>1. /\ d = b /\ \A c \in Tab : request[c] = Idle
        /\ kind = "load" \/ quiet = b
    BY <1>1, SessionAssumption, Zenon DEF Begin
  <2>2. UNCHANGED <<row, jar, page>>
    BY <1>1, Zenon DEF Begin
  <2>3. /\ \A c \in Tab \ {b} : request'[c] = request[c]
        /\ request'[b].at = "find" /\ request'[b].kind = kind /\ request'[b].cookie = jar
        /\ kind = "mutation" => request'[b].token = page[b]
    BY <1>1, BeginType DEF SessionTypeOK
  <2>4. kind = "mutation" => Settled(b)
    <3>1. request[b].at = "idle"
      BY <2>1 DEF Idle
    <3>2. quiet = b => QuietAt(b)
      BY DEF QuietInv
    <3>. QED BY <2>1, <3>1, <3>2 DEF QuietAt
  <2>5. Settled(b)' <=> Settled(b)
    BY <2>2 DEF Settled
  <2>6. QuietAt(b)'
    BY <2>2, <2>3, <2>4, <2>5, Zenon DEF QuietAt
  <2>. QED BY <2>1, <2>3, <2>6 DEF Idle
<1>2. ASSUME NEW b \in Tab, FindLoginSession(b) PROVE QuietInv'
  <2>1. CASE FoundBy(b)
    <3>1. /\ \A c \in Tab \ {b} : request'[c] = request[c]
          /\ request[b].at = "find" /\ request'[b].at \in {"ready", "touch"}
          /\ ~row.revoked /\ request'[b].csrf = row.csrf
          /\ request'[b].kind = request[b].kind /\ request'[b].cookie = request[b].cookie
          /\ request'[b].token = request[b].token
          /\ UNCHANGED <<row, jar, page, quiet>>
      BY <2>1, Zenon DEF FoundBy, SessionTypeOK, Live
    <3>2. request[b].kind \in {"load", "mutation"}
      BY <2>1, Zenon DEF FoundBy, InFlight
    <3>3. quiet = b => QuietAt(b)'
      BY <3>1, <3>2, Zenon DEF QuietInv, QuietAt, Settled
    <3>. QED BY <3>1, <3>3, QuietTab, Zenon
  <2>2. CASE End(b) /\ quiet' = None /\ UNCHANGED <<now, row, jar, page, issued, active>>
    BY <2>2, SessionAssumption DEF QuietInv
  <2>. QED BY <1>2, <2>1, <2>2, FindEffect
<1>3. ASSUME NEW b \in Tab, TouchLoginSession(b) PROVE QuietInv'
  <2>1. /\ \A c \in Tab \ {b} : request'[c] = request[c]
        /\ request[b] \in InFlight /\ request[b].at = "touch" /\ request'[b].at = "ready"
        /\ request'[b].kind = request[b].kind /\ request'[b].cookie = request[b].cookie
        /\ request'[b].token = request[b].token /\ request'[b].csrf = request[b].csrf
    BY <1>3, TouchEffect DEF SessionTypeOK
  <2>2. request[b].now \in Nat
    BY <2>1, Zenon DEF InFlight
  <2>3. row'.csrf = row.csrf /\ row'.revoked = row.revoked
    BY <1>3, <2>2, TouchedType, Zenon DEF TouchLoginSession, SessionTypeOK
  <2>4. UNCHANGED <<jar, page, quiet>>
    BY <1>3 DEF TouchLoginSession
  <2>5. Settled(b)' <=> Settled(b)
    BY <2>3, <2>4 DEF Settled
  <2>6. quiet = b => QuietAt(b)
    BY DEF QuietInv
  <2>7. quiet = b => QuietAt(b)'
    BY <2>1, <2>3, <2>4, <2>5, <2>6, Zenon DEF QuietAt
  <2>. QED BY <2>1, <2>4, <2>7, QuietTab, Zenon
<1>4. ASSUME NEW b \in Tab, EnsureCSRF(b) PROVE QuietInv'
  <2>1. /\ \A c \in Tab \ {b} : request'[c] = request[c]
        /\ request[b].at = "ready" /\ request[b].kind = "load"
        /\ request'[b].at = "respond" /\ request'[b].kind = "load"
        /\ request'[b].cookie = request[b].cookie /\ UNCHANGED <<jar, page, quiet>>
    BY <1>4, EnsureEffect, Zenon DEF SessionTypeOK
  <2>2. ASSUME quiet = b
        PROVE  request'[b].token # 0 /\ (row'.revoked \/ request'[b].token = row'.csrf)
    <3>1. CASE /\ request'[b].token = request[b].cookie /\ Valid(request[b], request[b].cookie)
               /\ UNCHANGED row
      BY <2>1, <2>2, <3>1, Zenon DEF Valid, QuietInv, QuietAt
    <3>2. CASE /\ request'[b].token = issued + 1
               /\ row' = IF row.revoked THEN row
                         ELSE [row EXCEPT !.csrf = issued + 1, !.csrfExpires = now + CsrfTTL]
      <4>1. issued + 1 # 0
        BY SessionAssumption DEF SessionTypeOK, Token
      <4>2. row'.revoked \/ row'.csrf = issued + 1
        BY <3>2 DEF SessionTypeOK, Row
      <4>. QED BY <3>2, <4>1, <4>2
    <3>. QED BY <1>4, <3>1, <3>2, EnsureEffect, Zenon
  <2>3. quiet = b => QuietAt(b)'
    BY <2>1, <2>2, Zenon DEF QuietInv, QuietAt
  <2>. QED BY <2>1, <2>3, QuietTab, SMTT(30)
<1>5. ASSUME NEW b \in Tab, Respond(b) PROVE QuietInv'
  <2>1. /\ request[b].at = "respond" /\ request' = [request EXCEPT ![b] = Idle]
        /\ page' = [page EXCEPT ![b] = request[b].token]
        /\ jar' = IF request[b].token # request[b].cookie THEN request[b].token ELSE jar
        /\ UNCHANGED <<row, quiet>>
    BY <1>5 DEF Respond, End
  <2>2. /\ \A c \in Tab \ {b} : request'[c] = request[c]
        /\ request'[b].at = "idle" /\ page'[b] = request[b].token
    BY <2>1, Zenon DEF SessionTypeOK, Idle
  <2>3. quiet = b => QuietAt(b)'
    BY <2>1, <2>2, Zenon DEF QuietInv, QuietAt, Settled
  <2>. QED BY <2>1, <2>2, <2>3, QuietTab, Zenon
<1>6. ASSUME NEW b \in Tab, Mutation(b) PROVE QuietInv'
  <2>1. /\ request[b].at = "ready" /\ request[b].kind = "mutation"
        /\ request' = [request EXCEPT ![b] = Idle] /\ UNCHANGED <<row, jar, page, quiet>>
    BY <1>6 DEF Mutation, End
  <2>2. /\ \A c \in Tab \ {b} : request'[c] = request[c]
        /\ request'[b].at = "idle"
    BY <2>1 DEF SessionTypeOK, Idle
  <2>3. quiet = b => QuietAt(b)'
    BY <2>1, <2>2, Zenon DEF QuietInv, QuietAt, Settled
  <2>. QED BY <2>1, <2>2, <2>3, QuietTab
<1>7. ASSUME NEW b \in Tab, Lose(b) PROVE QuietInv'
  <2>1. /\ request[b] # Idle /\ request' = [request EXCEPT ![b] = Idle]
        /\ quiet' = IF quiet = b THEN None ELSE quiet
    BY <1>7 DEF Lose, End
  <2>2. \A c \in Tab \ {b} : request'[c] = request[c]
    BY <2>1 DEF SessionTypeOK
  <2>3. request[b].at # "idle"
    BY <2>1 DEF SessionTypeOK, InFlight
  <2>. QED BY <2>1, <2>2, <2>3, QuietTab
<1>8. CASE DropCookie
  BY <1>8, SessionAssumption DEF DropCookie, QuietInv
<1>9. CASE Revoke
  <2>1. row'.revoked /\ row'.csrf = row.csrf /\ UNCHANGED <<jar, page, request, quiet>>
    BY <1>9 DEF Revoke, SessionTypeOK, Row
  <2>. QED BY <2>1, QuietSame
<1>10. CASE SessionTick \/ UNCHANGED sessionVars
  BY <1>10, QuietSame, Zenon DEF SessionTick, sessionVars
<1>. QED BY <1>1, <1>2, <1>3, <1>4, <1>5, <1>6, <1>7, <1>8, <1>9, <1>10 DEF SessionNext

\* Loading a page repairs whatever concurrent rotations left behind: a mutation
\* from the page is accepted until the token expires (EnsureCSRF, Respond,
\* requirePrincipalMutation).
THEOREM LoadRepairsHolds == SessionSpec => []LoadRepairs
<1>1. SessionInit => SessionTypeOK /\ QuietInv
  BY InitType, SessionAssumption DEF SessionInit, QuietInv
<1>2. SessionTypeOK /\ QuietInv /\ [SessionNext]_sessionVars => (SessionTypeOK /\ QuietInv)'
  BY TypeStep, QuietStep
<1>3. QuietInv => LoadRepairs
  BY QuietRepairs
<1>. QED BY <1>1, <1>2, <1>3, PTL DEF SessionSpec
=============================================================================
