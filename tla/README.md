# OneIssuer in TLA+

A verification project for OneIssuer, a single-issuer OpenID Connect provider
written in Go over PostgreSQL, and for the example relying party that ships with
it. The modules model what the server keeps in the database, what its requests do
to it, and how those requests get into each other's way. TLC checks small
instances; TLAPS proves the central invariants for every instance.

`PROJECT.json` lists components, runs, hazards, findings and theorems, and maps
every definition to the lines it models.

## 1. The system

| Part | State | Operations | What is hard about it |
|---|---|---|---|
| Accounts (`internal/identity`, `internal/admin`) | users with role, status, version; login identifiers | bootstrap, register, create, patch | the last administrator; stale copies written back; two name spaces under advisory locks |
| Login and registration (`internal/authn`, `internal/authflow`) | forms (pre-auth rows) with attempt budgets, flow transactions, the Argon2 gate | open a form, submit, commit | submissions of one form in parallel; expiry while Argon2 runs |
| Sessions (`internal/session`, `storage/postgres/session.go`) | session rows, each with a *binding* that survives re-login of the same user | login, logout, revoke one, others, all; disable | READ COMMITTED: rows that change while a statement waits for their locks |
| Authorization (`internal/authorization`, `internal/consent`, authorize and consent handlers) | authorization transactions, consent grants with versions, codes | ask, continue, approve, deny, withdraw consent | decisions from unlocked reads, committed later; account switches between pages |
| Tokens (`internal/token`, `storage/postgres/token.go`) | refresh families, generations, access tokens | exchange, refresh, reuse, revoke, introspect, UserInfo | every cascade has to find every row; consent withdrawn and given again |
| Clients (`internal/client`) | clients with versions, secrets | register, patch, rotate, authenticate | rotation races; authentication from three separate reads |
| Logout (`internal/logout`) | logout transactions with proofs and attempt counters | start, bind, confirm, cancel | several tabs, lost responses, other accounts, a redirect checked earlier |
| Cleanup (`internal/app`, `storage/postgres/*` cleanup) | what is still stored | expire, delete in batches | foreign keys, one clock reading per run, evidence that must outlive what it is evidence of |
| Rate limiter (`internal/httpserver/auth_rate_limit.go`) | token buckets per address, per client and one for all, in tables of limited size | admit, sweep | clock readings older than the bucket's; entries dropped and started again full; a full table |
| Session activity (`internal/session`, middleware) | idle expiry and CSRF token of a session, cookie and pages of the browser | authenticate, touch, load a page, mutate | touches and token rotations of several tabs applied in another order |
| Process (`internal/app`) | readiness, server, cleanup loop, connection pool | start, serve, signal, drain, deadline, close | goroutines that wait for each other over a pool of connections |
| Example relying party (`examples/oidc-client`) | in-memory sessions | login, callback, refresh, logout | exchanges with the provider outside the lock, answers that are lost |

Requests meet in the database, in transactions of READ COMMITTED isolation with row
and advisory locks. The parts are connected as follows: a login form belongs to a
flow transaction; its submission opens a session; an authorization request uses the
session and a consent grant to issue a code; the code buys an access token and, with
`offline_access`, a refresh family; both carry the binding of the session. Revoking a
session, a grant, a user or a client takes down what hangs on it in the same
database transaction.

## 2. Modules

Every module states in its head comment what a step is. There are two grains:

- **whole transactions as steps**, where the question is what a long sequence of
  operations leaves behind: `TokenAuthority`, and the requests of `Retention` (whose
  cleanup statements are two steps where rows may change between selection and deletion);
- **statements as steps**, where the question is what two overlapping requests do to
  each other: `SessionIsolation`, `Accounts`, `ClientRegistry`, and, at the grain of
  reads and commits, `LoginForm`, `AuthorizeFlow`, `LogoutTransaction`, `RelyingParty`,
  `SessionActivity`. `RateLimiter` has one step per call, with a clock reading taken
  before it; `Supervisor` one per blocking operation of each goroutine.

The second kind justifies the first: `SessionIsolation` splits the same operations on
sessions that `TokenAuthority` takes whole, and shows where that is not sound (section
5, `revokeAllRace`).

| Module | Models | Correspondence |
|---|---|---|
| `TokenAuthority` | users, clients, grants, sessions, codes, families, generations and access tokens | one action per repository operation; `Unrevoked...By...` and `Live...By...` are the locking queries of `queries/token.sql` and `queries/logout.sql`; `RefreshRedeemable`, `AccessAccepted`, `RefreshIntrospectsActive` are the checks of refresh, UserInfo and introspection |
| `SessionIsolation` | login, disable, revoke one / others / all | each transaction is split where it waits for or takes a lock; `StillSelected` is PostgreSQL's re-evaluation of a row it waited for |
| `Accounts` | bootstrap, registration, creation, patches | lock of the administrator set, of the user row, of the two identifiers in order, the check whether they are taken, then the versioned write |
| `LoginForm` | form, attempt budget, password gate, commit | `ReservePreAuthAttempt`, `Acquire`, `Release` and `Commit` are separate steps of each submission |
| `AuthorizeFlow` | authorize, continue, consent page, approve, deny | a request first decides (`AdvanceVerdict`, `PrincipalVerdict`), then locks the transaction, the user, the client and the grant one after the other, looking at each, and commits (`Issue`, `Deny`, `Reject`); whoever changes one of these rows waits for its lock |
| `LogoutTransaction` | RP-initiated logout | read of cookies and clock, database transaction and redirect check are separate steps; a binding is two of them, since it counts under the locks of the transaction and the session (`LockBind`) before it writes (`Bind`); any response may be lost |
| `OneShot` | abstract: a transaction is decided once, with one effect | implemented by `AuthorizeFlow` and `LogoutTransaction` |
| `ClientRegistry` | registration, patch, rotation, client authentication | read, lock, statement and commit of each; the three reads of `GetClientSecretHashes` |
| `Retention` | the cleanup loop over the rows of one visit | one action per operation and batch, two (select, delete) where other requests may commit in between; foreign keys and the trigger of migration 15 decide what a batch may delete |
| `RelyingParty` | the example client's session table and handlers | every call to the provider is a step between a claim and its commit |
| `RateLimiter` | `allow` and `allowClient` | `Allow`, `AllowExhausted` and `AllowClient` are one call each, with refill, sweep and eviction inside it; tokens count in units of what a bucket gains in a tick |
| `SessionActivity` | one session used from several tabs | `FindLoginSession`, `TouchLoginSession`, `EnsureCSRF` and `Respond` are the steps of one request; a response may be lost |
| `Supervisor` | start, serving, requests, cleanup loop and shutdown of the process | `Main` is `Serve` and `superviseHTTP`, with `readiness.Set` and the call of `Shutdown` as steps of their own; `net/http` and the pool are external and do what their documentation says |
| `WallClock` | the clock of `RateLimiter` and `SessionActivity` | `MaxLag` bounds how old a reading is when it is applied |
| `RequestProcesses` | the concurrent requests of `SessionIsolation` and `ClientRegistry` | the constants both have |
| `TokenAuthorityProofs`, `AccountsProofs`, `LogoutTransactionProofs`, `RelyingPartyProofs` | theorems about the module each is named after | section 6 |
| `RowLockProofs` | theorems about `SessionIsolation` and `ClientRegistry` | section 6 |
| `RequestGatesProofs` | theorems about `Supervisor` and `LoginForm` | section 6 |
| `TransactionRowsProofs` | theorems about `Retention` and `AuthorizeFlow` | section 6 |
| `ClockReadingsProofs` | theorems about `RateLimiter` and `SessionActivity` | section 6 |
| `MC...` | instances for TLC | symmetry sets and the inputs that are too long for a `.cfg` |

A proof module about two components extends both. Where both would use a name for
different things, one of them carries its component's: `RegistrySpec`, `SupervisorSpec`
and `RetentionSpec` are specifications, `RegistryTypeOK` and the like type invariants. The
clock of `Retention` is `time`, the reading a run works with `reading`, and its
`ExpireElapsedTransactions` is the code's `ExpireAuthTransactions`; a request of
`Supervisor` is an `Incoming`, and `handling` says how far it is.

Operators named `Bug...` are plausible mistakes in the code (a dropped guard, a
forgotten cascade, a lock not taken). No specification uses them. Substituted for
the definition that follows them they make a property fail, which shows that the
property depends on that line of the code.

### What is abstracted

- Tokens, codes, secrets, cookies and CSRF values are unguessable; a request can
  present only values it was given. Their digests stand for them.
- Scopes are sets of names; canonicalization is set equality. In `AuthorizeFlow` they
  are reduced to whether the grant covers the request.
- Time is a counter. Where the code reads a clock before its transaction and uses that
  reading later, so does the model (`RotateRead`, `Submit`, `StartRun`, `ReadClock`,
  `Readings` of the limiter, the touch of a session, the logout requests).
- Every failure of a statement is a rollback; lost connections are the requests that
  end without an effect (`Abandon`, lost responses, `OperationFails`).
- Signatures, PKCE, Argon2, HTML, JSON, metrics and audit rows are left out.

## 3. Runs

Sets are as small as the behaviour allows: a race needs two requests, a reuse needs
two generations, an account switch two users and two sessions. All bounds are
CONSTANTS in the `.cfg` files; an action whose next value would pass a bound is
disabled. Only `EverythingRetires` mentions one: a row marked expired when the bounded clock
is about to stop still has its retention ahead of it.

| Run | Distinct states | Instance | Why this is enough |
|---|---|---|---|
| `tokens` | 238,320 | 2 users and sessions, 1 client; 2 codes, 2 families, 2 access tokens; 2 scopes; generations 0..1; time 0..1; grant versions 1..3 | re-login and account switch; consent given, withdrawn and given again; a rotated family whose old generation is presented; a second family beside it, which no cascade may confuse with the first. The constraint `FewRows` cuts off only states in which two users exist, two codes were issued and the clock has moved |
| `isolation` | 191,007 | 2 users, 3 sessions, 2 transactions | each pair of transactions, with a third session to rotate into |
| `revokeAllRace` | (stops at the violation) | 1 user, 2 sessions, 2 transactions | the smallest instance of the race in section 5 |
| `accounts` | 415,389 | 2 users, 2 user names, 2 addresses, 2 requests, versions 1..3 | two administrators demoting each other; identifiers claimed crosswise; a stale copy two versions old |
| `clients` | 761,256 | 1 client, 3 secrets, 3 requests, versions 1..3, time 0..1 | two rotations around one authentication |
| `loginForm` | 673,729 | 2 forms of 1 transaction, 2 submissions, budget 2, 1 place in the gate, time 0..2 | one form twice, and two forms once each |
| `authorize` | 1,934,790 | 2 users, sessions and requests; 1 transaction; no prompt with `max_age`, `login consent`, `create`, `none` with `max_age`; time 0..3 | two accounts, two tabs, every branch of the prompt logic; each row is taken away before, between and after the locks |
| `logout` | 1,769,910 | 2 users, sessions, transactions and requests; 1 URI; capacity 1, 1 attempt, 2 proofs, time 0..1 | pages reloaded, accounts switched between page and form; capacity and budget are reached and contended, two bindings of one session overlap; the client loses its URI or is disabled at any point |
| `relyingParty` | 2,203,607 | 2 handlers; session ids 1..3, 2 attempts, 1 logout, generations 0..1, time 0..2, 2 sessions | refresh against refresh, callback against newer attempt, sweep against both |
| `retention` | 3,193,753 | the rows of one visit (session, form, transaction, code, family and generations, two access tokens, logout transaction); batches of 1; retentions of 2, requests up to 1 late, time 0..7, 1 fault | every order of expiry and deletion, a request that commits between selection and deletion, a fault or restart at each point |
| `clockReadings` | 6,349,819 | limiter: 3 addresses, 3 clients, tables of 2 entries, burst 2, costs 2 and 1, entries kept for 2, readings up to 1 late, time 0..6; session: 2 tabs, idle timeout 3 of 6, touch every 2, CSRF lifetime 2, 4 tokens, time 0..5 | an entry is dropped, full or not, and comes back; the table is full when a third party arrives; an older touch is applied last; both tabs rotate the token, twice |
| `supervisor` | 49,495 | 3 requests, 2 connections, cleanup passes of 2 operations, 2 passes | more requests than connections, with the cleanup loop competing for them |

`clockReadings` checks two modules that share nothing in one run: each behaviour moves
the limiter or the session, never both.

Symmetry is used where the sets are interchangeable and no liveness is checked
(`tokens`, `logout`, `authorize`, `relyingParty`, `clients`, `clockReadings`).

### What the runs show

`tokens` (`TokenAuthority`)
- `LiveAuthority`: a family that is not revoked, or an access token that is neither
  revoked nor expired, has an active user and client and an active consent that covers
  it; a refreshed token also has its family. Every cascade must find every row.
- `NoDormantAuthority`: nothing is merely suspended. A live generation of a live family
  can be redeemed and introspects as active, and a live access token that is refused is
  refused because the client's scopes were narrowed, for no other reason.
- `RotationChain`, `SingleUse`: a family is a run of consumed generations and one live
  one; no code or generation pays for two tokens.
- `OneConsentEpoch`, `RevocationIsFinal`, `TokenLineage`: a token never crosses a
  withdrawal of consent; a revoked row stays revoked and an immutable column stays what
  it was; tokens inherit user, client and binding from one code, with no wider scopes.
- `SessionCascade`: revoking a session takes the tokens of its binding along, unless a
  login of the same user took the binding over.

`isolation` (`SessionIsolation`)
- `DisabledHasNothing`, `BindingInheritedOnce`: a login that overlaps a disable leaves no
  session, tokens always hang on a session that is not revoked, and one login inherits a
  binding, in any interleaving.
- `EveryTransactionEnds`: the lock order has no deadlock.

`accounts` (`Accounts`)
- `AnActiveAdminRemains`, `IdentifierNamesOneUser`: never zero active administrators
  after the first; a user name or an address names one account, by the advisory locks
  alone, without the unique indexes.
- `NoLostUpdate`, `ChangeEndsSessions`: an update changes the fields it names and writes no
  other field back from a stale copy; a change of role or status always ends the user's
  sessions, although that was decided from a copy read before any lock.
- `EveryRequestEnds`: locking identifiers in order means nobody waits for ever.

`clients` (`ClientRegistry`)
- `OneActiveSecret`: a confidential client has exactly one active secret at every commit,
  whoever rotates concurrently.
- `AnswerIsCurrent`: an authentication that succeeds presented a secret that was active at
  some moment of the request, for a client that was enabled at some (possibly different)
  moment of it, although the answer is put together from three reads under no lock; one that
  fails has a rotation or a disabling patch to blame; and a patch of other fields prepared
  from an older read never switches a disabled client back on.

`loginForm` (`LoginForm`)
- `AttemptBudget`: a form pays for each password check before the check, so submissions
  in parallel cannot exceed the budget.
- `OpensOnce`: one form, and one flow transaction, opens at most one session.
- `GateReopens`: a place in the Argon2 gate is always given back.

`authorize` (`AuthorizeFlow`)
- `ConsentIsTheUsersOwn`, `CodeFromCurrentAuthority`: an approval counts for the account
  that saw the page; a code is created only while the user and the client are active and
  the grant covers the request (or was just approved), although each was looked at in an
  earlier step: a lock not waited for by those who disable or revoke breaks it.
- `PromptHonoured`: `prompt=none` shows no page; `prompt=login`, `create` and `max_age` are
  satisfied by the session that gets the code.
- `DecidedOnce`: refinement of `OneShot`.

`logout` (`LogoutTransaction`)
- `RedirectOnlyForHintedUser`, `LogoutIsOwn`: the browser goes back to the relying party
  only after the hinted user's logout, and only to a URI that the client, read again after
  the commit, still has; a logout ends the session that saw the page.
- `ConfirmationBudget`, `DecidedOnce`: the capacity and the attempt budget hold under
  concurrency (two tabs that bind at once would both count first but for the lock on the
  session), and a transaction is decided once (refinement of `OneShot`).

`relyingParty` (`RelyingParty`)
- `SessionIsItsLogin`, `NeverReused`, `RevokesOnlyOrphans`: tokens never land in another
  login's session, a rotated refresh token is never sent again even when the answer was
  lost, and only tokens no session holds are given back to the provider.

`retention` (`Retention`)
- `ReplayEvidence`: no generation is deleted before its family's absolute expiry and
  retention have passed, whatever revoked the family, so an old refresh token still finds
  its consumed row; codes and access tokens are kept likewise, until their own; no
  generation and no access token outlives its family.
- `EverythingRetires`: every row is deleted in the end, and the foreign keys have refused no
  batch but that of sessions, which the next run repeats, although requests commit between
  the selection of a batch and its deletion.

`clockReadings` (`RateLimiter`, `SessionActivity`)
- `Envelope`: over any span of time no address or client is admitted more than its burst,
  what its rate adds, and, for each time its idle entry was dropped and came back with a
  full bucket, what the bucket could still have lacked (`Excess`); readings of the clock
  may arrive late.
- `CrowdedOutByActive`: a newcomer is refused for a full table only while its entries were
  used within the time to live and one sweep interval.
- `IdleWindow`: the idle expiry follows the last activity from above exactly, and from below
  within the touch interval or the lag of a late touch of another tab.
- `LoadRepairs`: two tabs may leave the browser with a token that is not the session's; the
  next page load puts that right.

`supervisor` (`Supervisor`)
- `ShutdownOrder`: not ready before connections are refused, with a step in between in which
  requests still come; no cleanup operation on a
  closed store; an exit without an error has answered every request it accepted.
- `NothingHangs`: a signal or the end of serving ends the process, and every accepted
  request ends, whoever holds the connections of the pool.

## 4. Fairness and refinement

Safety runs use no fairness. The liveness properties assume:

| Module | Fairness | Justification |
|---|---|---|
| `SessionIsolation` | weak, on each transaction's steps | a database transaction whose lock is free goes on |
| `Accounts` | strong, on each request's steps | PostgreSQL serves the waiters of a lock in order, so one that could proceed again and again does |
| `LoginForm` | weak, on each handler's own steps | a handler runs to its end; a new submission is never assumed |
| `Retention` | weak, on time and on the cleanup loop | the loop is driven by a ticker; failures and restarts are bounded by `MaxFaults`, not fair |
| `Supervisor` | weak on the steps of every goroutine that can run; strong on taking a free connection, on answering and on the cleanup loop seeing that its context is done | handlers make finitely many queries, each under a context; the pool serves its waiters in order; Go's `select` chooses at random and so does not prefer the ticker for ever. No request and no signal is assumed to come |

`OneShot` promises, for any set of items, that an item is decided at most once and
that exactly a granting decision has an effect, once. `AuthorizeFlow` implements it with
the authorization transactions as items and their codes as effects; `LogoutTransaction`
with the logout transactions and their answers. TLC checks both, and both are also proved
(section 6). Both mappings are `Promise == INSTANCE
OneShot WITH ...`, and the property is `Promise!Spec`.

`CHECK_DEADLOCK FALSE` stands where a bounded model may come to rest: time and every
identifier are used up.

## 5. Finding

`revokeAllRace` is expected to fail. `RevokeUserSessions` (`storage/postgres/admin.go`)
locks the sessions it selects, and not the user row first. Let a login rotate session A
into B while an administrator revokes all sessions of that user:

1. the login locks A, revokes it, inserts B with A's binding, and has not committed;
2. the revocation selects A from its snapshot and waits for its row;
3. the login commits;
4. PostgreSQL re-evaluates A, which is revoked now, and drops it. B is not in the
   snapshot.

The revocation succeeds and B and the tokens of the binding stay. The comment at
`internal/admin/admin.go:198` says it "revokes every active login session owned by a
user". Disabling the user takes the user lock that `CommitLogin` takes too, which is why
`DisabledHasNothing` holds in `isolation`.

Met while modelling, and not runs of their own:

- `token/lifecycle.go:74` lists the values whose revocation is a no-op: malformed,
  unknown, expired, wrong-owner. `storage/postgres/token.go:642` also leaves the owner's
  own live access token as it is while the client's scopes are narrower than the token's,
  and answers with success; when the scopes are widened again the token works.
  `RevokeAccessToken` has this guard.
- `prompt=create` with `max_age`: once the registration is older than `max_age` the
  browser is sent to `/login`, where `Begin` refuses a form for this transaction
  (`internal/authn/authn.go:154`), so that it can only expire.
- The example client's `beginLogin` reads the clock before it takes the lock
  (`server.go:435`): a session that expires in between is extended with the claim of a
  given-up refresh still set, and cannot refresh until it expires.
- `docs/migrations.md:147` says access tokens are deleted before the codes they
  reference (ON DELETE RESTRICT); the code deletes codes first and the key is SET NULL.
  `Retention` follows the code.
- A session batch may be refused as a whole while a logout transaction or a detached
  access token still refers to one of its sessions. Later operations of the run remove
  these, and `EverythingRetires` holds.
- The limiter drops an idle entry after ten minutes, whatever the rate and the burst. The
  defaults refill a bucket within that time (`Excess` is zero); the ranges
  `config/load.go:449` accepts also allow 1 per minute with a burst of 1000, where a dropped
  entry comes back with more than it would have gained. `Envelope` bounds what this adds.
- A session idle timeout shorter than the five minutes between touches
  (`session/service.go:42`) passes the validation, and then a session in steady use ends:
  `IdleWindow` bounds the idle expiry from below by the last activity less the touch
  interval, and no better.
- `docs/development.md:216` lists the end of the cleanup loop after HTTP shutdown. Its
  context is derived from the one the signal cancels (`app.go:184`), so the loop stops at
  the signal, and is only waited for afterwards. `Supervisor` follows the code.
- When serving fails, nothing is drained: requests in flight are cut, and the process exits
  with an error.
- A secret rotation whose clock reading is older than the active secret's creation is
  refused by a CHECK constraint. `ClientRegistry` has this outcome.

## 6. Proofs

Every theorem holds for any sets of users, sessions, transactions, requests and so on and
for any bounds, under assumptions named in the modules. TLC evaluates these assumptions
on the instances.

| Module | Assumptions |
|---|---|
| `TokenAuthority` | `openid` and `offline_access` are scopes; `None` is no row; identifiers of different tables differ; lifetimes are positive and the rolling one is not longer than the absolute one (`RefreshDeadlines` enforces it) |
| `Accounts` | user names and addresses are disjoint and ordered (the lock order); finitely many users; patches are patches |
| `LoginForm` | positive budget, places and lifetimes; finitely many submissions at a time |
| `AuthorizeFlow` | what is asked is what the parser accepts (`ValidPrompts`); a positive lifetime |
| `RateLimiter` | rates and bursts are positive (`newAuthenticationRateLimiter` replaces others); readings are not older than an idle entry is kept |
| `SessionActivity` | the lifetimes `NewTokenManager` accepts (`SessionAssumption`) |
| `SessionIsolation` | sessions are numbered in the order of the locks; `None` is neither a session nor a process |
| `ClientRegistry` | `None` is no client, secret, process, profile or row; a first version can be stored |
| `Retention` | lifetimes, retentions and the batch size are positive; the long retention is not shorter than that of protocol rows |
| `Supervisor` | the pool has a connection; a pass has finitely many operations; the loop makes at least the pass it starts with |
| `LogoutTransaction` | `None` is no session, user, client, URI or transaction; at least one confirmable transaction per session and one attempt; positive lifetimes |
| `RelyingParty` | limits are natural numbers; capacity, session lifetime and sweep interval are positive |

| Theorem | Says |
|---|---|
| `TypeCorrect`, `LineageHolds`, `AuthorityHolds`, `LiveAuthorityHolds` | `TypeOK`, `TokenLineage`, the invariant behind authority, `LiveAuthority` |
| `RotationChainHolds`, `SingleUseHolds` | `RotationChain`, `SingleUse` |
| `NoDormantAuthorityHolds`, `OneConsentEpochHolds`, `SessionCascadeHolds`, `RevocationIsFinalHolds` | the remaining four properties of run `tokens` |
| `AccountInvariant`, `AnActiveAdminRemainsHolds`, `IdentifierNamesOneUserHolds`, `NoLostUpdateHolds`, `ChangeEndsSessionsHolds` | the safety properties of run `accounts` |
| `FormInvariant`, `AttemptBudgetHolds`, `OpensOnceHolds` | the safety properties of run `loginForm` |
| `FlowInvariant`, `ConsentIsTheUsersOwnHolds`, `PromptHonouredHolds`, `CodeFromCurrentAuthorityHolds`, `DecidedOnceHolds` | all of run `authorize`; the last is that `AuthorizeFlow` implements `OneShot` |
| `LogoutInvariant`, `RedirectOnlyForHintedUserHolds`, `LogoutIsOwnHolds`, `ConfirmationBudgetHolds`, `DecidedOnceHolds` | all of run `logout`; the last is that `LogoutTransaction` implements `OneShot` |
| `PartyInvariant`, `SessionIsItsLoginHolds`, `NeverReusedHolds`, `RevokesOnlyOrphansHolds` | all of run `relyingParty` |
| `IsolationInvariant`, `DisabledHasNothingHolds`, `BindingInheritedOnceHolds` | the safety properties of run `isolation` |
| `RegistryInvariant`, `OneActiveSecretHolds`, `AnswerIsCurrentHolds` | all of run `clients` |
| `EvidenceInvariant`, `ReplayEvidenceHolds`, `RefreshBatchNeverRefused` | the safety property of run `retention`, and the safety half of `EverythingRetires`: the schema refuses no batch but that of sessions |
| `SupervisorInvariant`, `ShutdownOrderHolds` | the safety property of run `supervisor` |
| `LimiterInvariant`, `EnvelopeHolds`, `CrowdedOutByActiveHolds`, `IdleWindowHolds`, `LoadRepairsHolds` | all of run `clockReadings` |

The arguments follow.

`TokenAuthority`
1. *Typing.* One step per action; the revocation helpers have lemmas of their own, which
   every cascade cites.
2. *Shape of a step.* `StepShape`: a step of `Next` only revokes rows, leaves the token
   tables alone, is an exchange, a refresh, an issue of a code, or the rejection of a
   consumed code. Later proofs split on these few cases and not on every action.
3. *Lineage* from typing and shape: rows are copied from their origin and an origin's
   columns never change.
4. *Authority.* That live families are backed does not follow without lineage (a
   cascade by user finds a family only if its owner is that of its code), and that live
   access tokens are backed is not inductive without the families' half (a refresh needs
   a backed family). `AuthorityInv` is both, preserved given typing and lineage.
   `AuthorityOfRevocation` does the work: a revocation is safe when it takes a family
   only together with its live tokens and everything it spares keeps its standing.
5. *No dormant authority* from 4 and `OfflineFamilies`.
6. *Chain and single use.* A refresh consumes the live end and creates the next; hence
   what paid for a token is spent, and stays spent.
7. *Epochs, cascades and finality* from typing, lineage and the shape of each step.

`Accounts`: `AccountInv` adds to the types who holds which lock at which stage
(`LockInv`), that a prepared update is the stored row with its patch as long as the
versions match (`OriginInv`), that what was checked under an identifier's lock is still
free (`IdentifierInv`), and that a demotion past its check leaves another active
administrator (`AdminInv`). The last two are what the locks are for: they are false without
`LockInv`, and the two properties are not inductive without them.

`LoginForm`: `FormInv` counts. A form's attempts cover the checks made and those paid for
and still to come, which needs finitely many submissions; a session was opened only by a form that
is spent, and for a local login by the only form of its transaction.

`AuthorizeFlow`: `FlowInv` says of a request that has *decided* to issue what the
properties say of a code (`Fits`), since the commit does not look at the login or the page
again. It survives because transactions keep what they asked, sessions keep their user, and
pages are never taken back (`Keeps`). Every step has one of four forms (`Steps`): a request
goes on, a transaction is opened, a transaction is settled, or the environment moves. Only
the second and third change what `OneShot` sees, and they are its `Open` and `Decide`; that
the effect goes from 0 to 1 needs that a live transaction has no code (`Uncoded`).
`CodeFromCurrentAuthority` is about what earlier steps of the request saw, so the invariant
says of the rows a request holds that they are still as it found them, and that no two
requests hold one transaction (`LockInv`); whoever would change such a row waits.

`RateLimiter`: `LimiterInv` adds what was spent to what is left in the bucket, against
capacity, elapsed time and the credit of earlier drops. For an entry that was dropped it says
how long ago the last admission was: the bucket has gained that much, and what it still
lacked is at most `Excess`, which the drop adds to the credit. No relation between rate,
burst and the life of an entry is assumed.

`SessionActivity`: `ActivityInv` ties the idle expiry to the last touch and bounds the lag
of the touches under way; `QuietInv` follows the CSRF token of a tab that acts alone from
the row to the response, the jar and the page.

`LogoutTransaction`: a request reads the cookies and the clock, and meets a row later that
other requests may have bound, confirmed or deleted since. `LogoutInv` says what survives
that. A row that is bound stays with its session, and when it keeps a redirect the session's
user is the one the hint named (`RowSound`); a page was rendered for the session its
transaction is bound to (`PageSound`), and so was the page a form in flight came from
(`RequestSound`); what a request may still send the browser to is what a confirmed row
carries (`SentSound`). A binding that has counted relies on its count when it writes:
until then the transaction is open, the session is not revoked and below its capacity
(`Counted`), because no two bindings have a row in common and everyone else waits for both
rows (`LockInv`). None of the properties is inductive: `LogoutIsOwn` needs the page of
the form, which is older than the step. They survive because a row once bound never changes
its session (`TxnsSteady`) and a session never changes its user or comes back
(`SessionsSteady`). The capacity is a count over a set that only `Bind` enlarges, by one and
after `LockBind` compared it with the limit, and that the clock only shrinks (`BudgetInv`; it needs
that finitely many transactions were started). For `OneShot` every step is one of three
that it sees, a start, a decision and a deletion, or leaves all verdicts as they are.

`RelyingParty`: `CustodyInv` says that usable tokens are in one place. A session that is
not being refreshed keeps its tokens (`Kept`), a handler that is on the way to or from the
provider holds its own (`Held`), no two of these are of one family, and each is the newest
generation of a family that was not given back. The claim of a refresh moves tokens from
the first kind to the second and its settlement moves them back, each in one critical
section; a lost answer makes them nobody's. `NeverReused` and `RevokesOnlyOrphans` follow:
whoever presents or gives back tokens holds them. `NeverReused` alone is not
inductive, since it says nothing of a token until it is presented.
`SessionIsItsLogin` rests on two more facts: an attempt is pending in one session at most,
and once superseded in none (`LoginInv`), and the tokens a handler brings back are of the
login that the session it left still shows, if it is still there (`ErrandInv`). Session
ids are never used twice (`Steady`), which is what makes the last one survive a sweep.

`SessionIsolation`: a revocation and a login each hold some row locks and remember what they
have read, and between two of their statements anything else may happen. `IsolationInv` says
what those memories are worth. Whoever is past a lock holds it (`LocksSound`). A login past
the user lock has an active user; past the lock of the old row, the binding it carries is
what that row still says (`LoginSound`). A disabling that has selected its rows has all
unrevoked sessions of the user among those it has locked or will lock (`RevokeSound`): no
other login can add one, since it would need the user lock. This is what the revocation
of all sessions lacks (section 5), and the invariant claims nothing of the kind for it. Two
logins in flight have different new rows (`Apart`), and locked rows exist (`RowsSound`).
`DisabledHasNothing` and `BindingInheritedOnce` are conjuncts of the invariant; each needs the
others, since an inherited binding keeps its tokens only because its old row was unrevoked
under the lock.

`ClientRegistry`: `OneActiveSecret` needs that what a rotation revokes is all there is to
revoke (`RotateSound`), which holds from its statement to its commit because it holds the
client's row lock (`LockSound`). `AnswerIsCurrent` needs two more facts. A patch is prepared
under no lock; as long as its version is the row's, it says of the status what the row
says, or what the administrator ordered with it (`UpdateSound`). So a row's status is always
the one ordered last (`ClientSound`). An authentication reads three times under no lock;
what it found is so still, or a rotation or a change of status has committed since and
`watch` has recorded it (`AuthSound`, `AnswerSound`).

`Retention`: `ReplayEvidence` says when a row may be gone, and is not inductive since it
says nothing of a row that was never written: the expiry of a family that does not exist yet
could lie in the past of a generation that is gone. `EvidenceInv` adds that generations and family
begin together, with the exchange of the code, and the code with the consumption of its
transaction (`NotYetIssued`). A run deletes by one reading of the clock taken at its start,
and the proof uses only that this reading is not ahead of the clock.
`RefreshBatchNeverRefused` needs the other half, `SelectionSafe`: what a statement has selected
is still due when it is deleted and nothing has come to refer to it in between, since
an access token is only ever added to a generation or family that is not yet due.

`Supervisor`: `SupervisorInv` follows the process from its checks to its end: nothing serves before
the listener is open (`BeforeListening`); the store is open from its check to the deferred
Close, which comes after the cleanup loop has been waited for (`StoreLife`); readiness and
the state of the server follow the supervisor (`ReadyLife`); and unless an error is going
to be returned no request was cut, and once the supervisor has been left none is in flight
and none can come (`NobodyDropped`).

Only model-checked: liveness (`EveryTransactionEnds`, `EveryRequestEnds`, `GateReopens`,
`EverythingRetires`, `NothingHangs`), since liveness under fairness and statements with
ENABLED are outside the prover; and the failure of `RevokeAllIsComplete`, which is a
counterexample and needs no more than one instance. Every other property a run checks is
proved.

## 7. Not modelled, and why

- HTTP routing, headers, templates, JSON and problem responses: formatting without state.
- Cryptography (signing, JWKS, PKCE, Argon2, CSRF as bytes): computations whose result
  the models take as given.
- Signing keys are read once when the process starts and never change while it runs; the
  rotation of `docs/key-rotation-runbook.md` is a sequence of operator steps across
  restarts.
- Configuration, command line, health, metrics, audit rows: read or written, never read
  back by the protocol.
- Migrations and generated queries: modelled by what their constraints and statements
  do wherever a module uses them.
- Floating point in the limiter: `RateLimiter` has exact multiples.

## 8. Plan

In order:

1. a composition of the lock orders of all transactions, checked for deadlock (each of
   `SessionIsolation`, `Accounts` and `ClientRegistry` has its own part of it);
2. the expiry envelope of generations (`refresh.go:190`) as a part of `RotationChain`
   and of its proof.
