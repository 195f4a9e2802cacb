--------------------------- MODULE TokenAuthority ---------------------------
(***************************************************************************)
(* The token authority of OneIssuer: who may hold a usable Access Token or  *)
(* Refresh Token, and what takes that authority away again.                 *)
(*                                                                          *)
(* The state is the database rows that decide it (users, oidc_clients,      *)
(* consent_grants, login_sessions, authorization_codes,                     *)
(* refresh_token_families, refresh_tokens, access_tokens) and the clock.    *)
(* Every operation of internal/storage/postgres that writes one of them is  *)
(* one atomic action: each runs in one database transaction that locks the  *)
(* rows it decides on.  What READ COMMITTED lets through between the        *)
(* statements of two such transactions is the subject of SessionIsolation. *)
(*                                                                          *)
(* A request that is refused (ErrInvalidGrant, ErrNotFound, ...) rolls back *)
(* and leaves the state alone, so its action is simply not enabled.         *)
(***************************************************************************)
EXTENDS Integers, FiniteSets

CONSTANTS
    User, Client, Session,   \* row identifiers; a session also names a binding
    Code, Family, Access,    \* row identifiers
    Scope,                   \* the scopes the issuer supports
    None,                    \* no family / no session
    CodeTTL, AccessTTL,      \* lifetimes, in clock ticks
    RollingTTL, AbsoluteTTL,
    MaxGeneration,           \* stands for math.MaxInt64, the last generation
    MaxNow, MaxVersion       \* bounds of the model: clock, grant versions

ASSUME ScopeAssumption == {"openid", "offline_access"} \subseteq Scope

ASSUME NoneAssumption == None \notin Family /\ None \notin Session

\* Rows of different tables have different identifiers.
ASSUME SourceAssumption == Code \cap (Family \X (0 .. MaxGeneration)) = {}

ASSUME LifetimeAssumption ==
    /\ {CodeTTL, AccessTTL, RollingTTL, AbsoluteTTL} \subseteq Nat \ {0}
    /\ RollingTTL <= AbsoluteTTL

ASSUME BoundAssumption ==
    MaxGeneration \in Nat /\ MaxNow \in Nat /\ MaxVersion \in Nat \ {0}

VARIABLES
    now, users, clients, grants, sessions, codes, families, generations,
    accesses

vars == <<now, users, clients, grants, sessions, codes, families,
          generations, accesses>>

-----------------------------------------------------------------------------
(* Rows.  NoRow stands for the row that has not been inserted.             *)

Generation == 0 .. MaxGeneration
ScopeSet == {S \in SUBSET Scope : "openid" \in S}
NoRow == [state |-> "none"]

ClientRow == [state : {"active", "disabled"}, scopes : ScopeSet]

\* `since` is history: the version at which the grant was last created or
\* reactivated, i.e. the start of the current uninterrupted consent.
GrantRow == [state : {"active", "revoked"}, scopes : ScopeSet,
             version : Nat, since : Nat]

\* "expired" is an unrevoked session past its idle or absolute deadline.
SessionRow == [state : {"live", "expired", "revoked"}, user : User,
               binding : Session]

CodeRow == [state : {"issued", "consumed"}, user : User, client : Client,
            scopes : ScopeSet, version : Nat, binding : Session,
            expires : Nat, rejections : Nat]

FamilyRow == [state : {"live", "revoked"}, user : User, client : Client,
              scopes : ScopeSet, binding : Session, absolute : Nat,
              code : Code]

GenerationRow == [state : {"live", "consumed"}, expires : Nat]

\* source is the code or the <<family, generation>> the token was issued for.
AccessRow == [state : {"live", "revoked"}, user : User, client : Client,
              scopes : ScopeSet, binding : Session, expires : Nat,
              family : Family \cup {None},
              source : Code \cup (Family \X Generation)]

TypeOK ==
    /\ now \in Nat
    /\ users \in [User -> {"none", "active", "disabled"}]
    /\ clients \in [Client -> ClientRow]
    /\ grants \in [User \X Client -> GrantRow \cup {NoRow}]
    /\ sessions \in [Session -> SessionRow \cup {NoRow}]
    /\ codes \in [Code -> CodeRow \cup {NoRow}]
    /\ families \in [Family -> FamilyRow \cup {NoRow}]
    /\ generations \in [Family \X Generation -> GenerationRow \cup {NoRow}]
    /\ accesses \in [Access -> AccessRow \cup {NoRow}]

Init ==
    /\ now = 0
    /\ users = [u \in User |-> "none"]
    /\ clients = [c \in Client |-> [state |-> "active", scopes |-> Scope]]
    /\ grants = [p \in User \X Client |-> NoRow]
    /\ sessions = [s \in Session |-> NoRow]
    /\ codes = [k \in Code |-> NoRow]
    /\ families = [f \in Family |-> NoRow]
    /\ generations = [p \in Family \X Generation |-> NoRow]
    /\ accesses = [a \in Access |-> NoRow]

-----------------------------------------------------------------------------
(* The row sets the revocation queries select, and the updates on them.    *)

LiveAccess(a) == accesses[a].state = "live" /\ accesses[a].expires > now

UnrevokedFamiliesByGrant(u, c) ==
    {f \in Family : /\ families[f].state = "live"
                    /\ families[f].user = u /\ families[f].client = c}
LiveAccessesByGrant(u, c) ==
    {a \in Access : /\ LiveAccess(a)
                    /\ accesses[a].user = u /\ accesses[a].client = c}
UnrevokedFamiliesByUser(u) ==
    {f \in Family : families[f].state = "live" /\ families[f].user = u}
LiveAccessesByUser(u) ==
    {a \in Access : LiveAccess(a) /\ accesses[a].user = u}
UnrevokedFamiliesByClient(c) ==
    {f \in Family : families[f].state = "live" /\ families[f].client = c}
LiveAccessesByClient(c) ==
    {a \in Access : LiveAccess(a) /\ accesses[a].client = c}
LiveRefreshAccessesByClient(c) ==
    {a \in LiveAccessesByClient(c) : accesses[a].family # None}
UnrevokedFamiliesByBindings(B) ==
    {f \in Family : families[f].state = "live" /\ families[f].binding \in B}
LiveAccessesByBindings(B) ==
    {a \in Access : LiveAccess(a) /\ accesses[a].binding \in B}
LiveAccessesByFamily(f) ==
    {a \in Access : LiveAccess(a) /\ accesses[a].family = f}

\* LockActiveLoginSessionsByUser asks for revoked_at IS NULL only: a session
\* past its deadline is still selected.
Unrevoked(s) == sessions[s].state \in {"live", "expired"}
UnrevokedSessionsByUser(u) ==
    {s \in Session : Unrevoked(s) /\ sessions[s].user = u}
BindingsOf(S) == {sessions[s].binding : s \in S}

RevokeFamilies(S) ==
    families' = [f \in Family |->
        IF f \in S THEN [families[f] EXCEPT !.state = "revoked"]
                   ELSE families[f]]

RevokeAccesses(S) ==
    accesses' = [a \in Access |->
        IF a \in S THEN [accesses[a] EXCEPT !.state = "revoked"]
                   ELSE accesses[a]]

RevokeSessions(S) ==
    sessions' = [s \in Session |->
        IF s \in S THEN [sessions[s] EXCEPT !.state = "revoked"]
                   ELSE sessions[s]]

\* (mutant) the cascade forgets the access tokens
BugCascadeFamiliesOnly(B) ==
    /\ RevokeFamilies(UnrevokedFamiliesByBindings(B))
    /\ UNCHANGED accesses

\* revokeSessionBindingsCascade: everything derived from these bindings.
RevokeBindingsCascade(B) ==
    /\ RevokeFamilies(UnrevokedFamiliesByBindings(B))
    /\ RevokeAccesses(LiveAccessesByBindings(B))

-----------------------------------------------------------------------------
(* Time.  Every deadline is compared with the caller's clock reading.      *)

Tick ==
    /\ now < MaxNow
    /\ now' = now + 1
    /\ UNCHANGED <<users, clients, grants, sessions, codes, families,
                   generations, accesses>>

\* Passive expiry of a browser session: no row changes but no lookup finds
\* it live any more.  Nothing cascades.
SessionExpires(s) ==
    /\ sessions[s].state = "live"
    /\ sessions' = [sessions EXCEPT ![s].state = "expired"]
    /\ UNCHANGED <<now, users, clients, grants, codes, families, generations,
                   accesses>>

-----------------------------------------------------------------------------
(* Login.  `old` is the session the browser's cookie selects, if any.      *)

NewSession(s, u, b) == [state |-> "live", user |-> u, binding |-> b]

ActiveExisting(old) == old # None /\ sessions[old].state = "live"

\* A login replaces the session the browser already has.  For the same user
\* the replacement inherits the binding and no token authority changes; for
\* another user the old binding is cut off.
CommitLogin(u, old, new) ==
    LET same == ActiveExisting(old) /\ sessions[old].user = u
        binding == IF same THEN sessions[old].binding ELSE new
    IN  /\ users[u] = "active"
        /\ sessions[new].state = "none"
        /\ sessions' = [s \in Session |->
               IF s = new THEN NewSession(new, u, binding)
               ELSE IF s = old /\ ActiveExisting(old)
                    THEN [sessions[s] EXCEPT !.state = "revoked"]
                    ELSE sessions[s]]
        /\ IF ActiveExisting(old) /\ ~same
           THEN RevokeBindingsCascade({sessions[old].binding})
           ELSE UNCHANGED <<families, accesses>>
        /\ UNCHANGED <<now, users, clients, grants, codes, generations>>

\* A registration creates the user it logs in, so an active session of the
\* same browser always belongs to somebody else.
CommitRegistration(u, old, new) ==
    /\ users[u] = "none"
    /\ sessions[new].state = "none"
    /\ users' = [users EXCEPT ![u] = "active"]
    /\ sessions' = [s \in Session |->
           IF s = new THEN NewSession(new, u, new)
           ELSE IF s = old /\ ActiveExisting(old)
                THEN [sessions[s] EXCEPT !.state = "revoked"]
                ELSE sessions[s]]
    /\ IF ActiveExisting(old)
       THEN RevokeBindingsCascade({sessions[old].binding})
       ELSE UNCHANGED <<families, accesses>>
    /\ UNCHANGED <<now, clients, grants, codes, generations>>

CreateManagedUser(u) ==
    /\ users[u] = "none"
    /\ users' = [users EXCEPT ![u] = "active"]
    /\ UNCHANGED <<now, clients, grants, sessions, codes, families,
                   generations, accesses>>

-----------------------------------------------------------------------------
(* Explicit revocation of sessions: the binding goes with the session.     *)

RevokeSessionAndBinding(s) ==
    /\ Unrevoked(s)
    /\ RevokeSessions({s})
    /\ RevokeBindingsCascade({sessions[s].binding})
    /\ UNCHANGED <<now, users, clients, grants, codes, generations>>

RevokeUserSession(u, s) == sessions[s].state # "none" /\ sessions[s].user = u
                           /\ RevokeSessionAndBinding(s)
RevokeSessionByHash(s) == RevokeSessionAndBinding(s)
RevokeManagedSession(s) == RevokeSessionAndBinding(s)

RevokeSessionsAndBindings(S) ==
    /\ RevokeSessions(S)
    /\ RevokeBindingsCascade(BindingsOf(S))
    /\ UNCHANGED <<now, users, clients, grants, codes, generations>>

\* `current` was authenticated earlier in the request and may be stale.
RevokeOtherUserSessions(u, current) ==
    /\ sessions[current].state # "none" /\ sessions[current].user = u
    /\ RevokeSessionsAndBindings(UnrevokedSessionsByUser(u) \ {current})

RevokeAllManagedUserSessions(u) ==
    /\ users[u] # "none"
    /\ RevokeSessionsAndBindings(UnrevokedSessionsByUser(u))

-----------------------------------------------------------------------------
(* Administration.                                                         *)

\* (mutant) disabling a user relies on the session cascade alone
BugDisableBySessionsOnly(u, status, roleChanged) ==
    LET revoke == status # users[u] \/ roleChanged
        S == IF revoke THEN UnrevokedSessionsByUser(u) ELSE {}
    IN  /\ users[u] # "none"
        /\ users' = [users EXCEPT ![u] = status]
        /\ RevokeSessions(S)
        /\ RevokeBindingsCascade(BindingsOf(S))
        /\ UNCHANGED <<now, clients, grants, codes, generations>>

\* admin.UpdateUser revokes the sessions when the status or the role changes;
\* a disabled user also loses every family and live token.
UpdateManagedUser(u, status, roleChanged) ==
    LET revoke == status # users[u] \/ roleChanged
        S == IF revoke THEN UnrevokedSessionsByUser(u) ELSE {}
        disabled == status = "disabled"
    IN  /\ users[u] # "none"
        /\ users' = [users EXCEPT ![u] = status]
        /\ RevokeSessions(S)
        /\ RevokeFamilies(
               UnrevokedFamiliesByBindings(BindingsOf(S)) \cup
               (IF disabled THEN UnrevokedFamiliesByUser(u) ELSE {}))
        /\ RevokeAccesses(
               LiveAccessesByBindings(BindingsOf(S)) \cup
               (IF disabled THEN LiveAccessesByUser(u) ELSE {}))
        /\ UNCHANGED <<now, clients, grants, codes, generations>>

UpdateClient(c, status, scopes) ==
    LET disabled == status = "disabled"
        offlineScopeRemoved == /\ "offline_access" \in clients[c].scopes
                               /\ "offline_access" \notin scopes
    IN  /\ clients' = [clients EXCEPT ![c] = [state |-> status, scopes |-> scopes]]
        /\ IF disabled \/ offlineScopeRemoved
           THEN /\ RevokeFamilies(UnrevokedFamiliesByClient(c))
                /\ RevokeAccesses(IF disabled THEN LiveAccessesByClient(c)
                                  ELSE LiveRefreshAccessesByClient(c))
           ELSE UNCHANGED <<families, accesses>>
        /\ UNCHANGED <<now, users, grants, sessions, codes, generations>>

-----------------------------------------------------------------------------
(* Consent.                                                                *)

\* lockAndApplyConsent.  Without interaction only a live grant that already
\* covers the request will do; with it the grant is created, rebuilt from the
\* approved scopes alone, or widened.
ApplyConsent(u, c, requested, interactive) ==
    LET g == grants[<<u, c>>] IN
    \/ /\ g.state = "none" /\ interactive
       /\ grants' = [grants EXCEPT ![<<u, c>>] =
              [state |-> "active", scopes |-> requested, version |-> 1, since |-> 1]]
    \/ /\ g.state = "revoked" /\ interactive
       /\ g.version < MaxVersion
       /\ grants' = [grants EXCEPT ![<<u, c>>] =
              [state |-> "active", scopes |-> requested,
               version |-> g.version + 1, since |-> g.version + 1]]
    \/ /\ g.state = "active"
       /\ requested \subseteq g.scopes
       /\ UNCHANGED grants
    \/ /\ g.state = "active" /\ interactive
       /\ ~(requested \subseteq g.scopes)
       /\ g.version < MaxVersion
       /\ grants' = [grants EXCEPT ![<<u, c>>] =
              [state |-> "active", scopes |-> g.scopes \cup requested,
               version |-> g.version + 1, since |-> g.since]]

\* Issue a code to the principal authenticated by session s.  The principal
\* was read earlier in the request and the session is not looked at again, so
\* s may have expired or been revoked since.  k is both the authorization
\* transaction the commit consumes and its only code (the code's
\* auth_transaction_id is unique).
IssueAuthorizationCode(k, s, c, requested, interactive) ==
    LET u == sessions[s].user IN
    /\ codes[k].state = "none"
    /\ sessions[s].state # "none"
    /\ users[u] = "active"
    /\ clients[c].state = "active" /\ requested \subseteq clients[c].scopes
    /\ ApplyConsent(u, c, requested, interactive)
    /\ codes' = [codes EXCEPT ![k] =
           [state |-> "issued", user |-> u, client |-> c, scopes |-> requested,
            version |-> grants'[<<u, c>>].version, binding |-> sessions[s].binding,
            expires |-> now + CodeTTL, rejections |-> 0]]
    /\ UNCHANGED <<now, users, clients, sessions, families, generations,
                   accesses>>

RevokeCurrentUserGrant(u, c) ==
    LET g == grants[<<u, c>>] IN
    /\ g.state = "active"
    /\ g.version < MaxVersion
    /\ grants' = [grants EXCEPT ![<<u, c>>] =
           [state |-> "revoked", scopes |-> g.scopes,
            version |-> g.version + 1, since |-> g.since]]
    /\ RevokeFamilies(UnrevokedFamiliesByGrant(u, c))
    /\ RevokeAccesses(LiveAccessesByGrant(u, c))
    /\ UNCHANGED <<now, users, clients, sessions, codes, generations>>

-----------------------------------------------------------------------------
(* The token endpoint.                                                     *)

Min(x, y) == IF x <= y THEN x ELSE y

NewAccess(user, client, scopes, binding, family, source) ==
    [state |-> "live", user |-> user, client |-> client, scopes |-> scopes,
     binding |-> binding, expires |-> now + AccessTTL, family |-> family,
     source |-> source]

\* A refresh generation lives for the rolling lifetime, within its family's.
NewGeneration(absolute) ==
    [state |-> "live", expires |-> Min(now + RollingTTL, absolute)]

\* The family an offline code starts copies the code's authority.
NewFamily(k) ==
    [state |-> "live", user |-> codes[k].user, client |-> codes[k].client,
     scopes |-> codes[k].scopes, binding |-> codes[k].binding,
     absolute |-> now + AbsoluteTTL, code |-> k]

\* (mutant) the grant version is not compared
BugAnyGrantVersion(k) ==
    LET r == codes[k]
        g == grants[<<r.user, r.client>>]
    IN  /\ r.state = "issued" /\ r.expires > now
        /\ users[r.user] = "active"
        /\ clients[r.client].state = "active"
        /\ r.scopes \subseteq clients[r.client].scopes
        /\ g.state = "active" /\ r.scopes \subseteq g.scopes

\* A code is worth something only at the grant version it was issued at.
CodeRedeemable(k) ==
    LET r == codes[k]
        g == grants[<<r.user, r.client>>]
    IN  /\ r.state = "issued" /\ r.expires > now
        /\ users[r.user] = "active"
        /\ clients[r.client].state = "active"
        /\ r.scopes \subseteq clients[r.client].scopes
        /\ g.state = "active" /\ g.version = r.version
        /\ r.scopes \subseteq g.scopes

\* (mutant) the exchanged code is not consumed
BugCodeNotConsumed(k, f, a) ==
    LET r == codes[k] IN
    /\ CodeRedeemable(k)
    /\ "offline_access" \notin r.scopes /\ f = None
    /\ accesses[a].state = "none"
    /\ accesses' = [accesses EXCEPT ![a] =
           NewAccess(r.user, r.client, r.scopes, r.binding, f, k)]
    /\ UNCHANGED <<now, users, clients, grants, sessions, codes, families,
                   generations>>

\* (mutant) the token carries what the client may ask for, not what the code was for
BugClientScopes(k, f, a) ==
    LET r == codes[k] IN
    /\ CodeRedeemable(k)
    /\ "offline_access" \notin r.scopes /\ f = None
    /\ accesses[a].state = "none"
    /\ accesses' = [accesses EXCEPT ![a] =
           NewAccess(r.user, r.client, clients[r.client].scopes, r.binding, f, k)]
    /\ codes' = [codes EXCEPT ![k].state = "consumed"]
    /\ UNCHANGED <<now, users, clients, grants, sessions, families, generations>>

\* offline_access starts a refresh family with generation 0.
ExchangeAuthorizationCode(k, f, a) ==
    LET r == codes[k] IN
    /\ CodeRedeemable(k)
    /\ accesses[a].state = "none"
    /\ IF "offline_access" \in r.scopes
       THEN /\ f # None /\ families[f].state = "none"
            /\ families' = [families EXCEPT ![f] = NewFamily(k)]
            /\ generations' = [generations EXCEPT ![<<f, 0>>] =
                   NewGeneration(now + AbsoluteTTL)]
       ELSE f = None /\ UNCHANGED <<families, generations>>
    /\ accesses' = [accesses EXCEPT ![a] =
           NewAccess(r.user, r.client, r.scopes, r.binding, f, k)]
    /\ codes' = [codes EXCEPT ![k].state = "consumed"]
    /\ UNCHANGED <<now, users, clients, grants, sessions>>

\* Presenting a consumed code leaves one rejection audit record behind, and
\* nothing else.
RejectConsumedCode(k) ==
    /\ codes[k].state = "consumed"
    /\ codes[k].rejections = 0
    /\ codes' = [codes EXCEPT ![k].rejections = @ + 1]
    /\ UNCHANGED <<now, users, clients, grants, sessions, families,
                   generations, accesses>>

\* The checks ExchangeRefreshToken makes before it looks at the generation.
RefreshAuthority(f) ==
    LET r == families[f] IN
    /\ r.state = "live" /\ r.absolute > now
    /\ users[r.user] = "active"
    /\ clients[r.client].state = "active"
    /\ grants[<<r.user, r.client>>].state = "active"

\* SelectRefreshAccessScopes, with scope omitted.
EffectiveScopes(f) ==
    LET r == families[f]
    IN  r.scopes \cap grants[<<r.user, r.client>>].scopes \cap clients[r.client].scopes

RefreshRedeemable(f, g) ==
    /\ RefreshAuthority(f)
    /\ generations[<<f, g>>].state = "live" /\ generations[<<f, g>>].expires > now
    /\ {"openid", "offline_access"} \subseteq EffectiveScopes(f)

\* (mutant) the presented generation stays live
BugNotConsumed(f, g, a, requested) ==
    LET r == families[f] IN
    /\ RefreshRedeemable(f, g)
    /\ requested \subseteq EffectiveScopes(f)
    /\ g < MaxGeneration
    /\ accesses[a].state = "none"
    /\ generations' = [generations EXCEPT
           ![<<f, g + 1>>] = NewGeneration(r.absolute)]
    /\ accesses' = [accesses EXCEPT ![a] =
           NewAccess(r.user, r.client, requested, r.binding, f, <<f, g>>)]
    /\ UNCHANGED <<now, users, clients, grants, sessions, codes, families>>

\* (mutant) every rotation extends the absolute deadline of the family
BugAbsoluteSlides(f, g, a, requested) ==
    LET r == families[f] IN
    /\ RefreshRedeemable(f, g)
    /\ requested \subseteq EffectiveScopes(f)
    /\ g < MaxGeneration
    /\ accesses[a].state = "none"
    /\ families' = [families EXCEPT ![f].absolute = now + AbsoluteTTL]
    /\ generations' = [generations EXCEPT
           ![<<f, g>>] = [@ EXCEPT !.state = "consumed"],
           ![<<f, g + 1>>] = [state |-> "live", expires |-> now + RollingTTL]]
    /\ accesses' = [accesses EXCEPT ![a] =
           NewAccess(r.user, r.client, requested, r.binding, f, <<f, g>>)]
    /\ UNCHANGED <<now, users, clients, grants, sessions, codes>>

\* Rotation: generation g is consumed, g + 1 is created and a token issued.
\* A replacement past the last generation is refused by validRefreshMinted.
ExchangeRefreshToken(f, g, a, requested) ==
    LET r == families[f] IN
    /\ RefreshRedeemable(f, g)
    /\ requested \subseteq EffectiveScopes(f)
    /\ g < MaxGeneration
    /\ accesses[a].state = "none"
    /\ generations' = [generations EXCEPT
           ![<<f, g>>] = [@ EXCEPT !.state = "consumed"],
           ![<<f, g + 1>>] = NewGeneration(r.absolute)]
    /\ accesses' = [accesses EXCEPT ![a] =
           NewAccess(r.user, r.client, requested, r.binding, f, <<f, g>>)]
    /\ UNCHANGED <<now, users, clients, grants, sessions, codes, families>>

\* (mutant) reuse revokes the family but not its access tokens
BugReuseKeepsAccess(f, g) ==
    /\ RefreshAuthority(f)
    /\ generations[<<f, g>>].state = "consumed"
    /\ RevokeFamilies({f})
    /\ UNCHANGED <<now, users, clients, grants, sessions, codes, generations,
                   accesses>>

\* A consumed generation presented again retires the family, whoever asks.
RejectReusedRefreshToken(f, g) ==
    /\ RefreshAuthority(f)
    /\ generations[<<f, g>>].state = "consumed"
    /\ RevokeFamilies({f})
    /\ RevokeAccesses(LiveAccessesByFamily(f))
    /\ UNCHANGED <<now, users, clients, grants, sessions, codes, generations>>

-----------------------------------------------------------------------------
(* Readers and the revocation endpoint.                                    *)

\* GetAccessTokenAuthority: the snapshot a reader of token a works on.
AccessAuthorityFound(a) ==
    LET r == accesses[a]
    IN  /\ r.state # "none" /\ r.expires > now
        /\ users[r.user] = "active"
        /\ clients[r.client].state = "active"
        /\ grants[<<r.user, r.client>>].state # "none"
        /\ r.family # None => families[r.family].state # "none"

AccessAuthorityMatches(a) ==
    LET r == accesses[a]
        g == grants[<<r.user, r.client>>]
        f == families[r.family]
    IN  /\ r.state = "live" /\ g.state = "active"
        /\ r.source \notin Code => r.family # None
        /\ r.family # None =>
               /\ f.state = "live" /\ f.absolute > now
               /\ f.user = r.user /\ f.client = r.client
               /\ f.binding = r.binding /\ r.scopes \subseteq f.scopes
        /\ r.scopes \subseteq g.scopes \cap clients[r.client].scopes

\* UserInfoForAccessToken answers.
AccessAccepted(a) == AccessAuthorityFound(a) /\ AccessAuthorityMatches(a)

\* introspectAccess answers active: true.
AccessIntrospectsActive(a) ==
    LET r == accesses[a]
        effective == r.scopes \cap grants[<<r.user, r.client>>].scopes
                     \cap clients[r.client].scopes
    IN  /\ AccessAuthorityFound(a) /\ AccessAuthorityMatches(a)
        /\ "openid" \in IF r.family = None THEN effective
                         ELSE effective \cap families[r.family].scopes

\* The conditions under which revokeAccessCandidate gets past its no-ops.
AccessRevocable(a) ==
    LET r == accesses[a]
        g == grants[<<r.user, r.client>>]
    IN  /\ r.state = "live" /\ r.expires > now
        /\ users[r.user] = "active"
        /\ clients[r.client].state = "active"
        /\ g.state = "active"
        /\ r.scopes \subseteq g.scopes \cap clients[r.client].scopes
        /\ r.family # None =>
               /\ families[r.family].state = "live"
               /\ families[r.family].absolute > now
               /\ families[r.family].user = r.user
               /\ families[r.family].client = r.client
               /\ r.scopes \subseteq families[r.family].scopes

RevokeAccessToken(a) ==
    /\ AccessRevocable(a)
    /\ RevokeAccesses({a})
    /\ UNCHANGED <<now, users, clients, grants, sessions, codes, families,
                   generations>>

\* Any generation the family ever had retires the family.
RefreshRevocable(f, g) ==
    /\ RefreshAuthority(f)
    /\ generations[<<f, g>>].state # "none"

RevokeRefreshToken(f, g) ==
    /\ RefreshRevocable(f, g)
    /\ RevokeFamilies({f})
    /\ RevokeAccesses(LiveAccessesByFamily(f))
    /\ UNCHANGED <<now, users, clients, grants, sessions, codes, generations>>

\* GetRefreshTokenAuthority: the rows exist, whatever their state.
RefreshAuthorityFound(f, g) ==
    /\ generations[<<f, g>>].state # "none" /\ families[f].state # "none"
    /\ users[families[f].user] # "none"
    /\ grants[<<families[f].user, families[f].client>>].state # "none"

\* introspectRefresh answers active: true.
RefreshIntrospectsActive(f, g) ==
    /\ RefreshAuthorityFound(f, g)
    /\ generations[<<f, g>>].state = "live" /\ generations[<<f, g>>].expires > now
    /\ families[f].state = "live" /\ families[f].absolute > now
    /\ users[families[f].user] = "active"
    /\ clients[families[f].client].state = "active"
    /\ grants[<<families[f].user, families[f].client>>].state = "active"
    /\ {"openid", "offline_access"} \subseteq EffectiveScopes(f)

-----------------------------------------------------------------------------
Browser == Session \cup {None}   \* the session a browser's cookie selects

Next ==
    \/ Tick
    \/ \E s \in Session : \/ SessionExpires(s)
                          \/ RevokeSessionByHash(s)
                          \/ RevokeManagedSession(s)
    \/ \E u \in User :
        \/ CreateManagedUser(u)
        \/ RevokeAllManagedUserSessions(u)
        \/ \E s \in Session : \/ RevokeUserSession(u, s)
                              \/ RevokeOtherUserSessions(u, s)
        \/ \E old \in Browser, new \in Session :
               CommitLogin(u, old, new) \/ CommitRegistration(u, old, new)
        \/ \E status \in {"active", "disabled"}, roleChanged \in BOOLEAN :
               UpdateManagedUser(u, status, roleChanged)
        \/ \E c \in Client : RevokeCurrentUserGrant(u, c)
    \/ \E c \in Client, status \in {"active", "disabled"}, scopes \in ScopeSet :
           UpdateClient(c, status, scopes)
    \/ \E k \in Code :
        \/ \E s \in Session, c \in Client, requested \in ScopeSet,
              interactive \in BOOLEAN :
               IssueAuthorizationCode(k, s, c, requested, interactive)
        \/ \E f \in Family \cup {None}, a \in Access :
               ExchangeAuthorizationCode(k, f, a)
        \/ RejectConsumedCode(k)
    \/ \E f \in Family, g \in Generation :
        \/ \E a \in Access, requested \in ScopeSet :
               ExchangeRefreshToken(f, g, a, requested)
        \/ RejectReusedRefreshToken(f, g)
        \/ RevokeRefreshToken(f, g)
    \/ \E a \in Access : RevokeAccessToken(a)

Spec == Init /\ [][Next]_vars

-----------------------------------------------------------------------------
(* Properties.                                                             *)

\* An unrevoked refresh family is authority its user, client and consent still
\* stand behind: every operation that withdraws one of them (UpdateManagedUser,
\* UpdateClient, RevokeCurrentUserGrant) revokes the families in the same step,
\* and none that restores one (enable, re-consent) brings a family back.
LiveFamilyAuthority ==
    \A f \in Family : families[f].state = "live" =>
        LET r == families[f]
            g == grants[<<r.user, r.client>>]
        IN  /\ users[r.user] = "active"
            /\ clients[r.client].state = "active"
            /\ "offline_access" \in clients[r.client].scopes
            /\ g.state = "active" /\ r.scopes \subseteq g.scopes

\* An unrevoked, unexpired access token has an active user, an active client, a
\* live consent covering its scopes and, when it came from a refresh family, a
\* family that is still live: no cascade query misses a token.
LiveAccessAuthority ==
    \A a \in Access : LiveAccess(a) =>
        LET r == accesses[a]
            g == grants[<<r.user, r.client>>]
        IN  /\ users[r.user] = "active"
            /\ clients[r.client].state = "active"
            /\ g.state = "active" /\ r.scopes \subseteq g.scopes
            /\ r.family # None => families[r.family].state = "live"

\* Everything that is live is backed by everything it depends on, whatever order
\* the administrator, the user and the clients act in.
LiveAuthority == LiveFamilyAuthority /\ LiveAccessAuthority

\* Rotation leaves one redeemable refresh token per family: the generations of
\* a family are an unbroken chain of consumed ones followed by exactly one live
\* one (ExchangeRefreshToken consumes and inserts in one transaction).
RotationChain ==
    \A f \in Family :
        IF families[f].state = "none"
        THEN \A g \in Generation : generations[<<f, g>>].state = "none"
        ELSE \E n \in Generation : \A g \in Generation :
                generations[<<f, g>>].state = IF g < n THEN "consumed"
                                          ELSE IF g = n THEN "live" ELSE "none"

\* A code or a refresh generation is spent once: no two access tokens share a
\* source, no two families an origin code, and whatever was a source is
\* consumed.  The unique indexes behind the inserts are therefore never hit.
SingleUse ==
    /\ \A a, b \in Access :
           /\ accesses[a].state # "none" /\ accesses[b].state # "none"
           /\ accesses[a].source = accesses[b].source
           => a = b
    /\ \A f, h \in Family :
           /\ families[f].state # "none" /\ families[h].state # "none"
           /\ families[f].code = families[h].code
           => f = h
    /\ \A a \in Access : accesses[a].state # "none" =>
           LET src == accesses[a].source IN
           IF src \in Code THEN codes[src].state = "consumed"
                           ELSE generations[src].state = "consumed"

\* The code an access token goes back to.
OriginCode(a) ==
    IF accesses[a].family = None THEN accesses[a].source
    ELSE families[accesses[a].family].code

\* Authority never outlives the consent it was given under: whatever is live
\* goes back to a code issued since the grant was last created or reactivated.
\* Withdrawing consent and giving it again revives no code, family or token.
OneConsentEpoch ==
    LET Since(k) == grants[<<codes[k].user, codes[k].client>>].since IN
    /\ \A f \in Family : families[f].state = "live" =>
           codes[families[f].code].version >= Since(families[f].code)
    /\ \A a \in Access : LiveAccess(a) =>
           codes[OriginCode(a)].version >= Since(OriginCode(a))

\* A row is within what its origin, a code or a family, stands for.
Descends(row, origin) ==
    /\ origin.state # "none"
    /\ row.user = origin.user /\ row.client = origin.client
    /\ row.scopes \subseteq origin.scopes /\ row.binding = origin.binding

FamilyLineage(f) ==
    LET k == families[f].code IN
    families[f].state # "none" =>
        /\ codes[k].state = "consumed" /\ families[f].scopes = codes[k].scopes
        /\ Descends(families[f], codes[k])

AccessLineage(a) ==
    accesses[a].state # "none" =>
        IF accesses[a].family = None
        THEN /\ accesses[a].source \in Code
             /\ Descends(accesses[a], codes[accesses[a].source])
        ELSE Descends(accesses[a], families[accesses[a].family])

\* Every token can be traced to one consumed code, and stays within what that
\* code stood for however often it was refreshed: a family copies the code's
\* user, client, scopes and session binding, an access token its family's (or
\* its code's), with scopes that only narrow.
TokenLineage ==
    /\ \A f \in Family : FamilyLineage(f)
    /\ \A a \in Access : AccessLineage(a)

\* What a step may do to rows that are revoked or spent: nothing, and to live
\* tokens nothing but revoke them.
RowsOnlyRetire ==
    /\ \A f \in Family : families[f].state # "none" =>
           families'[f] \in {families[f], [families[f] EXCEPT !.state = "revoked"]}
    /\ \A a \in Access : accesses[a].state # "none" =>
           accesses'[a] \in {accesses[a], [accesses[a] EXCEPT !.state = "revoked"]}
    /\ \A s \in Session : sessions[s].state = "revoked" => sessions'[s] = sessions[s]
    /\ \A k \in Code : codes[k].state = "consumed" => codes'[k].state = "consumed"
    /\ \A f \in Family, g \in Generation :
           generations[<<f, g>>].state = "consumed" =>
               generations'[<<f, g>>] = generations[<<f, g>>]

\* Revocation and consumption are final: no operation un-revokes a family, an
\* access token or a session, un-consumes a code or a generation, or changes
\* whose authority a row carries and until when.
RevocationIsFinal == [][RowsOnlyRetire]_vars

\* In this step the binding b passes to a session that did not exist.
Inherited(b) ==
    \E t \in Session : /\ sessions[t].state = "none" /\ sessions'[t].state = "live"
                       /\ sessions'[t].binding = b

\* After this step nothing live is left of the binding b.
NoneLeft(b) ==
    /\ \A f \in Family : families'[f].state = "live" => families'[f].binding # b
    /\ \A a \in Access : accesses'[a].state = "live" /\ accesses'[a].expires > now' =>
           accesses'[a].binding # b

CutOffOrInherited ==
    \A s \in Session : Unrevoked(s) /\ sessions'[s].state = "revoked" =>
        IF Inherited(sessions[s].binding) THEN UNCHANGED <<families, accesses>>
                                          ELSE NoneLeft(sessions[s].binding)

\* A session that is revoked either hands its binding on to a live replacement
\* (login rotation, which touches no token) or takes every family and live
\* access token of that binding down in the same step.
SessionCascade == [][CutOffOrInherited]_vars

\* No refresh authority lies dormant: as long as a family is unrevoked and not
\* past its absolute deadline, its newest unexpired generation can be redeemed
\* and introspects as active.  The cascades revoke rather than suspend, so a
\* family that stopped working never starts working again.
NoDormantRefreshAuthority ==
    \A f \in Family, g \in Generation :
        /\ families[f].state = "live" /\ families[f].absolute > now
        /\ generations[<<f, g>>].state = "live" /\ generations[<<f, g>>].expires > now
        => RefreshRedeemable(f, g) /\ RefreshIntrospectsActive(f, g)

\* An unrevoked, unexpired access token before its family's absolute deadline
\* is accepted by UserInfo and introspection unless the client's present scope
\* policy does not cover it: every other condition of accessAuthorityMatches is
\* already enforced by revocation, so the only way to suspend a token is to
\* narrow its client.
OnlyClientScopeSuspends ==
    \A a \in Access :
        LET r == accesses[a] IN
        /\ LiveAccess(a)
        /\ r.scopes \subseteq clients[r.client].scopes
        /\ r.family # None => families[r.family].absolute > now
        => AccessAccepted(a) /\ AccessIntrospectsActive(a)

\* What is not revoked works: the cascades revoke rather than suspend, so that
\* nothing that stopped working can start working again, except a token whose
\* client was narrowed.
NoDormantAuthority == NoDormantRefreshAuthority /\ OnlyClientScopeSuspends
=============================================================================
