------------------------ MODULE TokenAuthorityProofs ------------------------
(***************************************************************************)
(* Proofs about TokenAuthority for every number of users, clients,         *)
(* sessions, codes, families and tokens, every set of scopes and every     *)
(* choice of the lifetimes.                                                *)
(*                                                                         *)
(* The first half: types, what a step may do to the token tables, where a  *)
(* token comes from (TokenLineage), and that what is live is backed by     *)
(* everything it depends on (LiveAuthority).                               *)
(*                                                                         *)
(* The second half is about what the rows may become: the generations of a *)
(* family form a chain with one live end (RotationChain), no code or       *)
(* generation is the source of two tokens (SingleUse), whatever is not     *)
(* revoked works (NoDormantAuthority), nothing live is older than the      *)
(* consent it was given under (OneConsentEpoch), what was revoked or       *)
(* consumed stays so (RevocationIsFinal), and a session that is revoked    *)
(* takes its binding's tokens with it unless a replacement carries the     *)
(* binding on (SessionCascade).                                            *)
(***************************************************************************)
EXTENDS TokenAuthority, TLAPS

-----------------------------------------------------------------------------
(* Type correctness.                                                       *)

\* The scopes a client starts with are a legal scope set.
LEMMA ScopeInScopeSet == Scope \in ScopeSet
  BY ScopeAssumption DEF ScopeSet

\* The empty database with its registered clients is well typed.
LEMMA InitType == Init => TypeOK
  BY ScopeInScopeSet, LifetimeAssumption DEF Init, TypeOK, ClientRow

\* Revoking families that exist keeps the table well typed.
LEMMA RevokeFamiliesType ==
  ASSUME TypeOK, NEW STATE S, RevokeFamilies(S),
         \A f \in S \cap Family : families[f].state = "live"
  PROVE  families' \in [Family -> FamilyRow \cup {NoRow}]
  BY DEF TypeOK, RevokeFamilies, FamilyRow, NoRow

\* Revoking access tokens that exist keeps the table well typed.
LEMMA RevokeAccessesType ==
  ASSUME TypeOK, NEW STATE S, RevokeAccesses(S),
         \A a \in S \cap Access : accesses[a].state = "live"
  PROVE  accesses' \in [Access -> AccessRow \cup {NoRow}]
<1>1. accesses' = [a \in Access |-> IF a \in S THEN [accesses[a] EXCEPT !.state = "revoked"]
                                               ELSE accesses[a]]
  BY DEF RevokeAccesses
<1>2. ASSUME NEW a \in Access, a \in S
      PROVE  [accesses[a] EXCEPT !.state = "revoked"] \in AccessRow
  <2>1. accesses[a] \in AccessRow
    BY <1>2 DEF TypeOK, NoRow
  <2>. QED BY <2>1 DEF AccessRow
<1>3. \A a \in Access : accesses[a] \in AccessRow \cup {NoRow}
  BY DEF TypeOK
<1>. QED BY <1>1, <1>2, <1>3, Zenon

\* Revoking sessions that exist keeps the table well typed.
LEMMA RevokeSessionsType ==
  ASSUME TypeOK, NEW STATE S, RevokeSessions(S),
         \A s \in S \cap Session : Unrevoked(s)
  PROVE  sessions' \in [Session -> SessionRow \cup {NoRow}]
<1> SUFFICES ASSUME NEW s \in Session
             PROVE  sessions'[s] \in SessionRow \cup {NoRow}
  BY DEF RevokeSessions
<1>1. CASE s \in S
  <2>1. sessions[s] \in SessionRow
    BY <1>1 DEF TypeOK, Unrevoked, NoRow
  <2>. QED BY <1>1, <2>1 DEF RevokeSessions, SessionRow
<1>2. CASE s \notin S
  BY <1>2 DEF RevokeSessions, TypeOK
<1>. QED BY <1>1, <1>2

\* revokeSessionBindingsCascade keeps both token tables well typed.
LEMMA CascadeType ==
  ASSUME TypeOK, NEW STATE B, RevokeBindingsCascade(B)
  PROVE  /\ families' \in [Family -> FamilyRow \cup {NoRow}]
         /\ accesses' \in [Access -> AccessRow \cup {NoRow}]
  BY RevokeFamiliesType, RevokeAccessesType
  DEF RevokeBindingsCascade, UnrevokedFamiliesByBindings,
      LiveAccessesByBindings, LiveAccess

\* A consent decision keeps the grants well typed and leaves a live grant that
\* covers what was requested.
LEMMA ApplyConsentType ==
  ASSUME TypeOK, NEW u \in User, NEW c \in Client, NEW q \in ScopeSet,
         NEW i, ApplyConsent(u, c, q, i)
  PROVE  /\ grants' \in [User \X Client -> GrantRow \cup {NoRow}]
         /\ grants'[<<u, c>>] \in GrantRow
         /\ grants'[<<u, c>>].state = "active"
         /\ q \subseteq grants'[<<u, c>>].scopes
         /\ \A p \in User \X Client : p # <<u, c>> => grants'[p] = grants[p]
<1> DEFINE g == grants[<<u, c>>]
<1>0. grants \in [User \X Client -> GrantRow \cup {NoRow}] /\ <<u, c>> \in User \X Client
  BY DEF TypeOK
<1>1. CASE g.state = "none"
  <2> DEFINE n == [state |-> "active", scopes |-> q, version |-> 1, since |-> 1]
  <2>1. n \in GrantRow BY DEF GrantRow
  <2>2. grants' = [grants EXCEPT ![<<u, c>>] = n]
    BY <1>1 DEF ApplyConsent
  <2>. QED BY <1>0, <2>1, <2>2
<1>2. CASE g.state # "none"
  <2>0. g \in GrantRow
    BY <1>0, <1>2 DEF NoRow
  <2>1. CASE g.state = "revoked"
    <3> DEFINE n == [state |-> "active", scopes |-> q, version |-> g.version + 1, since |-> g.version + 1]
    <3>1. n \in GrantRow BY <2>0 DEF GrantRow
    <3>2. grants' = [grants EXCEPT ![<<u, c>>] = n]
      BY <2>1 DEF ApplyConsent
    <3>. QED BY <1>0, <3>1, <3>2, Zenon
  <2>2. CASE g.state = "active" /\ UNCHANGED grants /\ q \subseteq g.scopes
    BY <1>0, <2>0, <2>2
  <2>3. CASE g.state = "active" /\ ~(q \subseteq g.scopes)
    <3> DEFINE n == [state |-> "active", scopes |-> g.scopes \cup q,
                     version |-> g.version + 1, since |-> g.since]
    <3>1. n \in GrantRow
      <4>1. g.scopes \cup q \in ScopeSet /\ g.version + 1 \in Nat
        BY <2>0 DEF GrantRow, ScopeSet
      <4>. QED BY <4>1, <2>0 DEF GrantRow
    <3>2. grants' = [grants EXCEPT ![<<u, c>>] = n]
      BY <2>3, Zenon DEF ApplyConsent
    <3>. QED BY <1>0, <3>1, <3>2, Zenon
  <2>. QED BY <2>0, <2>1, <2>2, <2>3, Zenon DEF ApplyConsent, GrantRow
<1>. QED BY <1>1, <1>2, Zenon

\* Every operation keeps the tables well typed.
LEMMA NextType == TypeOK /\ [Next]_vars => TypeOK'
<1> SUFFICES ASSUME TypeOK, [Next]_vars PROVE TypeOK'
  OBVIOUS
<1> USE LifetimeAssumption, BoundAssumption
<1>1. CASE Tick
  BY <1>1 DEF Tick, TypeOK
<1>2. ASSUME NEW s \in Session, SessionExpires(s) PROVE TypeOK'
  <2>1. sessions[s] \in SessionRow
    BY <1>2 DEF SessionExpires, TypeOK, NoRow
  <2>2. [sessions[s] EXCEPT !.state = "expired"] \in SessionRow
    BY <2>1 DEF SessionRow
  <2>3. sessions' \in [Session -> SessionRow \cup {NoRow}]
    BY <1>2, <2>2 DEF SessionExpires, TypeOK
  <2>. QED BY <1>2, <2>3, Zenon DEF SessionExpires, TypeOK
<1>3. ASSUME NEW s \in Session, RevokeSessionAndBinding(s) PROVE TypeOK'
  <2>1. sessions' \in [Session -> SessionRow \cup {NoRow}]
    BY <1>3, RevokeSessionsType DEF RevokeSessionAndBinding
  <2>2. /\ families' \in [Family -> FamilyRow \cup {NoRow}]
        /\ accesses' \in [Access -> AccessRow \cup {NoRow}]
    BY <1>3, CascadeType DEF RevokeSessionAndBinding
  <2>. QED BY <1>3, <2>1, <2>2, Zenon DEF RevokeSessionAndBinding, TypeOK
<1>4. ASSUME NEW STATE S, S \in SUBSET Session, \A s \in S : Unrevoked(s),
             RevokeSessionsAndBindings(S)
      PROVE  TypeOK'
  <2>1. sessions' \in [Session -> SessionRow \cup {NoRow}]
    BY <1>4, RevokeSessionsType DEF RevokeSessionsAndBindings
  <2>2. /\ families' \in [Family -> FamilyRow \cup {NoRow}]
        /\ accesses' \in [Access -> AccessRow \cup {NoRow}]
    BY <1>4, CascadeType DEF RevokeSessionsAndBindings
  <2>. QED BY <1>4, <2>1, <2>2, Zenon DEF RevokeSessionsAndBindings, TypeOK
<1>5. ASSUME NEW u \in User, CreateManagedUser(u) PROVE TypeOK'
  BY <1>5, Zenon DEF CreateManagedUser, TypeOK
<1>6. ASSUME NEW u \in User, NEW old \in Browser, NEW new \in Session,
             CommitLogin(u, old, new)
      PROVE  TypeOK'
  <2> DEFINE same == ActiveExisting(old) /\ sessions[old].user = u
             b == IF same THEN sessions[old].binding ELSE new
  <2>1. NewSession(new, u, b) \in SessionRow
    <3>1. ActiveExisting(old) => sessions[old] \in SessionRow
      BY DEF ActiveExisting, Browser, TypeOK, NoRow
    <3>. QED BY <3>1 DEF NewSession, SessionRow
  <2>2. ActiveExisting(old) => [sessions[old] EXCEPT !.state = "revoked"] \in SessionRow
    <3>1. ActiveExisting(old) => sessions[old] \in SessionRow
      BY DEF ActiveExisting, Browser, TypeOK, NoRow
    <3>. QED BY <3>1 DEF SessionRow
  <2>3. sessions' \in [Session -> SessionRow \cup {NoRow}]
    <3> SUFFICES ASSUME NEW s \in Session
                 PROVE  sessions'[s] \in SessionRow \cup {NoRow}
      BY <1>6, Zenon DEF CommitLogin
    <3>1. CASE s = new
      BY <1>6, <3>1, <2>1, Zenon DEF CommitLogin
    <3>2. CASE s # new /\ s = old /\ ActiveExisting(old)
      BY <1>6, <3>2, <2>2, Zenon DEF CommitLogin
    <3>3. CASE s # new /\ ~(s = old /\ ActiveExisting(old))
      BY <1>6, <3>3, Zenon DEF CommitLogin, TypeOK
    <3>. QED BY <3>1, <3>2, <3>3
  <2>4. /\ families' \in [Family -> FamilyRow \cup {NoRow}]
        /\ accesses' \in [Access -> AccessRow \cup {NoRow}]
    BY <1>6, CascadeType, Zenon DEF CommitLogin, TypeOK
  <2>. QED BY <1>6, <2>3, <2>4, Zenon DEF CommitLogin, TypeOK
<1>7. ASSUME NEW u \in User, NEW old \in Browser, NEW new \in Session,
             CommitRegistration(u, old, new)
      PROVE  TypeOK'
  <2>1. NewSession(new, u, new) \in SessionRow
    BY DEF NewSession, SessionRow
  <2>2. ActiveExisting(old) => [sessions[old] EXCEPT !.state = "revoked"] \in SessionRow
    <3>1. ActiveExisting(old) => sessions[old] \in SessionRow
      BY DEF ActiveExisting, Browser, TypeOK, NoRow
    <3>. QED BY <3>1 DEF SessionRow
  <2>3. sessions' \in [Session -> SessionRow \cup {NoRow}]
    BY <1>7, <2>1, <2>2, Zenon DEF CommitRegistration, TypeOK
  <2>4. /\ families' \in [Family -> FamilyRow \cup {NoRow}]
        /\ accesses' \in [Access -> AccessRow \cup {NoRow}]
    BY <1>7, CascadeType, Zenon DEF CommitRegistration, TypeOK
  <2>. QED BY <1>7, <2>3, <2>4, Zenon DEF CommitRegistration, TypeOK
<1>8. ASSUME NEW u \in User, NEW status \in {"active", "disabled"},
             NEW roleChanged \in BOOLEAN, UpdateManagedUser(u, status, roleChanged)
      PROVE  TypeOK'
  <2> DEFINE revoke == status # users[u] \/ roleChanged
             S == IF revoke THEN UnrevokedSessionsByUser(u) ELSE {}
  <2>1. sessions' \in [Session -> SessionRow \cup {NoRow}]
    <3>1. \A s \in S \cap Session : Unrevoked(s)
      BY DEF UnrevokedSessionsByUser
    <3>2. RevokeSessions(S)
      BY <1>8 DEF UpdateManagedUser
    <3>. QED BY <3>1, <3>2, RevokeSessionsType
  <2>2. families' \in [Family -> FamilyRow \cup {NoRow}]
    BY <1>8, RevokeFamiliesType, Zenon
    DEF UpdateManagedUser, UnrevokedFamiliesByBindings, UnrevokedFamiliesByUser
  <2>3. accesses' \in [Access -> AccessRow \cup {NoRow}]
    BY <1>8, RevokeAccessesType, Zenon
    DEF UpdateManagedUser, LiveAccessesByBindings, LiveAccessesByUser, LiveAccess
  <2>. QED BY <1>8, <2>1, <2>2, <2>3, Zenon DEF UpdateManagedUser, TypeOK
<1>9. ASSUME NEW c \in Client, NEW status \in {"active", "disabled"},
             NEW scopes \in ScopeSet, UpdateClient(c, status, scopes)
      PROVE  TypeOK'
  <2>1. families' \in [Family -> FamilyRow \cup {NoRow}]
    BY <1>9, RevokeFamiliesType, Zenon DEF UpdateClient, UnrevokedFamiliesByClient, TypeOK
  <2>2. accesses' \in [Access -> AccessRow \cup {NoRow}]
    BY <1>9, RevokeAccessesType, Zenon
    DEF UpdateClient, LiveAccessesByClient, LiveRefreshAccessesByClient, LiveAccess, TypeOK
  <2>3. clients' \in [Client -> ClientRow]
    BY <1>9, Zenon DEF UpdateClient, TypeOK, ClientRow
  <2>. QED BY <1>9, <2>1, <2>2, <2>3, Zenon DEF UpdateClient, TypeOK
<1>10. ASSUME NEW k \in Code, NEW s \in Session, NEW c \in Client,
              NEW q \in ScopeSet, NEW i \in BOOLEAN,
              IssueAuthorizationCode(k, s, c, q, i)
       PROVE  TypeOK'
  <2>1. sessions[s] \in SessionRow
    BY <1>10 DEF IssueAuthorizationCode, TypeOK, NoRow
  <2>2. PICK u \in User : u = sessions[s].user /\ sessions[s].binding \in Session
    BY <2>1 DEF SessionRow
  <2>3. ApplyConsent(u, c, q, i)
    BY <1>10, <2>2, Zenon DEF IssueAuthorizationCode
  <2>4. /\ grants' \in [User \X Client -> GrantRow \cup {NoRow}]
        /\ grants'[<<u, c>>] \in GrantRow
    BY <2>2, <2>3, ApplyConsentType, Zenon
  <2> DEFINE n == [state |-> "issued", user |-> u, client |-> c, scopes |-> q,
                   version |-> grants'[<<u, c>>].version,
                   binding |-> sessions[s].binding,
                   expires |-> now + CodeTTL, rejections |-> 0]
  <2>5. n \in CodeRow
    BY <2>2, <2>4 DEF CodeRow, GrantRow, TypeOK
  <2>6. codes' = [codes EXCEPT ![k] = n]
    BY <1>10, <2>2, Zenon DEF IssueAuthorizationCode
  <2>7. codes' \in [Code -> CodeRow \cup {NoRow}]
    BY <2>5, <2>6, Zenon DEF TypeOK
  <2>. QED BY <1>10, <2>4, <2>7, Zenon DEF IssueAuthorizationCode, TypeOK
<1>11. ASSUME NEW u \in User, NEW c \in Client, RevokeCurrentUserGrant(u, c)
       PROVE  TypeOK'
  <2> DEFINE g == grants[<<u, c>>]
             n == [state |-> "revoked", scopes |-> g.scopes,
                   version |-> g.version + 1, since |-> g.since]
  <2>1. families' \in [Family -> FamilyRow \cup {NoRow}]
    BY <1>11, RevokeFamiliesType, Zenon DEF RevokeCurrentUserGrant, UnrevokedFamiliesByGrant
  <2>2. accesses' \in [Access -> AccessRow \cup {NoRow}]
    BY <1>11, RevokeAccessesType, Zenon DEF RevokeCurrentUserGrant, LiveAccessesByGrant, LiveAccess
  <2>3. g \in GrantRow
    BY <1>11 DEF RevokeCurrentUserGrant, TypeOK, NoRow
  <2>4. n \in GrantRow
    BY <2>3 DEF GrantRow
  <2>5. grants' = [grants EXCEPT ![<<u, c>>] = n]
    BY <1>11 DEF RevokeCurrentUserGrant
  <2>6. grants' \in [User \X Client -> GrantRow \cup {NoRow}]
    BY <2>4, <2>5, Zenon DEF TypeOK
  <2>. QED BY <1>11, <2>1, <2>2, <2>6, Zenon DEF RevokeCurrentUserGrant, TypeOK
<1>12. ASSUME NEW k \in Code, NEW f \in Family \cup {None}, NEW a \in Access,
              ExchangeAuthorizationCode(k, f, a)
       PROVE  TypeOK'
  <2> DEFINE r == codes[k]
             offline == "offline_access" \in r.scopes
             fam == [state |-> "live", user |-> r.user, client |-> r.client,
                     scopes |-> r.scopes, binding |-> r.binding,
                     absolute |-> now + AbsoluteTTL, code |-> k]
             gen == [state |-> "live",
                     expires |-> Min(now + RollingTTL, now + AbsoluteTTL)]
             acc == NewAccess(r.user, r.client, r.scopes, r.binding, f, k)
  <2>1. r \in CodeRow
    BY <1>12 DEF ExchangeAuthorizationCode, NewFamily, NewGeneration, CodeRedeemable, TypeOK, NoRow
  <2>2. now \in Nat
    BY DEF TypeOK
  <2>3. fam \in FamilyRow
    BY <2>1, <2>2 DEF CodeRow, FamilyRow
  <2>4. gen \in GenerationRow
    BY <2>2 DEF GenerationRow, Min
  <2>5. acc \in AccessRow
    BY <2>1, <2>2 DEF CodeRow, AccessRow, NewAccess
  <2>6. [r EXCEPT !.state = "consumed"] \in CodeRow
    BY <2>1 DEF CodeRow
  <2>7. codes' \in [Code -> CodeRow \cup {NoRow}]
    BY <1>12, <2>6, Zenon DEF ExchangeAuthorizationCode, NewFamily, NewGeneration, TypeOK
  <2>8. accesses' \in [Access -> AccessRow \cup {NoRow}]
    BY <1>12, <2>5, Zenon DEF ExchangeAuthorizationCode, NewFamily, NewGeneration, TypeOK
  <2>9. CASE offline
    <3>1. /\ f \in Family
          /\ families' = [families EXCEPT ![f] = fam]
          /\ generations' = [generations EXCEPT ![<<f, 0>>] = gen]
      BY <1>12, <2>9, Zenon DEF ExchangeAuthorizationCode, NewFamily, NewGeneration
    <3>2. /\ families' \in [Family -> FamilyRow \cup {NoRow}]
          /\ generations' \in [Family \X Generation -> GenerationRow \cup {NoRow}]
      BY <3>1, <2>3, <2>4, Zenon DEF TypeOK, Generation
    <3>. QED BY <1>12, <3>2, <2>7, <2>8, Zenon DEF ExchangeAuthorizationCode, NewFamily, NewGeneration, TypeOK
  <2>10. CASE ~offline
    BY <1>12, <2>10, <2>7, <2>8, Zenon DEF ExchangeAuthorizationCode, NewFamily, NewGeneration, TypeOK
  <2>. QED BY <2>9, <2>10
<1>13. ASSUME NEW k \in Code, RejectConsumedCode(k) PROVE TypeOK'
  <2>1. codes[k] \in CodeRow
    BY <1>13 DEF RejectConsumedCode, TypeOK, NoRow
  <2>2. [codes[k] EXCEPT !.rejections = codes[k].rejections + 1] \in CodeRow
    BY <2>1 DEF CodeRow
  <2>3. codes' \in [Code -> CodeRow \cup {NoRow}]
    BY <1>13, <2>2, Zenon DEF RejectConsumedCode, TypeOK
  <2>. QED BY <1>13, <2>3, Zenon DEF RejectConsumedCode, TypeOK
<1>14. ASSUME NEW f \in Family, NEW g \in Generation, NEW a \in Access,
              NEW q \in ScopeSet, ExchangeRefreshToken(f, g, a, q)
       PROVE  TypeOK'
  <2> DEFINE r == families[f]
             old == [generations[<<f, g>>] EXCEPT !.state = "consumed"]
             gen == [state |-> "live", expires |-> Min(now + RollingTTL, r.absolute)]
             acc == NewAccess(r.user, r.client, q, r.binding, f, <<f, g>>)
  <2>1. r \in FamilyRow /\ generations[<<f, g>>] \in GenerationRow /\ now \in Nat
    BY <1>14 DEF ExchangeRefreshToken, NewGeneration, RefreshRedeemable, RefreshAuthority, TypeOK, NoRow
  <2>2. old \in GenerationRow /\ gen \in GenerationRow
    BY <2>1 DEF GenerationRow, FamilyRow, Min
  <2>3. acc \in AccessRow
    BY <2>1 DEF FamilyRow, AccessRow, NewAccess
  <2>4. g + 1 \in Generation
    BY <1>14 DEF ExchangeRefreshToken, NewGeneration, Generation
  <2>5. generations' = [[generations EXCEPT ![<<f, g>>] = old] EXCEPT ![<<f, g + 1>>] = gen]
    BY <1>14, Zenon DEF ExchangeRefreshToken, NewGeneration, TypeOK
  <2>6. generations' \in [Family \X Generation -> GenerationRow \cup {NoRow}]
    <3> DEFINE G == [generations EXCEPT ![<<f, g>>] = old]
    <3>1. G \in [Family \X Generation -> GenerationRow \cup {NoRow}]
      BY <2>2, Zenon DEF TypeOK
    <3>2. [G EXCEPT ![<<f, g + 1>>] = gen] \in [Family \X Generation -> GenerationRow \cup {NoRow}]
      BY <3>1, <2>2, <2>4, Zenon
    <3>. QED BY <3>2, <2>5, Zenon
  <2>7. accesses' \in [Access -> AccessRow \cup {NoRow}]
    BY <1>14, <2>3, Zenon DEF ExchangeRefreshToken, NewGeneration, TypeOK
  <2>8. UNCHANGED <<now, users, clients, grants, sessions, codes, families>>
    BY <1>14 DEF ExchangeRefreshToken, NewGeneration
  <2>. QED BY <2>6, <2>7, <2>8, Zenon DEF TypeOK
<1>15. ASSUME NEW f \in Family, NEW g \in Generation,
              RejectReusedRefreshToken(f, g) \/ RevokeRefreshToken(f, g)
       PROVE  TypeOK'
  <2>0. families[f].state = "live" /\ RevokeFamilies({f}) /\ RevokeAccesses(LiveAccessesByFamily(f))
    BY <1>15, Zenon DEF RejectReusedRefreshToken, RevokeRefreshToken, RefreshRevocable, RefreshAuthority
  <2>1. families' \in [Family -> FamilyRow \cup {NoRow}]
    BY <2>0, RevokeFamiliesType
  <2>2. accesses' \in [Access -> AccessRow \cup {NoRow}]
    BY <2>0, RevokeAccessesType DEF LiveAccessesByFamily, LiveAccess
  <2>. QED BY <1>15, <2>1, <2>2, Zenon DEF RejectReusedRefreshToken, RevokeRefreshToken, TypeOK
<1>16. ASSUME NEW a \in Access, RevokeAccessToken(a) PROVE TypeOK'
  <2>1. accesses' \in [Access -> AccessRow \cup {NoRow}]
    BY <1>16, RevokeAccessesType, Zenon DEF RevokeAccessToken, AccessRevocable
  <2>. QED BY <1>16, <2>1, Zenon DEF RevokeAccessToken, TypeOK
<1>17. CASE UNCHANGED vars
  BY <1>17, Zenon DEF vars, TypeOK
<1>18. ASSUME NEW u \in User, NEW s \in Session, RevokeOtherUserSessions(u, s) PROVE TypeOK'
  <2> DEFINE S == UnrevokedSessionsByUser(u) \ {s}
  <2>1. S \in SUBSET Session /\ (\A t \in S : Unrevoked(t)) /\ RevokeSessionsAndBindings(S)
    BY <1>18 DEF RevokeOtherUserSessions, UnrevokedSessionsByUser
  <2>. QED BY <2>1, <1>4
<1>19. ASSUME NEW u \in User, RevokeAllManagedUserSessions(u) PROVE TypeOK'
  <2> DEFINE S == UnrevokedSessionsByUser(u)
  <2>1. S \in SUBSET Session /\ (\A t \in S : Unrevoked(t)) /\ RevokeSessionsAndBindings(S)
    BY <1>19 DEF RevokeAllManagedUserSessions, UnrevokedSessionsByUser
  <2>. QED BY <2>1, <1>4
<1>. QED
  BY <1>1, <1>2, <1>3, <1>5, <1>6, <1>7, <1>8, <1>9, <1>10, <1>11, <1>12,
     <1>13, <1>14, <1>15, <1>16, <1>17, <1>18, <1>19
  DEF Next, RevokeUserSession, RevokeSessionByHash, RevokeManagedSession

\* Every reachable state is well typed: no operation writes a row that its
\* table's columns could not hold.
THEOREM TypeCorrect == Spec => []TypeOK
  BY InitType, NextType, PTL DEF Spec

-----------------------------------------------------------------------------
(* What an operation may do to the token tables: apart from the two         *)
(* exchanges, which insert, it only revokes live rows.                      *)

OnlyRevokes ==
    /\ \A f \in Family :
           IF families[f].state = "none" THEN families'[f] = families[f]
           ELSE /\ families'[f].state \in {families[f].state, "revoked"}
                /\ families'[f].user = families[f].user
                /\ families'[f].client = families[f].client
                /\ families'[f].scopes = families[f].scopes
                /\ families'[f].binding = families[f].binding
                /\ families'[f].absolute = families[f].absolute
                /\ families'[f].code = families[f].code
    /\ \A a \in Access :
           IF accesses[a].state = "none" THEN accesses'[a] = accesses[a]
           ELSE /\ accesses'[a].state \in {accesses[a].state, "revoked"}
                /\ accesses'[a].user = accesses[a].user
                /\ accesses'[a].client = accesses[a].client
                /\ accesses'[a].scopes = accesses[a].scopes
                /\ accesses'[a].binding = accesses[a].binding
                /\ accesses'[a].expires = accesses[a].expires
                /\ accesses'[a].family = accesses[a].family
                /\ accesses'[a].source = accesses[a].source
    /\ UNCHANGED generations

\* A set-wide revocation of live rows only revokes.
LEMMA RevokeSetsOnlyRevoke ==
  ASSUME TypeOK, NEW STATE F, NEW STATE A, RevokeFamilies(F), RevokeAccesses(A),
         \A f \in F \cap Family : families[f].state = "live",
         \A a \in A \cap Access : accesses[a].state = "live",
         UNCHANGED generations
  PROVE  OnlyRevokes
<1>1. ASSUME NEW f \in Family, f \in F
      PROVE  /\ families[f].state = "live"
             /\ families'[f].state = "revoked"
             /\ families'[f].user = families[f].user
             /\ families'[f].client = families[f].client
             /\ families'[f].scopes = families[f].scopes
             /\ families'[f].binding = families[f].binding
             /\ families'[f].absolute = families[f].absolute
             /\ families'[f].code = families[f].code
  <2>1. families[f] \in FamilyRow
    BY <1>1 DEF TypeOK, NoRow
  <2>2. families'[f] = [families[f] EXCEPT !.state = "revoked"]
    BY <1>1 DEF RevokeFamilies
  <2>. QED BY <1>1, <2>1, <2>2 DEF FamilyRow
<1>2. ASSUME NEW f \in Family, f \notin F
      PROVE  families'[f] = families[f]
  BY <1>2 DEF RevokeFamilies
<1>3. ASSUME NEW a \in Access, a \in A
      PROVE  /\ accesses[a].state = "live"
             /\ accesses'[a].state = "revoked"
             /\ accesses'[a].user = accesses[a].user
             /\ accesses'[a].client = accesses[a].client
             /\ accesses'[a].scopes = accesses[a].scopes
             /\ accesses'[a].binding = accesses[a].binding
             /\ accesses'[a].expires = accesses[a].expires
             /\ accesses'[a].family = accesses[a].family
             /\ accesses'[a].source = accesses[a].source
  <2>1. accesses[a] \in AccessRow
    BY <1>3 DEF TypeOK, NoRow
  <2>2. accesses'[a] = [accesses[a] EXCEPT !.state = "revoked"]
    BY <1>3 DEF RevokeAccesses
  <2>. QED BY <1>3, <2>1, <2>2 DEF AccessRow
<1>4. ASSUME NEW a \in Access, a \notin A
      PROVE  accesses'[a] = accesses[a]
  BY <1>4 DEF RevokeAccesses
<1>. QED BY <1>1, <1>2, <1>3, <1>4 DEF OnlyRevokes

\* revokeSessionBindingsCascade only revokes.
LEMMA CascadeOnlyRevokes ==
  ASSUME TypeOK, NEW STATE B, RevokeBindingsCascade(B), UNCHANGED generations
  PROVE  OnlyRevokes
  BY RevokeSetsOnlyRevoke
  DEF RevokeBindingsCascade, UnrevokedFamiliesByBindings, LiveAccessesByBindings,
      LiveAccess

\* A step that leaves the token tables alone is such a step too.
LEMMA NoTokenChange ==
  ASSUME UNCHANGED <<families, accesses, generations>>
  PROVE  OnlyRevokes
  BY DEF OnlyRevokes

\* The codes either stay as they are or are changed by one of three operations.
LEMMA StepShape ==
  ASSUME TypeOK, [Next]_vars
  PROVE  \/ OnlyRevokes /\ UNCHANGED codes
         \/ \E k \in Code, s \in Session, c \in Client, q \in ScopeSet, i \in BOOLEAN :
                IssueAuthorizationCode(k, s, c, q, i)
         \/ \E k \in Code : RejectConsumedCode(k)
         \/ \E k \in Code, f \in Family \cup {None}, a \in Access :
                ExchangeAuthorizationCode(k, f, a)
         \/ \E f \in Family, g \in Generation, a \in Access, q \in ScopeSet :
                ExchangeRefreshToken(f, g, a, q)
<1> DEFINE Quiet == OnlyRevokes /\ UNCHANGED codes
<1>1. CASE Tick
  BY <1>1, NoTokenChange DEF Tick
<1>2. ASSUME NEW s \in Session, SessionExpires(s) PROVE Quiet
  BY <1>2, NoTokenChange DEF SessionExpires
<1>3. ASSUME NEW u \in User, CreateManagedUser(u) PROVE Quiet
  BY <1>3, NoTokenChange DEF CreateManagedUser
<1>4. ASSUME NEW s \in Session, RevokeSessionAndBinding(s) PROVE Quiet
  BY <1>4, CascadeOnlyRevokes DEF RevokeSessionAndBinding
<1>5. ASSUME NEW u \in User, NEW s \in Session, RevokeOtherUserSessions(u, s)
      PROVE  Quiet
  BY <1>5, CascadeOnlyRevokes DEF RevokeOtherUserSessions, RevokeSessionsAndBindings
<1>6. ASSUME NEW u \in User, RevokeAllManagedUserSessions(u) PROVE Quiet
  BY <1>6, CascadeOnlyRevokes DEF RevokeAllManagedUserSessions, RevokeSessionsAndBindings
<1>7. ASSUME NEW u \in User, NEW old \in Browser, NEW new \in Session,
             CommitLogin(u, old, new) \/ CommitRegistration(u, old, new)
      PROVE  Quiet
  BY <1>7, CascadeOnlyRevokes, NoTokenChange, Zenon DEF CommitLogin, CommitRegistration
<1>8. ASSUME NEW u \in User, NEW status \in {"active", "disabled"},
             NEW roleChanged \in BOOLEAN, UpdateManagedUser(u, status, roleChanged)
      PROVE  Quiet
  BY <1>8, RevokeSetsOnlyRevoke, Zenon
  DEF UpdateManagedUser, UnrevokedFamiliesByBindings, UnrevokedFamiliesByUser,
      LiveAccessesByBindings, LiveAccessesByUser, LiveAccess
<1>9. ASSUME NEW c \in Client, NEW status \in {"active", "disabled"},
             NEW scopes \in ScopeSet, UpdateClient(c, status, scopes)
      PROVE  Quiet
  BY <1>9, RevokeSetsOnlyRevoke, NoTokenChange, Zenon
  DEF UpdateClient, UnrevokedFamiliesByClient, LiveAccessesByClient,
      LiveRefreshAccessesByClient, LiveAccess
<1>10. ASSUME NEW u \in User, NEW c \in Client, RevokeCurrentUserGrant(u, c)
       PROVE  Quiet
  BY <1>10, RevokeSetsOnlyRevoke, Zenon
  DEF RevokeCurrentUserGrant, UnrevokedFamiliesByGrant, LiveAccessesByGrant, LiveAccess
<1>11. ASSUME NEW f \in Family, NEW g \in Generation,
              RejectReusedRefreshToken(f, g) \/ RevokeRefreshToken(f, g)
       PROVE  Quiet
  BY <1>11, RevokeSetsOnlyRevoke, Zenon
  DEF RejectReusedRefreshToken, RevokeRefreshToken, RefreshRevocable, RefreshAuthority,
      LiveAccessesByFamily, LiveAccess
<1>12. ASSUME NEW a \in Access, RevokeAccessToken(a) PROVE Quiet
  <2>1. RevokeFamilies({})
    BY <1>12 DEF RevokeAccessToken, RevokeFamilies, TypeOK
  <2>. QED BY <1>12, <2>1, RevokeSetsOnlyRevoke, Zenon DEF RevokeAccessToken, AccessRevocable
<1>13. CASE UNCHANGED vars
  BY <1>13, NoTokenChange DEF vars
<1>. QED
  BY <1>1, <1>2, <1>3, <1>4, <1>5, <1>6, <1>7, <1>8, <1>9, <1>10, <1>11, <1>12, <1>13, Zenon
  DEF Next, RevokeUserSession, RevokeSessionByHash, RevokeManagedSession

\* What a step may do to a code: it is issued once, consumed once, and keeps
\* what it stands for.
CodesKeepMeaning ==
    \A k \in Code : codes[k].state # "none" =>
        /\ codes'[k].state # "none"
        /\ codes[k].state = "consumed" => codes'[k].state = "consumed"
        /\ codes'[k].user = codes[k].user /\ codes'[k].client = codes[k].client
        /\ codes'[k].scopes = codes[k].scopes
        /\ codes'[k].binding = codes[k].binding
        /\ codes'[k].version = codes[k].version

\* Every step keeps what the existing codes stand for.
LEMMA CodeShape ==
  ASSUME TypeOK, [Next]_vars
  PROVE  CodesKeepMeaning
<1>1. CASE UNCHANGED codes
  BY <1>1 DEF CodesKeepMeaning
<1>2. ASSUME NEW k \in Code, NEW s \in Session, NEW c \in Client, NEW q \in ScopeSet,
             NEW i \in BOOLEAN, IssueAuthorizationCode(k, s, c, q, i)
      PROVE  CodesKeepMeaning
  BY <1>2, Zenon DEF IssueAuthorizationCode, CodesKeepMeaning, TypeOK
<1>3. ASSUME NEW k \in Code, NEW f \in Family \cup {None}, NEW a \in Access,
             ExchangeAuthorizationCode(k, f, a)
      PROVE  CodesKeepMeaning
  <2>1. codes[k] \in CodeRow /\ codes[k].state = "issued"
    BY <1>3 DEF ExchangeAuthorizationCode, NewFamily, NewGeneration, CodeRedeemable, TypeOK, NoRow
  <2>2. codes' = [codes EXCEPT ![k] = [codes[k] EXCEPT !.state = "consumed"]]
    BY <1>3, Zenon DEF ExchangeAuthorizationCode, NewFamily, NewGeneration
  <2>. QED BY <2>1, <2>2, Zenon DEF CodesKeepMeaning, TypeOK, CodeRow
<1>4. ASSUME NEW k \in Code, RejectConsumedCode(k)
      PROVE  CodesKeepMeaning
  <2>1. codes[k] \in CodeRow /\ codes[k].state = "consumed"
    BY <1>4 DEF RejectConsumedCode, TypeOK, NoRow
  <2>2. codes' = [codes EXCEPT ![k] = [codes[k] EXCEPT !.rejections = codes[k].rejections + 1]]
    BY <1>4 DEF RejectConsumedCode
  <2>. QED BY <2>1, <2>2, Zenon DEF CodesKeepMeaning, TypeOK, CodeRow
<1>5. ASSUME NEW f \in Family, NEW g \in Generation, NEW a \in Access, NEW q \in ScopeSet,
             ExchangeRefreshToken(f, g, a, q)
      PROVE  CodesKeepMeaning
  BY <1>5, <1>1 DEF ExchangeRefreshToken, NewGeneration
<1>. QED BY <1>1, <1>2, <1>3, <1>4, <1>5, StepShape

-----------------------------------------------------------------------------
(* Lineage.                                                                *)

\* TokenLineage, family by family and token by token.
LEMMA LineageParts ==
  TokenLineage <=> /\ \A f \in Family : FamilyLineage(f)
                   /\ \A a \in Access : AccessLineage(a)
  BY DEF TokenLineage

\* Two rows that stand for the same authority.
SameAuthority(r, s) ==
    /\ s.user = r.user /\ s.client = r.client
    /\ s.scopes = r.scopes /\ s.binding = r.binding

LEMMA DescendsKept ==
  ASSUME NEW r, NEW o, NEW s, NEW p, Descends(r, o), SameAuthority(r, s),
         SameAuthority(o, p), p.state # "none"
  PROVE  Descends(s, p)
  BY DEF Descends, SameAuthority

LEMMA CodeKept ==
  ASSUME CodesKeepMeaning, NEW k \in Code, codes[k].state # "none"
  PROVE  /\ codes'[k].state # "none" /\ SameAuthority(codes[k], codes'[k])
         /\ codes[k].state = "consumed" => codes'[k].state = "consumed"
  BY DEF CodesKeepMeaning, SameAuthority

LEMMA FamilyLineageKept ==
  ASSUME TypeOK, TokenLineage, CodesKeepMeaning, NEW f \in Family,
         families[f].state # "none", SameAuthority(families[f], families'[f]),
         families'[f].code = families[f].code
  PROVE  FamilyLineage(f)'
<1>1. PICK k \in Code : k = families[f].code
  BY DEF TypeOK, FamilyRow, NoRow
<1>2. /\ codes[k].state = "consumed" /\ families[f].scopes = codes[k].scopes
      /\ Descends(families[f], codes[k])
  BY <1>1, LineageParts, Zenon DEF FamilyLineage
<1>3. /\ codes'[k].state = "consumed" /\ SameAuthority(codes[k], codes'[k])
  BY <1>2, CodeKept, Zenon
<1>4. Descends(families'[f], codes'[k])
  BY <1>2, <1>3, DescendsKept, Zenon
<1>5. families'[f].scopes = codes'[k].scopes
  BY <1>2, <1>3, Zenon DEF SameAuthority
<1>. QED BY <1>1, <1>3, <1>4, <1>5, Zenon DEF FamilyLineage

LEMMA AccessLineageKept ==
  ASSUME TypeOK, TokenLineage, CodesKeepMeaning, NEW a \in Access,
         accesses[a].state # "none", SameAuthority(accesses[a], accesses'[a]),
         accesses'[a].family = accesses[a].family,
         accesses'[a].source = accesses[a].source,
         \A f \in Family : families[f].state # "none" =>
             families'[f].state # "none" /\ SameAuthority(families[f], families'[f])
  PROVE  AccessLineage(a)'
<1>1. CASE accesses[a].family = None
  <2>1. PICK k \in Code : k = accesses[a].source /\ Descends(accesses[a], codes[k])
    BY <1>1, LineageParts, Zenon DEF AccessLineage
  <2>2. codes'[k].state # "none" /\ SameAuthority(codes[k], codes'[k])
    BY <2>1, CodeKept, Zenon DEF Descends
  <2>3. Descends(accesses'[a], codes'[k])
    BY <2>1, <2>2, DescendsKept, Zenon
  <2>. QED BY <1>1, <2>1, <2>3, Zenon DEF AccessLineage
<1>2. CASE accesses[a].family # None
  <2>1. PICK f \in Family : f = accesses[a].family
    BY <1>2 DEF TypeOK, AccessRow, NoRow
  <2>2. Descends(accesses[a], families[f])
    BY <1>2, <2>1, LineageParts, Zenon DEF AccessLineage
  <2>3. Descends(accesses'[a], families'[f])
    BY <2>2, DescendsKept DEF Descends
  <2>. QED BY <1>2, <2>1, <2>3, Zenon DEF AccessLineage
<1>. QED BY <1>1, <1>2

\* A step that only revokes, while the codes keep their meaning, keeps lineage.
LEMMA LineageOfRevocation ==
  ASSUME TypeOK, TokenLineage, OnlyRevokes, CodesKeepMeaning
  PROVE  TokenLineage'
<1>1. \A f \in Family : families[f].state # "none" =>
         /\ families'[f].state # "none" /\ SameAuthority(families[f], families'[f])
         /\ families'[f].code = families[f].code
  BY Zenon DEF OnlyRevokes, SameAuthority
<1>2. ASSUME NEW f \in Family PROVE FamilyLineage(f)'
  <2>1. CASE families[f].state = "none"
    BY <2>1, Zenon DEF OnlyRevokes, FamilyLineage
  <2>. QED BY <1>1, <2>1, FamilyLineageKept
<1>3. ASSUME NEW a \in Access PROVE AccessLineage(a)'
  <2>1. CASE accesses[a].state = "none"
    BY <2>1, Zenon DEF OnlyRevokes, AccessLineage
  <2>2. CASE accesses[a].state # "none"
    <3>1. /\ SameAuthority(accesses[a], accesses'[a])
          /\ accesses'[a].family = accesses[a].family
          /\ accesses'[a].source = accesses[a].source
      BY <2>2, Zenon DEF OnlyRevokes, SameAuthority
    <3>. QED BY <1>1, <2>2, <3>1, AccessLineageKept, Zenon
  <2>. QED BY <2>1, <2>2
<1>. QED BY <1>2, <1>3 DEF TokenLineage

\* The row an exchange inserts for its access token carries the authority it is
\* given, the family and the code or generation it was issued for.
LEMMA NewAccessFields ==
  ASSUME NEW u, NEW c, NEW q, NEW b, NEW f, NEW s
  PROVE  /\ NewAccess(u, c, q, b, f, s).user = u
         /\ NewAccess(u, c, q, b, f, s).client = c
         /\ NewAccess(u, c, q, b, f, s).scopes = q
         /\ NewAccess(u, c, q, b, f, s).family = f
         /\ NewAccess(u, c, q, b, f, s).source = s
BY DEF NewAccess

\* The new rows of a code exchange, and the rows it leaves alone.
ExchangeOutcome(k, f, a) ==
    /\ codes[k] \in CodeRow /\ codes[k].state = "issued"
    /\ codes'[k] \in CodeRow /\ codes'[k].state = "consumed"
    /\ \A j \in Code \ {k} : codes'[j] = codes[j]
    /\ accesses[a].state = "none"
    /\ accesses'[a] = NewAccess(codes[k].user, codes[k].client, codes[k].scopes,
                                codes[k].binding, f, k)
    /\ \A b \in Access \ {a} : accesses'[b] = accesses[b]
    /\ f = None => UNCHANGED <<families, generations>>
    /\ f # None =>
         /\ f \in Family /\ families[f].state = "none"
         /\ "offline_access" \in codes[k].scopes
         /\ families'[f] = [state |-> "live", user |-> codes[k].user,
                            client |-> codes[k].client, scopes |-> codes[k].scopes,
                            binding |-> codes[k].binding,
                            absolute |-> now + AbsoluteTTL, code |-> k]
         /\ \A h \in Family \ {f} : families'[h] = families[h]

\* The family such an exchange starts is live, is the code's and may go offline;
\* the others are as they were.
LEMMA ExchangeFamily ==
  ASSUME NEW k, NEW f, NEW a, ExchangeOutcome(k, f, a), f # None
  PROVE  /\ families'[f].state = "live" /\ families'[f].code = k
         /\ "offline_access" \in families'[f].scopes
         /\ \A h \in Family \ {f} : families'[h] = families[h]
<1>1. /\ families'[f] = [state |-> "live", user |-> codes[k].user,
                         client |-> codes[k].client, scopes |-> codes[k].scopes,
                         binding |-> codes[k].binding,
                         absolute |-> now + AbsoluteTTL, code |-> k]
      /\ "offline_access" \in codes[k].scopes
      /\ \A h \in Family \ {f} : families'[h] = families[h]
  BY Zenon DEF ExchangeOutcome
<1>. QED BY <1>1

\* A code exchange has that outcome.
LEMMA ExchangeCodeEffect ==
  ASSUME TypeOK, NEW k \in Code, NEW f \in Family \cup {None}, NEW a \in Access,
         ExchangeAuthorizationCode(k, f, a)
  PROVE  ExchangeOutcome(k, f, a)
<1>1. codes[k] \in CodeRow /\ codes[k].state = "issued"
  BY DEF ExchangeAuthorizationCode, NewFamily, NewGeneration, CodeRedeemable, TypeOK, NoRow
<1>2. /\ codes' = [codes EXCEPT ![k] = [codes[k] EXCEPT !.state = "consumed"]]
      /\ accesses[a].state = "none"
      /\ accesses' = [accesses EXCEPT ![a] =
             NewAccess(codes[k].user, codes[k].client, codes[k].scopes, codes[k].binding, f, k)]
  BY Zenon DEF ExchangeAuthorizationCode, NewFamily, NewGeneration
<1>3. /\ codes'[k] \in CodeRow /\ codes'[k].state = "consumed"
      /\ \A j \in Code \ {k} : codes'[j] = codes[j]
  BY <1>1, <1>2, Zenon DEF TypeOK, CodeRow
<1>4. /\ accesses'[a] = NewAccess(codes[k].user, codes[k].client, codes[k].scopes,
                                  codes[k].binding, f, k)
      /\ \A b \in Access \ {a} : accesses'[b] = accesses[b]
  BY <1>2 DEF TypeOK
<1>5. f = None => UNCHANGED <<families, generations>>
  BY DEF ExchangeAuthorizationCode, NewFamily, NewGeneration
<1>6. f # None =>
        /\ f \in Family /\ families[f].state = "none"
        /\ "offline_access" \in codes[k].scopes
        /\ families' = [families EXCEPT ![f] =
               [state |-> "live", user |-> codes[k].user,
                client |-> codes[k].client, scopes |-> codes[k].scopes,
                binding |-> codes[k].binding,
                absolute |-> now + AbsoluteTTL, code |-> k]]
  BY Zenon DEF ExchangeAuthorizationCode, NewFamily, NewGeneration
<1>. QED BY <1>1, <1>2, <1>3, <1>4, <1>5, <1>6, Zenon DEF TypeOK, ExchangeOutcome

\* The new access token of a refresh, and the rows it leaves alone.
RefreshOutcome(f, g, a, q) ==
    /\ families[f] \in FamilyRow /\ families[f].state = "live"
    /\ q \subseteq families[f].scopes
    /\ q \subseteq grants[<<families[f].user, families[f].client>>].scopes
    /\ accesses[a].state = "none"
    /\ accesses'[a] = NewAccess(families[f].user, families[f].client, q,
                                families[f].binding, f, <<f, g>>)
    /\ \A b \in Access \ {a} : accesses'[b] = accesses[b]
    /\ UNCHANGED <<now, users, clients, grants, sessions, codes, families>>

\* A refresh has that outcome.
LEMMA RefreshEffect ==
  ASSUME TypeOK, NEW f \in Family, NEW g \in Generation, NEW a \in Access,
         NEW q \in ScopeSet, ExchangeRefreshToken(f, g, a, q)
  PROVE  RefreshOutcome(f, g, a, q)
<1>1. families[f].state = "live" /\ families[f] \in FamilyRow
  BY DEF ExchangeRefreshToken, NewGeneration, RefreshRedeemable, RefreshAuthority, TypeOK, NoRow
<1>2. /\ q \subseteq families[f].scopes
      /\ q \subseteq grants[<<families[f].user, families[f].client>>].scopes
  BY Zenon DEF ExchangeRefreshToken, NewGeneration, EffectiveScopes
<1>3. /\ accesses[a].state = "none"
      /\ accesses' = [accesses EXCEPT ![a] =
             NewAccess(families[f].user, families[f].client, q, families[f].binding, f, <<f, g>>)]
      /\ UNCHANGED <<now, users, clients, grants, sessions, codes, families>>
  BY DEF ExchangeRefreshToken, NewGeneration
<1>. QED BY <1>1, <1>2, <1>3, Zenon DEF TypeOK, RefreshOutcome


\* TokenLineage survives every step.
LEMMA LineageStep == TypeOK /\ TokenLineage /\ [Next]_vars => TokenLineage'
<1> SUFFICES ASSUME TypeOK, TokenLineage, [Next]_vars PROVE TokenLineage'
  OBVIOUS
<1>0. CodesKeepMeaning
  BY CodeShape
<1>1. CASE OnlyRevokes
  BY <1>0, <1>1, LineageOfRevocation
<1>2. ASSUME NEW k \in Code, NEW s \in Session, NEW c \in Client, NEW q \in ScopeSet,
             NEW i \in BOOLEAN, IssueAuthorizationCode(k, s, c, q, i)
      PROVE  OnlyRevokes
  BY <1>2, NoTokenChange, Zenon DEF IssueAuthorizationCode
<1>3. ASSUME NEW k \in Code, RejectConsumedCode(k) PROVE OnlyRevokes
  BY <1>3, NoTokenChange DEF RejectConsumedCode
<1>4. ASSUME NEW k \in Code, NEW f \in Family \cup {None}, NEW a \in Access,
             ExchangeAuthorizationCode(k, f, a)
      PROVE  TokenLineage'
  <2> DEFINE acc == NewAccess(codes[k].user, codes[k].client, codes[k].scopes,
                              codes[k].binding, f, k)
  <2>0. /\ codes[k] \in CodeRow /\ codes[k].state = "issued"
        /\ codes'[k].state = "consumed"
        /\ accesses[a].state = "none"
        /\ accesses'[a] = acc
        /\ \A b \in Access \ {a} : accesses'[b] = accesses[b]
        /\ f = None => UNCHANGED families
        /\ f # None =>
              /\ f \in Family /\ families[f].state = "none"
              /\ families'[f] = [state |-> "live", user |-> codes[k].user,
                                 client |-> codes[k].client, scopes |-> codes[k].scopes,
                                 binding |-> codes[k].binding,
                                 absolute |-> now + AbsoluteTTL, code |-> k]
              /\ \A h \in Family \ {f} : families'[h] = families[h]
    <3>1. ExchangeOutcome(k, f, a)
      BY <1>4, ExchangeCodeEffect
    <3>. QED BY <3>1, Zenon DEF ExchangeOutcome
  <2>1. SameAuthority(codes[k], codes'[k])
    BY <1>0, <2>0, CodeKept, Zenon
  <2>2. ASSUME NEW h \in Family PROVE FamilyLineage(h)'
    <3>1. CASE h = f
      <4>1. families'[h].code = k /\ families'[h].scopes = codes'[k].scopes
        BY <3>1, <2>0, <2>1, NoneAssumption DEF SameAuthority
      <4>2. Descends(families'[h], codes'[k])
        BY <3>1, <2>0, <2>1, NoneAssumption DEF Descends, SameAuthority
      <4>. QED BY <2>0, <4>1, <4>2, Zenon DEF FamilyLineage
    <3>2. CASE h # f /\ families[h].state = "none"
      BY <3>2, <2>0, Zenon DEF FamilyLineage
    <3>3. CASE h # f /\ families[h].state # "none"
      <4>1. families'[h] = families[h]
        BY <3>3, <2>0, Zenon
      <4>2. SameAuthority(families[h], families'[h])
        BY <4>1 DEF SameAuthority
      <4>. QED BY <1>0, <3>3, <4>1, <4>2, FamilyLineageKept
    <3>. QED BY <3>1, <3>2, <3>3
  <2>3. ASSUME NEW b \in Access PROVE AccessLineage(b)'
    <3>1. CASE b = a /\ f = None
      <4>1. accesses'[b].family = None /\ accesses'[b].source = k
        BY <3>1, <2>0 DEF NewAccess
      <4>2. Descends(accesses'[b], codes'[k])
        BY <3>1, <2>0, <2>1 DEF NewAccess, Descends, SameAuthority
      <4>. QED BY <4>1, <4>2 DEF AccessLineage
    <3>2. CASE b = a /\ f # None
      <4>1. accesses'[b].family = f
        BY <3>2, <2>0 DEF NewAccess
      <4>2. Descends(accesses'[b], families'[f])
        BY <3>2, <2>0 DEF NewAccess, Descends
      <4>. QED BY <3>2, <4>1, <4>2 DEF AccessLineage
    <3>3. CASE b # a /\ accesses[b].state = "none"
      BY <3>3, <2>0, Zenon DEF AccessLineage
    <3>4. CASE b # a /\ accesses[b].state # "none"
      <4>1. accesses'[b] = accesses[b]
        BY <3>4, <2>0, Zenon
      <4>2. SameAuthority(accesses[b], accesses'[b])
        BY <4>1 DEF SameAuthority
      <4>3. \A h \in Family : families[h].state # "none" => families'[h] = families[h]
        BY <2>0, Zenon
      <4>4. \A h \in Family : families[h].state # "none" =>
               families'[h].state # "none" /\ SameAuthority(families[h], families'[h])
        BY <4>3 DEF SameAuthority
      <4>. QED BY <1>0, <3>4, <4>1, <4>2, <4>4, AccessLineageKept, Zenon
    <3>. QED BY <3>1, <3>2, <3>3, <3>4
  <2>. QED BY <2>2, <2>3 DEF TokenLineage
<1>5. ASSUME NEW f \in Family, NEW g \in Generation, NEW a \in Access, NEW q \in ScopeSet,
             ExchangeRefreshToken(f, g, a, q)
      PROVE  TokenLineage'
  <2>1. /\ families[f].state = "live" /\ q \subseteq families[f].scopes
        /\ accesses'[a] = NewAccess(families[f].user, families[f].client, q,
                                    families[f].binding, f, <<f, g>>)
        /\ \A b \in Access \ {a} : accesses'[b] = accesses[b]
        /\ codes' = codes /\ families' = families
    <3>1. RefreshOutcome(f, g, a, q)
      BY <1>5, RefreshEffect
    <3>. QED BY <3>1, Zenon DEF RefreshOutcome
  <2>2. ASSUME NEW h \in Family PROVE FamilyLineage(h)'
    <3>1. FamilyLineage(h)
      BY LineageParts
    <3>. QED BY <2>1, <3>1, Zenon DEF FamilyLineage
  <2>3. ASSUME NEW b \in Access PROVE AccessLineage(b)'
    <3>1. CASE b = a
      <4>1. accesses'[b].family = f
        BY <3>1, <2>1 DEF NewAccess
      <4>2. Descends(accesses'[b], families'[f])
        BY <3>1, <2>1 DEF NewAccess, Descends
      <4>. QED BY <4>1, <4>2, NoneAssumption DEF AccessLineage
    <3>2. CASE b # a
      <4>1. AccessLineage(b)
        BY LineageParts
      <4>. QED BY <3>2, <2>1, <4>1, Zenon DEF AccessLineage
    <3>. QED BY <3>1, <3>2
  <2>. QED BY <2>2, <2>3 DEF TokenLineage
<1>. QED BY <1>1, <1>2, <1>3, <1>4, <1>5, StepShape, Zenon

\* Every token goes back to one consumed code and stays within it: however
\* codes are exchanged, refreshed, narrowed and revoked, TokenLineage holds.
THEOREM LineageHolds == Spec => []TokenLineage
<1>1. Init => TokenLineage
  BY DEF Init, TokenLineage, FamilyLineage, AccessLineage, NoRow
<1>. QED BY <1>1, LineageStep, TypeCorrect, PTL DEF Spec

-----------------------------------------------------------------------------
(* Live authority is backed by its user, its client and its consent.       *)

FamilyBacked(f) ==
    LET r == families[f]
        g == grants[<<r.user, r.client>>]
    IN  /\ users[r.user] = "active"
        /\ clients[r.client].state = "active"
        /\ "offline_access" \in clients[r.client].scopes
        /\ g.state = "active" /\ r.scopes \subseteq g.scopes

AccessBacked(a) ==
    LET r == accesses[a]
        g == grants[<<r.user, r.client>>]
    IN  /\ users[r.user] = "active"
        /\ clients[r.client].state = "active"
        /\ g.state = "active" /\ r.scopes \subseteq g.scopes
        /\ r.family # None => families[r.family].state = "live"

AuthorityInv ==
    /\ \A f \in Family : families[f].state = "live" => FamilyBacked(f)
    /\ \A a \in Access : LiveAccess(a) => AccessBacked(a)

\* The two authority properties are one invariant: neither is inductive alone.
LEMMA AuthorityParts == AuthorityInv <=> LiveFamilyAuthority /\ LiveAccessAuthority
  BY DEF AuthorityInv, FamilyBacked, AccessBacked, LiveFamilyAuthority, LiveAccessAuthority

\* The users, clients and grants behind a row are as good as before.
Standing(u, c) ==
    /\ users[u] = "active" => users'[u] = "active"
    /\ clients[c].state = "active" => clients'[c].state = "active"
    /\ grants[<<u, c>>].state = "active" =>
          /\ grants'[<<u, c>>].state = "active"
          /\ grants[<<u, c>>].scopes \subseteq grants'[<<u, c>>].scopes

\* A revocation keeps the invariant when it takes a family only together with
\* all its live tokens, and nothing it spares loses its standing.
LEMMA AuthorityOfRevocation ==
  ASSUME TypeOK, TokenLineage, AuthorityInv,
         NEW STATE F, NEW STATE A, RevokeFamilies(F), RevokeAccesses(A), now' \in Nat, now <= now',
         \A f \in F \cap Family : families[f].state = "live",
         \A a \in A \cap Access : accesses[a].state = "live",
         UNCHANGED generations,
         \A a \in Access : LiveAccess(a) /\ accesses[a].family \in F => a \in A,
         \A f \in Family : families[f].state = "live" /\ f \notin F =>
             /\ Standing(families[f].user, families[f].client)
             /\ "offline_access" \in clients'[families[f].client].scopes,
         \A a \in Access : LiveAccess(a) /\ a \notin A =>
             Standing(accesses[a].user, accesses[a].client)
  PROVE  AuthorityInv'
<1>0. OnlyRevokes
  BY RevokeSetsOnlyRevoke, Zenon
<1>1. ASSUME NEW f \in Family, families'[f].state = "live" PROVE FamilyBacked(f)'
  <2>1. f \notin F
    <3> SUFFICES ASSUME f \in F PROVE FALSE
      OBVIOUS
    <3>1. families[f] \in FamilyRow
      BY DEF TypeOK, NoRow
    <3>. QED BY <3>1, <1>1, Zenon DEF RevokeFamilies, FamilyRow
  <2>2. families'[f] = families[f]
    BY <2>1 DEF RevokeFamilies
  <2>3. FamilyBacked(f) /\ families[f].state = "live"
    BY <1>1, <2>2, Zenon DEF AuthorityInv
  <2>4. /\ Standing(families[f].user, families[f].client)
        /\ "offline_access" \in clients'[families[f].client].scopes
    BY <2>1, <2>3, Zenon
  <2>. QED BY <2>2, <2>3, <2>4, Zenon DEF FamilyBacked, Standing
<1>2. ASSUME NEW a \in Access, LiveAccess(a)' PROVE AccessBacked(a)'
  <2>1. a \notin A
    <3> SUFFICES ASSUME a \in A PROVE FALSE
      BY Zenon
    <3>1. accesses[a] \in AccessRow
      BY SMTT(60) DEF TypeOK, NoRow
    <3>. QED BY <3>1, <1>2, Zenon DEF RevokeAccesses, AccessRow, LiveAccess
  <2>2. accesses'[a] = accesses[a]
    BY <2>1 DEF RevokeAccesses
  <2>3. accesses[a] \in AccessRow
    BY <1>2, <2>2 DEF TypeOK, NoRow, LiveAccess
  <2>4. LiveAccess(a)
    BY <1>2, <2>2, <2>3, SMTT(60) DEF LiveAccess, TypeOK, AccessRow
  <2>5. AccessBacked(a) /\ Standing(accesses[a].user, accesses[a].client)
    BY <2>1, <2>4, Zenon DEF AuthorityInv
  <2>6. accesses[a].family # None => families'[accesses[a].family].state = "live"
    BY <2>1, <2>3, <2>4, <2>5, Zenon DEF AccessBacked, RevokeFamilies, AccessRow
  <2>7. /\ users'[accesses[a].user] = "active"
        /\ clients'[accesses[a].client].state = "active"
        /\ grants'[<<accesses[a].user, accesses[a].client>>].state = "active"
        /\ accesses[a].scopes \subseteq grants'[<<accesses[a].user, accesses[a].client>>].scopes
    BY <2>5, Zenon DEF AccessBacked, Standing
  <2>. QED BY <2>2, <2>6, <2>7, Zenon DEF AccessBacked
<1>. QED BY <1>1, <1>2, Zenon DEF AuthorityInv

\* Taking nothing: the rows stay and nobody loses standing.
LEMMA AuthorityOfStanding ==
  ASSUME TypeOK, TokenLineage, AuthorityInv, UNCHANGED <<families, accesses, generations>>,
         now' \in Nat, now <= now',
         \A u \in User, c \in Client : Standing(u, c),
         \A f \in Family : families[f].state = "live" =>
             "offline_access" \in clients'[families[f].client].scopes
  PROVE  AuthorityInv'
<1>1. RevokeFamilies({}) /\ RevokeAccesses({})
  BY DEF TypeOK, RevokeFamilies, RevokeAccesses
<1>2. \A f \in Family : families[f].state = "live" =>
          families[f].user \in User /\ families[f].client \in Client
  BY SMTT(30) DEF TypeOK, FamilyRow, NoRow
<1>3. \A a \in Access : LiveAccess(a) =>
          accesses[a].user \in User /\ accesses[a].client \in Client
  BY DEF TypeOK, AccessRow, NoRow, LiveAccess
<1>. QED BY <1>1, <1>2, <1>3, AuthorityOfRevocation, Zenon

\* The same when the clients do not change at all.
LEMMA AuthorityOfSameClients ==
  ASSUME TypeOK, TokenLineage, AuthorityInv,
         UNCHANGED <<families, accesses, generations>>, UNCHANGED clients,
         now' \in Nat, now <= now',
         \A u \in User, c \in Client : Standing(u, c)
  PROVE  AuthorityInv'
<1>1. ASSUME NEW f \in Family, families[f].state = "live"
      PROVE  "offline_access" \in clients'[families[f].client].scopes
  <2>1. FamilyBacked(f)
    BY <1>1 DEF AuthorityInv
  <2>. QED BY <2>1, Zenon DEF FamilyBacked
<1>. QED BY <1>1, AuthorityOfStanding, Zenon

\* The explicit session cascade keeps the invariant: a token shares its
\* family's binding, so the family never goes alone.
LEMMA AuthorityOfCascade ==
  ASSUME TypeOK, TokenLineage, AuthorityInv, NEW STATE B, RevokeBindingsCascade(B),
         UNCHANGED <<now, clients, grants, generations>>,
         \A u \in User : users[u] = "active" => users'[u] = "active"
  PROVE  AuthorityInv'
<1> DEFINE F == UnrevokedFamiliesByBindings(B)
           A == LiveAccessesByBindings(B)
<1>1. RevokeFamilies(F) /\ RevokeAccesses(A) /\ now \in Nat
  BY DEF RevokeBindingsCascade, TypeOK
<1>2. \A f \in F \cap Family : families[f].state = "live"
  BY DEF UnrevokedFamiliesByBindings
<1>3. \A a \in A \cap Access : accesses[a].state = "live"
  BY DEF LiveAccessesByBindings, LiveAccess
<1>4. ASSUME NEW a \in Access, LiveAccess(a), accesses[a].family \in F PROVE a \in A
  <2>1. accesses[a].binding = families[accesses[a].family].binding
    BY <1>4, LineageParts, NoneAssumption, Zenon
    DEF AccessLineage, Descends, LiveAccess, UnrevokedFamiliesByBindings
  <2>. QED BY <1>4, <2>1, Zenon DEF UnrevokedFamiliesByBindings, LiveAccessesByBindings
<1>5. ASSUME NEW f \in Family, families[f].state = "live"
      PROVE  /\ Standing(families[f].user, families[f].client)
             /\ "offline_access" \in clients'[families[f].client].scopes
  <2>1. families[f].user \in User /\ families[f].client \in Client
    BY <1>5 DEF TypeOK, FamilyRow, NoRow
  <2>. QED BY <1>5, <2>1, Zenon DEF Standing, AuthorityInv, FamilyBacked
<1>6. ASSUME NEW a \in Access, LiveAccess(a)
      PROVE  Standing(accesses[a].user, accesses[a].client)
  <2>1. accesses[a].user \in User /\ accesses[a].client \in Client
    BY <1>6, SMTT(30) DEF TypeOK, AccessRow, NoRow, LiveAccess
  <2>. QED BY <2>1, Zenon DEF Standing
<1>. QED BY <1>1, <1>2, <1>3, <1>4, <1>5, <1>6, AuthorityOfRevocation

\* AuthorityInv survives every step.
LEMMA AuthorityStep ==
  TypeOK /\ TokenLineage /\ AuthorityInv /\ [Next]_vars => AuthorityInv'
<1> SUFFICES ASSUME TypeOK, TokenLineage, AuthorityInv, [Next]_vars PROVE AuthorityInv'
  OBVIOUS
<1>a. now \in Nat
  BY DEF TypeOK
<1>b. \A f \in Family : families[f].state = "live" =>
        /\ families[f] \in FamilyRow
        /\ families[f].user \in User /\ families[f].client \in Client
        /\ FamilyBacked(f)
  BY SMTT(30) DEF TypeOK, FamilyRow, NoRow, AuthorityInv
<1>c. \A a \in Access : LiveAccess(a) =>
        /\ accesses[a] \in AccessRow
        /\ accesses[a].user \in User /\ accesses[a].client \in Client
        /\ accesses[a].family \in Family \cup {None}
        /\ AccessBacked(a)
  BY SMTT(60) DEF TypeOK, AccessRow, NoRow, AuthorityInv, LiveAccess
<1>d. \A a \in Access : LiveAccess(a) /\ accesses[a].family # None =>
        /\ accesses[a].user = families[accesses[a].family].user
        /\ accesses[a].client = families[accesses[a].family].client
        /\ accesses[a].binding = families[accesses[a].family].binding
  BY LineageParts, Zenon DEF AccessLineage, Descends, LiveAccess
<1>1. CASE Tick
  <2>1. /\ now' \in Nat /\ now <= now'
        /\ UNCHANGED <<families, accesses, generations>> /\ UNCHANGED clients
    BY <1>1, <1>a DEF Tick
  <2>2. \A u \in User, c \in Client : Standing(u, c)
    BY <1>1 DEF Tick, Standing
  <2>. QED BY <2>1, <2>2, AuthorityOfSameClients
<1>2. ASSUME NEW s \in Session, SessionExpires(s) PROVE AuthorityInv'
  <2>1. /\ now' \in Nat /\ now <= now'
        /\ UNCHANGED <<families, accesses, generations>> /\ UNCHANGED clients
    BY <1>2, <1>a DEF SessionExpires
  <2>2. \A u \in User, c \in Client : Standing(u, c)
    BY <1>2 DEF SessionExpires, Standing
  <2>. QED BY <2>1, <2>2, AuthorityOfSameClients
<1>3. ASSUME NEW u \in User, CreateManagedUser(u) PROVE AuthorityInv'
  <2>1. \A v \in User, c \in Client : Standing(v, c)
    BY <1>3, Zenon DEF CreateManagedUser, Standing, TypeOK
  <2>2. /\ now' \in Nat /\ now <= now'
        /\ UNCHANGED <<families, accesses, generations>> /\ UNCHANGED clients
    BY <1>3, <1>a DEF CreateManagedUser
  <2>. QED BY <2>1, <2>2, AuthorityOfSameClients
<1>4. ASSUME NEW s \in Session, RevokeSessionAndBinding(s) PROVE AuthorityInv'
  BY <1>4, AuthorityOfCascade DEF RevokeSessionAndBinding
<1>5. ASSUME NEW u \in User, NEW s \in Session, RevokeOtherUserSessions(u, s)
      PROVE  AuthorityInv'
  BY <1>5, AuthorityOfCascade DEF RevokeOtherUserSessions, RevokeSessionsAndBindings
<1>6. ASSUME NEW u \in User, RevokeAllManagedUserSessions(u) PROVE AuthorityInv'
  BY <1>6, AuthorityOfCascade DEF RevokeAllManagedUserSessions, RevokeSessionsAndBindings
<1>7. ASSUME NEW u \in User, NEW old \in Browser, NEW new \in Session,
             CommitLogin(u, old, new) \/ CommitRegistration(u, old, new)
      PROVE  AuthorityInv'
  <2>1. /\ UNCHANGED <<now, clients, grants, generations>>
        /\ \A v \in User : users[v] = "active" => users'[v] = "active"
    BY <1>7, Zenon DEF CommitLogin, CommitRegistration, TypeOK
  <2>2. CASE UNCHANGED <<families, accesses>>
    <3>1. \A v \in User, c \in Client : Standing(v, c)
      BY <2>1 DEF Standing
    <3>. QED BY <2>1, <2>2, <3>1, <1>a, AuthorityOfSameClients
  <2>3. CASE RevokeBindingsCascade({sessions[old].binding})
    BY <2>1, <2>3, AuthorityOfCascade
  <2>. QED BY <1>7, <2>2, <2>3, Zenon DEF CommitLogin, CommitRegistration
<1>8. ASSUME NEW u \in User, NEW status \in {"active", "disabled"},
             NEW roleChanged \in BOOLEAN, UpdateManagedUser(u, status, roleChanged)
      PROVE  AuthorityInv'
  <2> DEFINE revoke == status # users[u] \/ roleChanged
             B == BindingsOf(IF revoke THEN UnrevokedSessionsByUser(u) ELSE {})
             F == UnrevokedFamiliesByBindings(B) \cup
                  (IF status = "disabled" THEN UnrevokedFamiliesByUser(u) ELSE {})
             A == LiveAccessesByBindings(B) \cup
                  (IF status = "disabled" THEN LiveAccessesByUser(u) ELSE {})
  <2>1. /\ RevokeFamilies(F) /\ RevokeAccesses(A)
        /\ now' = now /\ generations' = generations
        /\ clients' = clients /\ grants' = grants
        /\ users' = [users EXCEPT ![u] = status]
    BY <1>8, Zenon DEF UpdateManagedUser
  <2>2. /\ \A f \in F \cap Family : families[f].state = "live"
        /\ \A a \in A \cap Access : accesses[a].state = "live"
    BY Zenon DEF UnrevokedFamiliesByBindings, UnrevokedFamiliesByUser,
           LiveAccessesByBindings, LiveAccessesByUser, LiveAccess
  <2>3. ASSUME NEW a \in Access, LiveAccess(a), accesses[a].family \in F PROVE a \in A
    BY <2>3, <1>d, NoneAssumption, Zenon
    DEF UnrevokedFamiliesByBindings, UnrevokedFamiliesByUser,
        LiveAccessesByBindings, LiveAccessesByUser
  <2>4. ASSUME NEW v \in User, NEW c \in Client, v = u => status = "active"
        PROVE  Standing(v, c)
    BY <2>1, <2>4, Zenon DEF Standing, TypeOK
  <2>5. ASSUME NEW f \in Family, families[f].state = "live", f \notin F
        PROVE  /\ Standing(families[f].user, families[f].client)
               /\ "offline_access" \in clients'[families[f].client].scopes
    <3>1. families[f].user = u => status = "active"
      BY <2>5 DEF UnrevokedFamiliesByUser
    <3>2. families[f].user \in User /\ families[f].client \in Client /\ FamilyBacked(f)
      BY <2>5, <1>b
    <3>. QED BY <2>1, <2>4, <3>1, <3>2, Zenon DEF FamilyBacked
  <2>6. ASSUME NEW a \in Access, LiveAccess(a), a \notin A
        PROVE  Standing(accesses[a].user, accesses[a].client)
    BY <2>4, <2>6, <1>c, Zenon DEF LiveAccessesByUser
  <2> HIDE DEF F, A
  <2>7. now' \in Nat /\ now <= now'
    BY <2>1, <1>a
  <2>. QED BY <2>1, <2>2, <2>3, <2>5, <2>6, <2>7, AuthorityOfRevocation, Zenon
<1>9. ASSUME NEW c \in Client, NEW status \in {"active", "disabled"},
             NEW scopes \in ScopeSet, UpdateClient(c, status, scopes)
      PROVE  AuthorityInv'
  <2> DEFINE removed == /\ "offline_access" \in clients[c].scopes
                        /\ "offline_access" \notin scopes
             cut == status = "disabled" \/ removed
  <2>1. /\ clients' = [clients EXCEPT ![c] = [state |-> status, scopes |-> scopes]]
        /\ now' = now /\ generations' = generations
        /\ users' = users /\ grants' = grants
    BY <1>9 DEF UpdateClient
  <2>2. ASSUME NEW v \in User, NEW d \in Client, d = c => status = "active"
        PROVE  Standing(v, d)
    BY <2>1, <2>2, Zenon DEF Standing, TypeOK
  <2>3. CASE ~cut
    <3>1. UNCHANGED <<families, accesses>>
      BY <1>9, <2>3 DEF UpdateClient
    <3>2. \A v \in User, d \in Client : Standing(v, d)
      BY <2>2, <2>3
    <3>3. ASSUME NEW f \in Family, families[f].state = "live"
          PROVE  "offline_access" \in clients'[families[f].client].scopes
      <4>1. families[f].client \in Client /\ FamilyBacked(f)
        BY <3>3, <1>b
      <4>. QED BY <2>1, <2>3, <4>1, Zenon DEF FamilyBacked, TypeOK
    <3>. QED BY <2>1, <3>1, <3>2, <3>3, <1>a, AuthorityOfStanding, SMTT(30)
  <2>4. CASE cut
    <3> DEFINE F == UnrevokedFamiliesByClient(c)
               A == IF status = "disabled" THEN LiveAccessesByClient(c)
                    ELSE LiveRefreshAccessesByClient(c)
    <3>1. RevokeFamilies(F) /\ RevokeAccesses(A)
      BY <1>9, <2>4 DEF UpdateClient
    <3>2. /\ \A f \in F \cap Family : families[f].state = "live"
          /\ \A a \in A \cap Access : accesses[a].state = "live"
      BY DEF UnrevokedFamiliesByClient, LiveAccessesByClient,
             LiveRefreshAccessesByClient, LiveAccess
    <3>3. ASSUME NEW a \in Access, LiveAccess(a), accesses[a].family \in F PROVE a \in A
      BY <3>3, <1>d, NoneAssumption, Zenon
      DEF UnrevokedFamiliesByClient, LiveAccessesByClient, LiveRefreshAccessesByClient
    <3>4. ASSUME NEW f \in Family, families[f].state = "live", f \notin F
          PROVE  /\ Standing(families[f].user, families[f].client)
                 /\ "offline_access" \in clients'[families[f].client].scopes
      <4>1. families[f].client # c
        BY <3>4 DEF UnrevokedFamiliesByClient
      <4>2. families[f].user \in User /\ families[f].client \in Client /\ FamilyBacked(f)
        BY <3>4, <1>b
      <4>3. Standing(families[f].user, families[f].client)
        BY <2>2, <4>1, <4>2
      <4>. QED BY <2>1, <4>1, <4>2, <4>3, Zenon DEF FamilyBacked, TypeOK
    <3>5. ASSUME NEW a \in Access, LiveAccess(a), a \notin A
          PROVE  Standing(accesses[a].user, accesses[a].client)
      BY <2>2, <3>5, <1>c DEF LiveAccessesByClient
    <3> HIDE DEF F, A
    <3>6. now' \in Nat /\ now <= now'
      BY <2>1, <1>a
    <3>. QED BY <2>1, <3>1, <3>2, <3>3, <3>4, <3>5, <3>6, AuthorityOfRevocation, Zenon
  <2>. QED BY <2>3, <2>4
<1>10. ASSUME NEW u \in User, NEW c \in Client, RevokeCurrentUserGrant(u, c)
       PROVE  AuthorityInv'
  <2> DEFINE F == UnrevokedFamiliesByGrant(u, c)
             A == LiveAccessesByGrant(u, c)
  <2>1. /\ RevokeFamilies(F) /\ RevokeAccesses(A)
        /\ now' = now /\ generations' = generations
        /\ users' = users /\ clients' = clients
        /\ \A p \in (User \X Client) \ {<<u, c>>} : grants'[p] = grants[p]
    BY <1>10, Zenon DEF RevokeCurrentUserGrant, TypeOK
  <2>2. /\ \A f \in F \cap Family : families[f].state = "live"
        /\ \A a \in A \cap Access : accesses[a].state = "live"
    BY DEF UnrevokedFamiliesByGrant, LiveAccessesByGrant, LiveAccess
  <2>3. ASSUME NEW a \in Access, LiveAccess(a), accesses[a].family \in F PROVE a \in A
    BY <2>3, <1>d, NoneAssumption, Zenon DEF UnrevokedFamiliesByGrant, LiveAccessesByGrant
  <2>4. ASSUME NEW v \in User, NEW d \in Client, v # u \/ d # c PROVE Standing(v, d)
    BY <2>1, <2>4, Zenon DEF Standing
  <2>5. ASSUME NEW f \in Family, families[f].state = "live", f \notin F
        PROVE  /\ Standing(families[f].user, families[f].client)
               /\ "offline_access" \in clients'[families[f].client].scopes
    <3>1. families[f].user # u \/ families[f].client # c
      BY <2>5 DEF UnrevokedFamiliesByGrant
    <3>2. families[f].user \in User /\ families[f].client \in Client /\ FamilyBacked(f)
      BY <2>5, <1>b
    <3>. QED BY <2>1, <2>4, <3>1, <3>2, Zenon DEF FamilyBacked
  <2>6. ASSUME NEW a \in Access, LiveAccess(a), a \notin A
        PROVE  Standing(accesses[a].user, accesses[a].client)
    <3>1. accesses[a].user # u \/ accesses[a].client # c
      BY <2>6 DEF LiveAccessesByGrant
    <3>. QED BY <2>4, <2>6, <3>1, <1>c
  <2> HIDE DEF F, A
  <2>7. now' \in Nat /\ now <= now'
    BY <2>1, <1>a
  <2>. QED BY <2>1, <2>2, <2>3, <2>5, <2>6, <2>7, AuthorityOfRevocation, Zenon
<1>11. ASSUME NEW k \in Code, NEW s \in Session, NEW c \in Client, NEW q \in ScopeSet,
              NEW i \in BOOLEAN, IssueAuthorizationCode(k, s, c, q, i)
       PROVE  AuthorityInv'
  <2>1. /\ now' \in Nat /\ now <= now'
        /\ UNCHANGED <<families, accesses, generations>> /\ UNCHANGED clients
        /\ UNCHANGED users
    <3>1. UNCHANGED <<now, users, clients, families, generations, accesses>>
      BY <1>11, Zenon DEF IssueAuthorizationCode
    <3>. QED BY <3>1, <1>a
  <2>2. PICK u \in User : u = sessions[s].user
    <3>1. sessions[s].state # "none"
      BY <1>11, Zenon DEF IssueAuthorizationCode
    <3>. QED BY <3>1, SMTT(30) DEF TypeOK, SessionRow, NoRow
  <2>3. ApplyConsent(u, c, q, i)
    BY <1>11, <2>2, Zenon DEF IssueAuthorizationCode
  <2>4. ASSUME NEW v \in User, NEW d \in Client,
               grants[<<v, d>>].state = "active"
        PROVE  /\ grants'[<<v, d>>].state = "active"
               /\ grants[<<v, d>>].scopes \subseteq grants'[<<v, d>>].scopes
    <3> DEFINE g == grants[<<u, c>>]
               wide == [state |-> "active", scopes |-> g.scopes \cup q,
                        version |-> g.version + 1, since |-> g.since]
    <3>1. \/ g.state # "active" /\ \E n : grants' = [grants EXCEPT ![<<u, c>>] = n]
          \/ grants' = grants
          \/ grants' = [grants EXCEPT ![<<u, c>>] = wide]
      BY <2>3, Zenon DEF ApplyConsent
    <3>2. CASE grants' = grants
      BY <2>4, <3>2
    <3>3. CASE g.state # "active" /\ \E n : grants' = [grants EXCEPT ![<<u, c>>] = n]
      <4>1. <<v, d>> # <<u, c>>
        BY <2>4, <3>3
      <4>2. grants'[<<v, d>>] = grants[<<v, d>>]
        BY <3>3, <4>1, Zenon DEF TypeOK
      <4>. QED BY <2>4, <4>2
    <3>4. CASE grants' = [grants EXCEPT ![<<u, c>>] = wide]
      <4>1. wide.state = "active" /\ g.scopes \subseteq wide.scopes
        OBVIOUS
      <4>2. grants'[<<v, d>>] = IF <<v, d>> = <<u, c>> THEN wide ELSE grants[<<v, d>>]
        BY <3>4, Zenon DEF TypeOK
      <4>. HIDE DEF wide
      <4>. QED BY <2>4, <4>1, <4>2, Zenon
    <3>. QED BY <3>1, <3>2, <3>3, <3>4, Zenon
  <2>5. ASSUME NEW v \in User, NEW d \in Client PROVE Standing(v, d)
    <3>1. users' = users /\ clients' = clients
      BY <2>1
    <3>. QED BY <2>4, <3>1, Zenon DEF Standing
  <2>. QED BY <2>1, <2>5, AuthorityOfSameClients
<1>12. ASSUME NEW k \in Code, RejectConsumedCode(k) PROVE AuthorityInv'
  <2>1. /\ now' \in Nat /\ now <= now'
        /\ UNCHANGED <<families, accesses, generations>> /\ UNCHANGED clients
    BY <1>12, <1>a DEF RejectConsumedCode
  <2>2. \A u \in User, c \in Client : Standing(u, c)
    BY <1>12 DEF RejectConsumedCode, Standing
  <2>. QED BY <2>1, <2>2, AuthorityOfSameClients
<1>13. ASSUME NEW f \in Family, NEW g \in Generation,
              RejectReusedRefreshToken(f, g) \/ RevokeRefreshToken(f, g)
       PROVE  AuthorityInv'
  <2> DEFINE F == {f}
             A == LiveAccessesByFamily(f)
  <2>1. /\ RevokeFamilies(F) /\ RevokeAccesses(A) /\ families[f].state = "live"
        /\ now' = now /\ generations' = generations
        /\ users' = users /\ clients' = clients /\ grants' = grants
    BY <1>13, Zenon DEF RejectReusedRefreshToken, RevokeRefreshToken, RefreshRevocable,
                 RefreshAuthority
  <2>2. /\ \A h \in F \cap Family : families[h].state = "live"
        /\ \A a \in A \cap Access : accesses[a].state = "live"
        /\ \A a \in Access : LiveAccess(a) /\ accesses[a].family \in F => a \in A
    BY <2>1, Zenon DEF LiveAccessesByFamily, LiveAccess
  <2>3. \A v \in User, d \in Client : Standing(v, d)
    BY <2>1 DEF Standing
  <2>4. ASSUME NEW h \in Family, families[h].state = "live"
        PROVE  /\ Standing(families[h].user, families[h].client)
               /\ "offline_access" \in clients'[families[h].client].scopes
    <3>1. families[h].user \in User /\ families[h].client \in Client /\ FamilyBacked(h)
      BY <2>4, <1>b
    <3>. QED BY <2>1, <2>3, <3>1, Zenon DEF FamilyBacked
  <2>5. ASSUME NEW a \in Access, LiveAccess(a)
        PROVE  Standing(accesses[a].user, accesses[a].client)
    BY <2>3, <2>5, <1>c
  <2>6. now' \in Nat /\ now <= now' /\ UNCHANGED generations
    BY <2>1, <1>a
  <2> HIDE DEF F, A
  <2>. QED BY <2>1, <2>2, <2>4, <2>5, <2>6, AuthorityOfRevocation, Zenon
<1>14. ASSUME NEW b \in Access, RevokeAccessToken(b) PROVE AuthorityInv'
  <2>1. /\ RevokeAccesses({b}) /\ accesses[b].state = "live"
        /\ now' = now /\ generations' = generations /\ families' = families
        /\ users' = users /\ clients' = clients /\ grants' = grants
    BY <1>14, Zenon DEF RevokeAccessToken, AccessRevocable
  <2>2. RevokeFamilies({})
    BY <2>1 DEF RevokeFamilies, TypeOK
  <2>3. \A v \in User, d \in Client : Standing(v, d)
    BY <2>1, Zenon DEF Standing
  <2>4. ASSUME NEW h \in Family, families[h].state = "live"
        PROVE  /\ Standing(families[h].user, families[h].client)
               /\ "offline_access" \in clients'[families[h].client].scopes
    <3>1. families[h].user \in User /\ families[h].client \in Client /\ FamilyBacked(h)
      BY <2>4, <1>b
    <3>. QED BY <2>1, <2>3, <3>1, Zenon DEF FamilyBacked
  <2>5. ASSUME NEW a \in Access, LiveAccess(a)
        PROVE  Standing(accesses[a].user, accesses[a].client)
    BY <2>3, <2>5, <1>c
  <2>. QED BY <2>1, <2>2, <2>4, <2>5, <1>a, AuthorityOfRevocation
<1>15. ASSUME NEW f \in Family, NEW g \in Generation, NEW a \in Access, NEW q \in ScopeSet,
              ExchangeRefreshToken(f, g, a, q)
       PROVE  AuthorityInv'
  <2>1. RefreshOutcome(f, g, a, q)
    BY <1>15, RefreshEffect
  <2>2. families[f].state = "live" /\ FamilyBacked(f)
    BY <2>1, <1>b, Zenon DEF RefreshOutcome
  <2>3. /\ now' = now /\ users' = users /\ clients' = clients /\ grants' = grants
        /\ families' = families
    BY <2>1, Zenon DEF RefreshOutcome
  <2>4. ASSUME NEW h \in Family, families'[h].state = "live" PROVE FamilyBacked(h)'
    <3>1. FamilyBacked(h)
      BY <2>3, <2>4, <1>b
    <3>. QED BY <2>3, <3>1, Zenon DEF FamilyBacked
  <2>5. ASSUME NEW b \in Access, LiveAccess(b)' PROVE AccessBacked(b)'
    <3>1. CASE b = a
      <4>1. accesses'[b] = NewAccess(families[f].user, families[f].client, q,
                                     families[f].binding, f, <<f, g>>)
        BY <2>1, <3>1, Zenon DEF RefreshOutcome
      <4>2. q \subseteq grants[<<families[f].user, families[f].client>>].scopes
        BY <2>1, Zenon DEF RefreshOutcome
      <4>3. /\ accesses'[b].user = families[f].user /\ accesses'[b].client = families[f].client
            /\ accesses'[b].scopes = q /\ accesses'[b].family = f
        BY <4>1 DEF NewAccess
      <4>. QED BY <2>2, <2>3, <4>2, <4>3, Zenon DEF AccessBacked, FamilyBacked
    <3>2. CASE b # a
      <4>1. accesses'[b] = accesses[b]
        BY <2>1, <3>2, Zenon DEF RefreshOutcome
      <4>2. AccessBacked(b)
        BY <2>3, <2>5, <4>1, <1>c DEF LiveAccess
      <4>. QED BY <2>3, <4>1, <4>2, Zenon DEF AccessBacked
    <3>. QED BY <3>1, <3>2
  <2>. QED BY <2>4, <2>5 DEF AuthorityInv
<1>16. ASSUME NEW k \in Code, NEW f \in Family \cup {None}, NEW a \in Access,
              ExchangeAuthorizationCode(k, f, a)
       PROVE  AuthorityInv'
  <2>1. ExchangeOutcome(k, f, a)
    BY <1>16, ExchangeCodeEffect
  <2>2. /\ now' = now /\ users' = users /\ clients' = clients /\ grants' = grants
    BY <1>16, Zenon DEF ExchangeAuthorizationCode, NewFamily, NewGeneration
  <2>3. /\ users[codes[k].user] = "active"
        /\ clients[codes[k].client].state = "active"
        /\ codes[k].scopes \subseteq clients[codes[k].client].scopes
        /\ grants[<<codes[k].user, codes[k].client>>].state = "active"
        /\ codes[k].scopes \subseteq grants[<<codes[k].user, codes[k].client>>].scopes
    BY <1>16, Zenon DEF ExchangeAuthorizationCode, NewFamily, NewGeneration, CodeRedeemable
  <2>4. ASSUME NEW h \in Family, families'[h].state = "live" PROVE FamilyBacked(h)'
    <3>1. CASE h = f
      <4>1. /\ "offline_access" \in codes[k].scopes
            /\ families'[h] = [state |-> "live", user |-> codes[k].user,
                               client |-> codes[k].client, scopes |-> codes[k].scopes,
                               binding |-> codes[k].binding,
                               absolute |-> now + AbsoluteTTL, code |-> k]
        BY <2>1, <3>1, NoneAssumption, Zenon DEF ExchangeOutcome
      <4>2. /\ families'[h].user = codes[k].user /\ families'[h].client = codes[k].client
            /\ families'[h].scopes = codes[k].scopes
        BY <4>1, SMTT(30)
      <4>. QED BY <2>2, <2>3, <4>1, <4>2, Zenon DEF FamilyBacked
    <3>2. CASE h # f
      <4>1. families'[h] = families[h]
        BY <2>1, <3>2, Zenon DEF ExchangeOutcome
      <4>2. FamilyBacked(h)
        BY <2>4, <4>1, <1>b
      <4>. QED BY <2>2, <4>1, <4>2, Zenon DEF FamilyBacked
    <3>. QED BY <3>1, <3>2
  <2>5. ASSUME NEW b \in Access, LiveAccess(b)' PROVE AccessBacked(b)'
    <3>1. CASE b = a
      <4>1. accesses'[b] = NewAccess(codes[k].user, codes[k].client, codes[k].scopes,
                                     codes[k].binding, f, k)
        BY <2>1, <3>1, Zenon DEF ExchangeOutcome
      <4>2. f # None => families'[f].state = "live"
        BY <2>1, ExchangeFamily, Zenon
      <4>3. /\ accesses'[b].user = codes[k].user /\ accesses'[b].client = codes[k].client
            /\ accesses'[b].scopes = codes[k].scopes /\ accesses'[b].family = f
        BY <4>1, NewAccessFields
      <4>. QED BY <2>2, <2>3, <4>2, <4>3, Zenon DEF AccessBacked
    <3>2. CASE b # a
      <4>1. accesses'[b] = accesses[b]
        BY <2>1, <3>2, Zenon DEF ExchangeOutcome
      <4>2. AccessBacked(b) /\ accesses[b].family \in Family \cup {None}
        BY <2>2, <2>5, <4>1, <1>c, Zenon DEF LiveAccess
      <4>3. accesses[b].family # None => families'[accesses[b].family].state = "live"
        BY <2>1, <4>2, Zenon DEF ExchangeOutcome, AccessBacked
      <4>. QED BY <2>2, <4>1, <4>2, <4>3, Zenon DEF AccessBacked
    <3>. QED BY <3>1, <3>2
  <2>. QED BY <2>4, <2>5, Zenon DEF AuthorityInv
<1>17. CASE UNCHANGED vars
  <2>1. /\ now' \in Nat /\ now <= now'
        /\ UNCHANGED <<families, accesses, generations>> /\ UNCHANGED clients
    BY <1>17, <1>a DEF vars
  <2>2. \A u \in User, c \in Client : Standing(u, c)
    BY <1>17 DEF vars, Standing
  <2>. QED BY <2>1, <2>2, AuthorityOfSameClients
<1>. QED
  BY <1>1, <1>2, <1>3, <1>4, <1>5, <1>6, <1>7, <1>8, <1>9, <1>10, <1>11, <1>12,
     <1>13, <1>14, <1>15, <1>16, <1>17, Zenon
  DEF Next, RevokeUserSession, RevokeSessionByHash, RevokeManagedSession

\* The invariant behind the two authority theorems below.
THEOREM AuthorityHolds == Spec => []AuthorityInv
<1>1. Init => AuthorityInv
  BY SMTT(60) DEF Init, AuthorityInv, LiveAccess, NoRow
<1>. QED BY <1>1, AuthorityStep, TypeCorrect, LineageHolds, PTL DEF Spec

\* However users, clients, grants and sessions are administered, an unrevoked
\* refresh family always has its user, client and consent behind it.
THEOREM LiveFamilyAuthorityHolds == Spec => []LiveFamilyAuthority
  BY AuthorityHolds, AuthorityParts, PTL

\* The same for every unrevoked, unexpired access token, and no such token
\* outlives the revocation of its family.
THEOREM LiveAccessAuthorityHolds == Spec => []LiveAccessAuthority
  BY AuthorityHolds, AuthorityParts, PTL

\* Both together: the cascades of the storage layer keep every live family and
\* every live access token backed by what it depends on.
THEOREM LiveAuthorityHolds == Spec => []LiveAuthority
  BY LiveFamilyAuthorityHolds, LiveAccessAuthorityHolds, PTL DEF LiveAuthority

\* Only a code with offline_access starts a family, and a family's scopes are
\* never rewritten.
OfflineFamilies ==
    \A f \in Family : families[f].state # "none" => "offline_access" \in families[f].scopes

\* OfflineFamilies survives every step.
LEMMA OfflineStep == TypeOK /\ OfflineFamilies /\ [Next]_vars => OfflineFamilies'
<1> SUFFICES ASSUME TypeOK, OfflineFamilies, [Next]_vars PROVE OfflineFamilies'
  OBVIOUS
<1>1. CASE OnlyRevokes
  BY <1>1, Zenon DEF OfflineFamilies, OnlyRevokes
<1>2. CASE UNCHANGED families
  BY <1>2 DEF OfflineFamilies
<1>3. ASSUME NEW k \in Code, NEW f \in Family \cup {None}, NEW a \in Access,
             ExchangeAuthorizationCode(k, f, a)
      PROVE  OfflineFamilies'
  <2>1. ExchangeOutcome(k, f, a)
    BY <1>3, ExchangeCodeEffect
  <2>2. CASE f = None
    BY <1>2, <2>1, <2>2, Zenon DEF ExchangeOutcome
  <2>3. CASE f # None
    BY <2>1, <2>3, ExchangeFamily DEF OfflineFamilies
  <2>. QED BY <2>2, <2>3
<1>4. ASSUME NEW f \in Family, NEW g \in Generation, NEW a \in Access, NEW q \in ScopeSet,
             ExchangeRefreshToken(f, g, a, q)
      PROVE  UNCHANGED families
  BY <1>4 DEF ExchangeRefreshToken, NewGeneration
<1>5. ASSUME NEW k \in Code, NEW s \in Session, NEW c \in Client, NEW q \in ScopeSet,
             NEW i \in BOOLEAN, IssueAuthorizationCode(k, s, c, q, i)
      PROVE  UNCHANGED families
  BY <1>5, Zenon DEF IssueAuthorizationCode
<1>6. ASSUME NEW k \in Code, RejectConsumedCode(k) PROVE UNCHANGED families
  BY <1>6 DEF RejectConsumedCode
<1>. QED BY <1>1, <1>2, <1>3, <1>4, <1>5, <1>6, StepShape

\* A refresh family that is neither revoked nor past its deadline works: no
\* operation suspends refresh authority instead of revoking it.
THEOREM NoDormantRefreshAuthorityHolds == Spec => []NoDormantRefreshAuthority
<1>1. TypeOK /\ AuthorityInv /\ OfflineFamilies => NoDormantRefreshAuthority
  <2> SUFFICES ASSUME TypeOK, AuthorityInv, OfflineFamilies,
                      NEW f \in Family, NEW g \in Generation,
                      families[f].state = "live", families[f].absolute > now,
                      generations[<<f, g>>].state = "live",
                      generations[<<f, g>>].expires > now
               PROVE  RefreshRedeemable(f, g) /\ RefreshIntrospectsActive(f, g)
    BY DEF NoDormantRefreshAuthority
  <2>1. FamilyBacked(f)
    BY DEF AuthorityInv
  <2>2. families[f] \in FamilyRow
    BY SMTT(60) DEF TypeOK, NoRow
  <2>3. {"openid", "offline_access"} \subseteq families[f].scopes
    BY <2>2 DEF OfflineFamilies, FamilyRow, ScopeSet
  <2>4. {"openid", "offline_access"} \subseteq clients[families[f].client].scopes
    <3>1. clients[families[f].client] \in ClientRow
      BY <2>2, Zenon DEF TypeOK, FamilyRow
    <3>. QED BY <2>1, <3>1, Zenon DEF FamilyBacked, ClientRow, ScopeSet
  <2>5. {"openid", "offline_access"} \subseteq EffectiveScopes(f)
    BY <2>1, <2>3, <2>4, Zenon DEF FamilyBacked, EffectiveScopes
  <2>. QED BY <2>1, <2>5, Zenon
           DEF FamilyBacked, RefreshRedeemable, RefreshIntrospectsActive, RefreshAuthority,
               RefreshAuthorityFound
<1>2. Init => OfflineFamilies
  BY DEF Init, OfflineFamilies, NoRow
<1>. QED BY <1>1, <1>2, OfflineStep, AuthorityHolds, TypeCorrect, PTL DEF Spec

-----------------------------------------------------------------------------
(* What the two exchanges do to the generations.                           *)

\* A code exchange creates generation 0 of the new family and nothing else.
LEMMA ExchangeCodeGenerations ==
  ASSUME TypeOK, NEW k \in Code, NEW f \in Family, NEW a \in Access,
         ExchangeAuthorizationCode(k, f, a)
  PROVE  /\ generations'[<<f, 0>>].state = "live"
         /\ \A p \in (Family \X Generation) \ {<<f, 0>>} : generations'[p] = generations[p]
<1>1. generations' = [generations EXCEPT ![<<f, 0>>] =
          [state |-> "live", expires |-> Min(now + RollingTTL, now + AbsoluteTTL)]]
  BY NoneAssumption, Zenon DEF ExchangeAuthorizationCode, NewFamily, NewGeneration
<1>2. <<f, 0>> \in Family \X Generation
  BY BoundAssumption DEF Generation
<1>. QED BY <1>1, <1>2 DEF TypeOK

\* A refresh consumes generation g and creates generation g + 1.
LEMMA RefreshGenerations ==
  ASSUME TypeOK, NEW f \in Family, NEW g \in Generation, NEW a \in Access,
         NEW q \in ScopeSet, ExchangeRefreshToken(f, g, a, q)
  PROVE  /\ g + 1 \in Generation
         /\ generations[<<f, g>>].state = "live"
         /\ generations'[<<f, g>>].state = "consumed"
         /\ generations'[<<f, g + 1>>].state = "live"
         /\ \A p \in (Family \X Generation) \ {<<f, g>>, <<f, g + 1>>} :
                generations'[p] = generations[p]
<1>1. g + 1 \in Generation /\ g + 1 # g
  BY BoundAssumption DEF ExchangeRefreshToken, NewGeneration, Generation
<1>2. generations[<<f, g>>] \in GenerationRow /\ generations[<<f, g>>].state = "live"
  BY DEF ExchangeRefreshToken, NewGeneration, RefreshRedeemable, TypeOK, NoRow
<1>3. generations' = [generations EXCEPT
          ![<<f, g>>] = [generations[<<f, g>>] EXCEPT !.state = "consumed"],
          ![<<f, g + 1>>] = [state |-> "live",
                             expires |-> Min(now + RollingTTL, families[f].absolute)]]
  BY DEF ExchangeRefreshToken, NewGeneration
<1>4. <<f, g>> # <<f, g + 1>> /\ <<f, g>> \in Family \X Generation
      /\ <<f, g + 1>> \in Family \X Generation
  BY <1>1
<1>5. generations'[<<f, g>>] = [generations[<<f, g>>] EXCEPT !.state = "consumed"]
  BY <1>3, <1>4 DEF TypeOK
<1>6. generations'[<<f, g + 1>>].state = "live"
  BY <1>3, <1>4 DEF TypeOK
<1>7. \A p \in (Family \X Generation) \ {<<f, g>>, <<f, g + 1>>} :
          generations'[p] = generations[p]
  BY <1>3, <1>4 DEF TypeOK
<1>8. generations'[<<f, g>>].state = "consumed"
  BY <1>2, <1>5 DEF GenerationRow
<1>. QED BY <1>1, <1>2, <1>6, <1>7, <1>8

-----------------------------------------------------------------------------
(* The chain.                                                              *)

\* The state of generation g when n is the newest one.
ChainState(g, n) == IF g < n THEN "consumed" ELSE IF g = n THEN "live" ELSE "none"

\* The generations of family f.
Chain(f) ==
    IF families[f].state = "none"
    THEN \A g \in Generation : generations[<<f, g>>].state = "none"
    ELSE \E n \in Generation : \A g \in Generation :
            generations[<<f, g>>].state = ChainState(g, n)

\* RotationChain, family by family.
LEMMA ChainParts == RotationChain <=> \A f \in Family : Chain(f)
  BY DEF RotationChain, Chain, ChainState

\* A family keeps its chain while neither it nor its generations change,
\* apart from being revoked.
LEMMA ChainKept ==
  ASSUME NEW f \in Family, Chain(f),
         (families'[f].state = "none") <=> (families[f].state = "none"),
         \A g \in Generation : generations'[<<f, g>>] = generations[<<f, g>>]
  PROVE  Chain(f)'
  BY DEF Chain

\* RotationChain survives every step.
LEMMA ChainStep == TypeOK /\ RotationChain /\ [Next]_vars => RotationChain'
<1> SUFFICES ASSUME TypeOK, RotationChain, [Next]_vars, NEW h \in Family PROVE Chain(h)'
  BY Zenon DEF RotationChain, Chain, ChainState
<1>0. Chain(h)
  BY ChainParts
<1>1. CASE OnlyRevokes
  <2>1. (families'[h].state = "none") <=> (families[h].state = "none")
    BY <1>1, Zenon DEF OnlyRevokes
  <2>2. \A g \in Generation : generations'[<<h, g>>] = generations[<<h, g>>]
    BY <1>1, Zenon DEF OnlyRevokes
  <2>. QED BY <1>0, <2>1, <2>2, ChainKept
<1>2. ASSUME NEW k \in Code, NEW s \in Session, NEW c \in Client, NEW q \in ScopeSet,
             NEW i \in BOOLEAN, IssueAuthorizationCode(k, s, c, q, i)
      PROVE  OnlyRevokes
  BY <1>2, NoTokenChange, Zenon DEF IssueAuthorizationCode
<1>3. ASSUME NEW k \in Code, RejectConsumedCode(k) PROVE OnlyRevokes
  BY <1>3, NoTokenChange DEF RejectConsumedCode
<1>4. ASSUME NEW k \in Code, NEW f \in Family \cup {None}, NEW a \in Access,
             ExchangeAuthorizationCode(k, f, a)
      PROVE  Chain(h)'
  <2>1. ExchangeOutcome(k, f, a)
    BY <1>4, ExchangeCodeEffect
  <2>2. CASE f = None
    <3>1. families' = families /\ generations' = generations
      BY <2>1, <2>2, Zenon DEF ExchangeOutcome
    <3>. QED BY <1>0, <3>1, ChainKept
  <2>3. CASE f # None /\ f # h
    <3>1. f \in Family /\ families'[h] = families[h]
      BY <2>1, <2>3, Zenon DEF ExchangeOutcome
    <3>2. \A p \in (Family \X Generation) \ {<<f, 0>>} : generations'[p] = generations[p]
      BY <1>4, <3>1, ExchangeCodeGenerations, Zenon
    <3>3. \A g \in Generation : generations'[<<h, g>>] = generations[<<h, g>>]
      BY <2>3, <3>2
    <3>. QED BY <1>0, <3>1, <3>3, ChainKept
  <2>4. CASE f # None /\ f = h
    <3>1. families[h].state = "none" /\ families'[h].state = "live"
      BY <2>1, <2>4, SMTT(30) DEF ExchangeOutcome
    <3>2. /\ generations'[<<h, 0>>].state = "live"
          /\ \A p \in (Family \X Generation) \ {<<h, 0>>} : generations'[p] = generations[p]
      BY <1>4, <2>4, ExchangeCodeGenerations
    <3>3. \A g \in Generation : generations[<<h, g>>].state = "none"
      BY <1>0, <3>1 DEF Chain
    <3>4. 0 \in Generation /\ \A g \in Generation : g >= 0 /\ g \in Int
      BY BoundAssumption DEF Generation
    <3>5. ASSUME NEW g \in Generation PROVE generations'[<<h, g>>].state = ChainState(g, 0)
      <4>1. CASE g = 0
        BY <3>2, <4>1 DEF ChainState
      <4>2. CASE g # 0
        BY <3>2, <3>3, <3>4, <4>2 DEF ChainState
      <4>. QED BY <4>1, <4>2
    <3>. QED BY <3>1, <3>4, <3>5 DEF Chain
  <2>. QED BY <2>2, <2>3, <2>4
<1>5. ASSUME NEW f \in Family, NEW g \in Generation, NEW a \in Access, NEW q \in ScopeSet,
             ExchangeRefreshToken(f, g, a, q)
      PROVE  Chain(h)'
  <2>1. RefreshOutcome(f, g, a, q)
    BY <1>5, RefreshEffect
  <2>2. families' = families /\ families[f].state = "live"
    BY <2>1, Zenon DEF RefreshOutcome
  <2>3. /\ g + 1 \in Generation
        /\ generations[<<f, g>>].state = "live"
        /\ generations'[<<f, g>>].state = "consumed"
        /\ generations'[<<f, g + 1>>].state = "live"
        /\ \A p \in (Family \X Generation) \ {<<f, g>>, <<f, g + 1>>} :
               generations'[p] = generations[p]
    BY <1>5, RefreshGenerations
  <2>4. CASE f # h
    <3>1. \A j \in Generation : generations'[<<h, j>>] = generations[<<h, j>>]
      BY <2>3, <2>4
    <3>. QED BY <1>0, <2>2, <3>1, ChainKept
  <2>5. CASE f = h
    <3>1. PICK n \in Generation : \A j \in Generation :
              generations[<<h, j>>].state = ChainState(j, n)
      BY <1>0, <2>2, <2>5 DEF Chain
    <3>2. n = g
      BY <2>3, <2>5, <3>1 DEF ChainState
    <3>3. ASSUME NEW j \in Generation
          PROVE  generations'[<<h, j>>].state = ChainState(j, g + 1)
      <4>0. g \in Int /\ j \in Int
        BY DEF Generation
      <4>1. CASE j = g
        BY <2>3, <2>5, <4>0, <4>1 DEF ChainState
      <4>2. CASE j = g + 1
        BY <2>3, <2>5, <4>0, <4>2 DEF ChainState
      <4>3. CASE j # g /\ j # g + 1
        <5>1. generations'[<<h, j>>] = generations[<<h, j>>]
          BY <2>3, <4>3
        <5>2. ChainState(j, g) = ChainState(j, g + 1)
          BY <4>0, <4>3 DEF ChainState
        <5>. QED BY <3>1, <3>2, <5>1, <5>2
      <4>. QED BY <4>1, <4>2, <4>3
    <3>. QED BY <2>2, <2>3, <2>5, <3>3, Zenon DEF Chain
  <2>. QED BY <2>4, <2>5
<1>. QED BY <1>1, <1>2, <1>3, <1>4, <1>5, StepShape

\* However often and in whatever order refresh tokens are presented, a family
\* always has exactly one generation that can still be redeemed.
THEOREM RotationChainHolds == Spec => []RotationChain
<1>1. Init => RotationChain
  BY DEF Init, RotationChain, NoRow
<1>. QED BY <1>1, ChainStep, TypeCorrect, PTL DEF Spec

-----------------------------------------------------------------------------
(* Single use.                                                             *)

\* What a token was issued for is consumed.
Spent(src) == IF src \in Code THEN codes[src].state = "consumed"
              ELSE generations[src].state = "consumed"

\* The three parts of SingleUse.
SourcesDistinct ==
    \A a, b \in Access :
        /\ accesses[a].state # "none" /\ accesses[b].state # "none"
        /\ accesses[a].source = accesses[b].source
        => a = b
OriginsDistinct ==
    \A f, h \in Family :
        /\ families[f].state # "none" /\ families[h].state # "none"
        /\ families[f].code = families[h].code
        => f = h
SourcesSpent ==
    \A a \in Access : accesses[a].state # "none" => Spent(accesses[a].source)

\* SingleUse is those three together.
LEMMA SingleUseParts == SingleUse <=> SourcesDistinct /\ OriginsDistinct /\ SourcesSpent
  BY DEF SingleUse, SourcesDistinct, OriginsDistinct, SourcesSpent, Spent

\* A consumed generation stays as it is: a refresh consumes the live end of
\* the chain and creates one where there was none.
LEMMA GenerationsStaySpent ==
  ASSUME TypeOK, RotationChain, [Next]_vars, NEW p \in Family \X Generation,
         generations[p].state = "consumed"
  PROVE  generations'[p] = generations[p]
<1>1. CASE UNCHANGED generations
  BY <1>1
<1>2. CASE OnlyRevokes
  BY <1>2, Zenon DEF OnlyRevokes
<1>3. ASSUME NEW k \in Code, NEW f \in Family \cup {None}, NEW a \in Access,
             ExchangeAuthorizationCode(k, f, a)
      PROVE  generations'[p] = generations[p]
  <2>1. ExchangeOutcome(k, f, a)
    BY <1>3, ExchangeCodeEffect
  <2>2. CASE f = None
    BY <2>1, <2>2, Zenon DEF ExchangeOutcome
  <2>3. CASE f # None
    <3>1. f \in Family /\ families[f].state = "none"
      BY <2>1, <2>3, Zenon DEF ExchangeOutcome
    <3>2. \A r \in (Family \X Generation) \ {<<f, 0>>} : generations'[r] = generations[r]
      BY <1>3, <3>1, ExchangeCodeGenerations, Zenon
    <3>3. 0 \in Generation
      BY BoundAssumption DEF Generation
    <3>4. generations[<<f, 0>>].state = "none"
      BY <3>1, <3>3, ChainParts DEF Chain
    <3>5. p # <<f, 0>>
      BY <3>4
    <3>. QED BY <3>2, <3>5
  <2>. QED BY <2>2, <2>3
<1>4. ASSUME NEW f \in Family, NEW g \in Generation, NEW a \in Access, NEW q \in ScopeSet,
             ExchangeRefreshToken(f, g, a, q)
      PROVE  generations'[p] = generations[p]
  <2>1. /\ g + 1 \in Generation
        /\ generations[<<f, g>>].state = "live"
        /\ generations'[<<f, g>>].state = "consumed"
        /\ generations'[<<f, g + 1>>].state = "live"
        /\ \A r \in (Family \X Generation) \ {<<f, g>>, <<f, g + 1>>} :
               generations'[r] = generations[r]
    BY <1>4, RefreshGenerations
  <2>2. families[f].state # "none"
    BY <1>4, Zenon DEF ExchangeRefreshToken, NewGeneration, RefreshRedeemable, RefreshAuthority
  <2>3. PICK n \in Generation : \A j \in Generation :
            generations[<<f, j>>].state = ChainState(j, n)
    BY <2>2, ChainParts DEF Chain
  <2>4. n = g
    BY <2>1, <2>3 DEF ChainState
  <2>5. g \in Int
    BY DEF Generation
  <2>6. generations[<<f, g + 1>>].state = "none"
    BY <2>1, <2>3, <2>4, <2>5 DEF ChainState
  <2>7. p # <<f, g>> /\ p # <<f, g + 1>>
    BY <2>1, <2>6
  <2>. QED BY <2>1, <2>7
<1>5. ASSUME NEW k \in Code, NEW s \in Session, NEW c \in Client, NEW q \in ScopeSet,
             NEW i \in BOOLEAN, IssueAuthorizationCode(k, s, c, q, i)
      PROVE  UNCHANGED generations
  BY <1>5, Zenon DEF IssueAuthorizationCode
<1>6. ASSUME NEW k \in Code, RejectConsumedCode(k) PROVE UNCHANGED generations
  BY <1>6 DEF RejectConsumedCode
<1>. QED BY <1>1, <1>2, <1>3, <1>4, <1>5, <1>6, StepShape, Zenon

\* What is spent stays spent.
LEMMA SpentStaysSpent ==
  ASSUME TypeOK, RotationChain, [Next]_vars,
         NEW src \in Code \cup (Family \X Generation), Spent(src)
  PROVE  Spent(src)'
<1>1. CASE src \in Code
  <2>1. codes[src].state = "consumed"
    BY <1>1 DEF Spent
  <2>. QED BY <1>1, <2>1, CodeShape DEF Spent, CodesKeepMeaning
<1>2. CASE src \notin Code
  BY <1>2, GenerationsStaySpent DEF Spent
<1>. QED BY <1>1, <1>2

\* SingleUse survives every step.
LEMMA SingleUseStep ==
  TypeOK /\ TokenLineage /\ RotationChain /\ SingleUse /\ [Next]_vars => SingleUse'
<1> SUFFICES ASSUME TypeOK, TokenLineage, RotationChain, SingleUse, [Next]_vars
             PROVE  SourcesDistinct' /\ OriginsDistinct' /\ SourcesSpent'
  BY Zenon DEF SingleUse, SourcesDistinct, OriginsDistinct, SourcesSpent, Spent
<1>a. SourcesDistinct /\ OriginsDistinct /\ SourcesSpent
  BY SingleUseParts
<1>b. ASSUME NEW a \in Access, accesses[a].state # "none",
             accesses'[a].source = accesses[a].source
      PROVE  Spent(accesses[a].source)'
  <2>1. PICK src \in Code \cup (Family \X Generation) : src = accesses[a].source
    BY <1>b, SMTT(30) DEF TypeOK, AccessRow, NoRow
  <2>2. Spent(src)
    BY <1>a, <1>b, <2>1 DEF SourcesSpent
  <2>3. Spent(src)'
    BY <2>2, SpentStaysSpent
  <2>. QED BY <1>b, <2>1, <2>3, Zenon DEF Spent
<1>1. CASE OnlyRevokes
  <2>1. SourcesDistinct'
    BY <1>1, <1>a DEF SourcesDistinct, OnlyRevokes
  <2>2. OriginsDistinct'
    BY <1>1, <1>a DEF OriginsDistinct, OnlyRevokes
  <2>3. SourcesSpent'
    <3> SUFFICES ASSUME NEW a \in Access, (accesses[a].state # "none")'
                 PROVE  Spent(accesses[a].source)'
      BY DEF SourcesSpent
    <3>1. accesses[a].state # "none" /\ accesses'[a].source = accesses[a].source
      BY <1>1, Zenon DEF OnlyRevokes
    <3>. QED BY <1>b, <3>1
  <2>. QED BY <2>1, <2>2, <2>3
<1>2. ASSUME NEW k \in Code, NEW s \in Session, NEW c \in Client, NEW q \in ScopeSet,
             NEW i \in BOOLEAN, IssueAuthorizationCode(k, s, c, q, i)
      PROVE  OnlyRevokes
  BY <1>2, NoTokenChange, Zenon DEF IssueAuthorizationCode
<1>3. ASSUME NEW k \in Code, RejectConsumedCode(k) PROVE OnlyRevokes
  BY <1>3, NoTokenChange DEF RejectConsumedCode
<1>4. ASSUME NEW a \in Access, NEW src \in Code \cup (Family \X Generation), ~Spent(src),
             Spent(src)', accesses[a].state = "none", accesses'[a].source = src,
             \A b \in Access \ {a} : accesses'[b] = accesses[b]
      PROVE  SourcesDistinct' /\ SourcesSpent'
  <2>1. ASSUME NEW b \in Access \ {a}, accesses[b].state # "none"
        PROVE  accesses[b].source # src
    BY <1>4, <1>a, <2>1 DEF SourcesSpent
  <2>2. SourcesDistinct'
    <3> SUFFICES ASSUME NEW b \in Access, NEW d \in Access,
                        accesses'[b].state # "none", accesses'[d].state # "none",
                        accesses'[b].source = accesses'[d].source
                 PROVE  b = d
      BY DEF SourcesDistinct
    <3>1. CASE b = a /\ d # a
      BY <1>4, <2>1, <3>1
    <3>2. CASE b # a /\ d = a
      BY <1>4, <2>1, <3>2
    <3>3. CASE b # a /\ d # a
      BY <1>4, <1>a, <3>3 DEF SourcesDistinct
    <3>. QED BY <3>1, <3>2, <3>3
  <2>3. SourcesSpent'
    <3> SUFFICES ASSUME NEW b \in Access, (accesses[b].state # "none")'
                 PROVE  Spent(accesses[b].source)'
      BY DEF SourcesSpent
    <3>1. CASE b = a
      BY <1>4, <3>1, Zenon DEF Spent
    <3>2. CASE b # a
      BY <1>4, <1>b, <3>2
    <3>. QED BY <3>1, <3>2
  <2>. QED BY <2>2, <2>3
<1>5. ASSUME NEW f \in Family, NEW g \in Generation, NEW a \in Access, NEW q \in ScopeSet,
             ExchangeRefreshToken(f, g, a, q)
      PROVE  SourcesDistinct' /\ OriginsDistinct' /\ SourcesSpent'
  <2>1. RefreshOutcome(f, g, a, q)
    BY <1>5, RefreshEffect
  <2>2. /\ generations[<<f, g>>].state = "live"
        /\ generations'[<<f, g>>].state = "consumed"
    BY <1>5, RefreshGenerations, Zenon
  <2>3. <<f, g>> \in Family \X Generation /\ <<f, g>> \notin Code
    BY SourceAssumption DEF Generation
  <2>4. ~Spent(<<f, g>>) /\ Spent(<<f, g>>)'
    BY <2>2, <2>3 DEF Spent
  <2>5. /\ accesses[a].state = "none" /\ accesses'[a].source = <<f, g>>
        /\ \A b \in Access \ {a} : accesses'[b] = accesses[b]
    <3>1. /\ accesses[a].state = "none"
          /\ accesses'[a] = NewAccess(families[f].user, families[f].client, q,
                                      families[f].binding, f, <<f, g>>)
          /\ \A b \in Access \ {a} : accesses'[b] = accesses[b]
      BY <2>1, Zenon DEF RefreshOutcome
    <3>. QED BY <3>1 DEF NewAccess
  <2>6. OriginsDistinct'
    BY <1>a, <2>1, Zenon DEF OriginsDistinct, RefreshOutcome
  <2>. QED BY <1>4, <2>3, <2>4, <2>5, <2>6
<1>6. ASSUME NEW k \in Code, NEW f \in Family \cup {None}, NEW a \in Access,
             ExchangeAuthorizationCode(k, f, a)
      PROVE  SourcesDistinct' /\ OriginsDistinct' /\ SourcesSpent'
  <2>1. ExchangeOutcome(k, f, a)
    BY <1>6, ExchangeCodeEffect
  <2>2. codes[k].state = "issued" /\ codes'[k].state = "consumed"
    BY <2>1, Zenon DEF ExchangeOutcome
  <2>3. ~Spent(k) /\ Spent(k)'
    BY <2>2 DEF Spent
  <2>4. /\ accesses[a].state = "none" /\ accesses'[a].source = k
        /\ \A b \in Access \ {a} : accesses'[b] = accesses[b]
    <3>1. /\ accesses[a].state = "none"
          /\ accesses'[a] = NewAccess(codes[k].user, codes[k].client, codes[k].scopes,
                                      codes[k].binding, f, k)
          /\ \A b \in Access \ {a} : accesses'[b] = accesses[b]
      BY <2>1, Zenon DEF ExchangeOutcome
    <3>. QED BY <3>1, SMTT(30) DEF NewAccess
  <2>5. SourcesDistinct' /\ SourcesSpent'
    BY <1>4, <2>3, <2>4
  <2>6. \A h \in Family : families[h].state # "none" => families[h].code # k
    BY <2>2, LineageParts, Zenon DEF FamilyLineage, Descends
  <2>7. CASE f = None
    <3>1. families' = families
      BY <2>1, <2>7, Zenon DEF ExchangeOutcome
    <3>2. OriginsDistinct'
      BY <1>a, <3>1, Zenon DEF OriginsDistinct
    <3>. QED BY <2>5, <3>2, Zenon
  <2>8. CASE f # None
    <3>1. /\ f \in Family /\ families'[f].code = k
          /\ \A h \in Family \ {f} : families'[h] = families[h]
      <4>1. /\ f \in Family
            /\ families'[f] = [state |-> "live", user |-> codes[k].user,
                               client |-> codes[k].client, scopes |-> codes[k].scopes,
                               binding |-> codes[k].binding,
                               absolute |-> now + AbsoluteTTL, code |-> k]
            /\ \A h \in Family \ {f} : families'[h] = families[h]
        BY <2>1, <2>8, Zenon DEF ExchangeOutcome
      <4>. QED BY <4>1
    <3>. QED BY <1>a, <2>5, <2>6, <3>1 DEF OriginsDistinct
  <2>. QED BY <2>7, <2>8
<1>. QED BY <1>1, <1>2, <1>3, <1>5, <1>6, StepShape

\* No interleaving of exchanges, refreshes, revocations and replays issues two
\* access tokens for one code or one refresh generation, or starts two families
\* from one code.
THEOREM SingleUseHolds == Spec => []SingleUse
<1>1. Init => SingleUse
  BY DEF Init, SingleUse, NoRow
<1>. QED BY <1>1, SingleUseStep, TypeCorrect, LineageHolds, RotationChainHolds, PTL DEF Spec

-----------------------------------------------------------------------------
(* Nothing is merely suspended.                                            *)

\* What accessAuthorityMatches checks besides the client's scopes is enforced
\* by revocation: a backed token with a lineage is accepted and introspects as
\* active.
LEMMA BackedIsAccepted ==
  ASSUME TypeOK, TokenLineage, AuthorityInv, NEW a \in Access, LiveAccess(a),
         accesses[a].scopes \subseteq clients[accesses[a].client].scopes,
         accesses[a].family # None => families[accesses[a].family].absolute > now
  PROVE  AccessAccepted(a) /\ AccessIntrospectsActive(a)
<1>1. accesses[a].state = "live" /\ accesses[a] \in AccessRow
  BY DEF LiveAccess, TypeOK, NoRow
<1>2. AccessLineage(a) /\ AccessBacked(a)
  BY LineageParts, Zenon DEF AuthorityInv
<1>3. "openid" \in accesses[a].scopes
  BY <1>1, Zenon DEF AccessRow, ScopeSet
<1>4. AccessAuthorityFound(a)
  BY <1>1, <1>2, Zenon DEF AccessBacked, AccessAuthorityFound, LiveAccess
<1>5. ASSUME accesses[a].family # None
      PROVE  LET r == accesses[a]
                 f == families[r.family]
             IN  /\ f.state = "live" /\ f.absolute > now
                 /\ f.user = r.user /\ f.client = r.client
                 /\ f.binding = r.binding /\ r.scopes \subseteq f.scopes
  BY <1>1, <1>2, <1>5, Zenon DEF AccessLineage, Descends, AccessBacked
<1>6. accesses[a].source \notin Code => accesses[a].family # None
  BY <1>1, <1>2, Zenon DEF AccessLineage, Descends
<1>7. AccessAuthorityMatches(a)
  BY <1>1, <1>2, <1>5, <1>6, Zenon DEF AccessBacked, AccessAuthorityMatches
<1>8. AccessIntrospectsActive(a)
  BY <1>2, <1>3, <1>4, <1>5, <1>7, Zenon DEF AccessBacked, AccessIntrospectsActive
<1>. QED BY <1>4, <1>7, <1>8, Zenon DEF AccessAccepted

\* An unrevoked, unexpired family or access token works, unless the client's
\* scopes were narrowed below the token's: UpdateManagedUser, UpdateClient and
\* RevokeCurrentUserGrant revoke, they never suspend.
THEOREM NoDormantAuthorityHolds == Spec => []NoDormantAuthority
<1>1. TypeOK /\ TokenLineage /\ AuthorityInv => OnlyClientScopeSuspends
  BY BackedIsAccepted, Zenon DEF OnlyClientScopeSuspends
<1>2. NoDormantRefreshAuthority /\ OnlyClientScopeSuspends => NoDormantAuthority
  BY DEF NoDormantAuthority
<1>. QED BY <1>1, <1>2, NoDormantRefreshAuthorityHolds, TypeCorrect, LineageHolds,
            AuthorityHolds, PTL

-----------------------------------------------------------------------------
(* Consent epochs.                                                         *)

\* What a step may do to the consents: an active one keeps its epoch, and an
\* epoch starts at the version of the day.
ConsentsKeepEpoch ==
    \A p \in User \X Client : grants[p].state = "active" =>
        grants'[p].since = grants[p].since
SinceBound ==
    \A p \in User \X Client : grants[p].state # "none" =>
        grants[p].since <= grants[p].version

\* Only lockAndApplyConsent and RevokeCurrentUserGrant write a consent, and time
\* passes in no operation.
LEMMA GrantSteps ==
  ASSUME TypeOK, [Next]_vars
  PROVE  \/ UNCHANGED grants /\ now' \in {now, now + 1}
         \/ \E u \in User, c \in Client, q \in ScopeSet, i \in BOOLEAN :
                ApplyConsent(u, c, q, i) /\ UNCHANGED now
         \/ \E u \in User, c \in Client : RevokeCurrentUserGrant(u, c)
<1> DEFINE Applied == \E u \in User, c \in Client, q \in ScopeSet, i \in BOOLEAN :
                          ApplyConsent(u, c, q, i) /\ UNCHANGED now
<1>1. ASSUME NEW k \in Code, NEW s \in Session, NEW c \in Client, NEW q \in ScopeSet,
             NEW i \in BOOLEAN, IssueAuthorizationCode(k, s, c, q, i)
      PROVE  Applied
  <2>1. sessions[s].user \in User
    <3>1. sessions[s].state # "none"
      BY <1>1, Zenon DEF IssueAuthorizationCode
    <3>2. sessions[s] \in SessionRow \cup {NoRow}
      BY DEF TypeOK
    <3>. QED BY <3>1, <3>2 DEF SessionRow, NoRow
  <2>. QED BY <1>1, <2>1, Zenon DEF IssueAuthorizationCode
<1>2. ASSUME NEW k \in Code, NEW f \in Family \cup {None}, NEW a \in Access,
             ExchangeAuthorizationCode(k, f, a) \/ RejectConsumedCode(k)
      PROVE  UNCHANGED <<now, grants>>
  BY <1>2, Zenon DEF ExchangeAuthorizationCode, RejectConsumedCode
<1>3. ASSUME NEW f \in Family, NEW g \in Generation,
             \/ \E a \in Access, q \in ScopeSet : ExchangeRefreshToken(f, g, a, q)
             \/ RejectReusedRefreshToken(f, g) \/ RevokeRefreshToken(f, g)
      PROVE  UNCHANGED <<now, grants>>
  BY <1>3, Zenon DEF ExchangeRefreshToken, RejectReusedRefreshToken, RevokeRefreshToken
<1>4. ASSUME NEW k \in Code, RejectConsumedCode(k) PROVE UNCHANGED <<now, grants>>
  BY <1>4 DEF RejectConsumedCode
<1>5. ASSUME NEW s \in Session,
             \/ SessionExpires(s) \/ RevokeSessionByHash(s) \/ RevokeManagedSession(s)
      PROVE  UNCHANGED <<now, grants>>
  BY <1>5 DEF SessionExpires, RevokeSessionByHash, RevokeManagedSession,
              RevokeSessionAndBinding
<1>6. ASSUME NEW u \in User, NEW s \in Session,
             RevokeUserSession(u, s) \/ RevokeOtherUserSessions(u, s)
      PROVE  UNCHANGED <<now, grants>>
  BY <1>6 DEF RevokeUserSession, RevokeSessionAndBinding, RevokeOtherUserSessions,
              RevokeSessionsAndBindings
<1>7. ASSUME NEW u \in User, NEW old \in Browser, NEW new \in Session,
             CommitLogin(u, old, new) \/ CommitRegistration(u, old, new)
      PROVE  UNCHANGED <<now, grants>>
  BY <1>7, Zenon DEF CommitLogin, CommitRegistration
<1>8. ASSUME NEW u \in User,
             \/ CreateManagedUser(u) \/ RevokeAllManagedUserSessions(u)
             \/ \E status \in {"active", "disabled"}, roleChanged \in BOOLEAN :
                    UpdateManagedUser(u, status, roleChanged)
      PROVE  UNCHANGED <<now, grants>>
  BY <1>8, Zenon DEF CreateManagedUser, RevokeAllManagedUserSessions, RevokeSessionsAndBindings,
              UpdateManagedUser
<1>9. ASSUME NEW c \in Client, NEW status \in {"active", "disabled"},
             NEW scopes \in ScopeSet, UpdateClient(c, status, scopes)
      PROVE  UNCHANGED <<now, grants>>
  BY <1>9 DEF UpdateClient
<1>10. ASSUME Tick \/ UNCHANGED vars \/ \E a \in Access : RevokeAccessToken(a)
       PROVE  UNCHANGED grants /\ now' \in {now, now + 1}
  BY <1>10, Zenon DEF Tick, vars, RevokeAccessToken
<1>. QED BY <1>1, <1>2, <1>3, <1>4, <1>5, <1>6, <1>7, <1>8, <1>9, <1>10, Zenon DEF Next

\* Every step keeps the epoch of an active consent, and the bound.
LEMMA GrantShape ==
  ASSUME TypeOK, SinceBound, [Next]_vars
  PROVE  ConsentsKeepEpoch /\ SinceBound'
<1>1. CASE UNCHANGED grants
  BY <1>1 DEF ConsentsKeepEpoch, SinceBound
<1>2. ASSUME NEW u \in User, NEW c \in Client, NEW q \in ScopeSet, NEW i \in BOOLEAN,
             ApplyConsent(u, c, q, i)
      PROVE  ConsentsKeepEpoch /\ SinceBound'
  <2> DEFINE g == grants[<<u, c>>]
  <2>1. \A p \in User \X Client : p # <<u, c>> => grants'[p] = grants[p]
    BY <1>2, Zenon DEF ApplyConsent, TypeOK
  <2>2. g.state = "active" => grants'[<<u, c>>].since = g.since
    BY <1>2, SMTT(30) DEF ApplyConsent, TypeOK
  <2>3. g.state # "none" => g.version \in Nat /\ g.since \in Nat /\ g.since <= g.version
    <3>1. g \in GrantRow \cup {NoRow}
      BY DEF TypeOK
    <3>. QED BY <3>1, SMTT(30) DEF SinceBound, GrantRow, NoRow
  <2>4. grants'[<<u, c>>].state # "none" =>
            grants'[<<u, c>>].since <= grants'[<<u, c>>].version
    BY <1>2, <2>3, SMTT(30) DEF ApplyConsent, TypeOK
  <2>. QED BY <2>1, <2>2, <2>4 DEF ConsentsKeepEpoch, SinceBound
<1>3. ASSUME NEW u \in User, NEW c \in Client, RevokeCurrentUserGrant(u, c)
      PROVE  ConsentsKeepEpoch /\ SinceBound'
  <2> DEFINE g == grants[<<u, c>>]
  <2>1. \A p \in User \X Client : p # <<u, c>> => grants'[p] = grants[p]
    BY <1>3, Zenon DEF RevokeCurrentUserGrant, TypeOK
  <2>2. /\ grants'[<<u, c>>].since = g.since
        /\ grants'[<<u, c>>].version = g.version + 1
        /\ g.state = "active"
    BY <1>3, Zenon DEF RevokeCurrentUserGrant, TypeOK
  <2>3. g.version \in Nat /\ g.since \in Nat /\ g.since <= g.version
    <3>1. g \in GrantRow \cup {NoRow}
      BY DEF TypeOK
    <3>. QED BY <3>1, <2>2 DEF SinceBound, GrantRow, NoRow
  <2>. QED BY <2>1, <2>2, <2>3, SMTT(30) DEF ConsentsKeepEpoch, SinceBound
<1>. QED BY <1>1, <1>2, <1>3, GrantSteps

InEpoch(k) == codes[k].version >= grants[<<codes[k].user, codes[k].client>>].since

\* A live family goes back to a code of the current epoch, and so does a live
\* token that came straight from a code.
FamiliesInEpoch ==
    \A f \in Family : families[f].state = "live" => InEpoch(families[f].code)
CodeTokensInEpoch ==
    \A a \in Access : LiveAccess(a) /\ accesses[a].family = None =>
        InEpoch(accesses[a].source)

EpochInv == SinceBound /\ FamiliesInEpoch /\ CodeTokensInEpoch

\* The tokens of a family are as old as the family, which is live while they
\* are: the invariant is all of OneConsentEpoch.
LEMMA EpochParts ==
  ASSUME TypeOK, AuthorityInv, EpochInv
  PROVE  OneConsentEpoch
<1>1. ASSUME NEW a \in Access, LiveAccess(a) PROVE InEpoch(OriginCode(a))
  <2>1. CASE accesses[a].family = None
    BY <1>1, <2>1 DEF EpochInv, CodeTokensInEpoch, OriginCode
  <2>2. CASE accesses[a].family # None
    <3>1. accesses[a].family \in Family
      BY <1>1, <2>2, SMTT(30) DEF LiveAccess, TypeOK, AccessRow, NoRow
    <3>2. families[accesses[a].family].state = "live"
      BY <1>1, <2>2, Zenon DEF AuthorityInv, AccessBacked
    <3>. QED BY <2>2, <3>1, <3>2 DEF EpochInv, FamiliesInEpoch, OriginCode
  <2>. QED BY <2>1, <2>2
<1>. QED BY <1>1, Zenon DEF OneConsentEpoch, EpochInv, FamiliesInEpoch, InEpoch

\* A code issued under a consent that is active stays in its epoch for a step.
LEMMA EpochKept ==
  ASSUME TypeOK, SinceBound, [Next]_vars, NEW k \in Code, codes[k].state # "none",
         InEpoch(k), grants[<<codes[k].user, codes[k].client>>].state = "active"
  PROVE  InEpoch(k)'
<1>1. codes[k] \in CodeRow
  BY DEF TypeOK, NoRow
<1>2. <<codes[k].user, codes[k].client>> \in User \X Client
  BY <1>1 DEF CodeRow
<1>3. /\ codes'[k].version = codes[k].version
      /\ codes'[k].user = codes[k].user /\ codes'[k].client = codes[k].client
  BY CodeShape, Zenon DEF CodesKeepMeaning
<1>4. grants'[<<codes[k].user, codes[k].client>>].since
        = grants[<<codes[k].user, codes[k].client>>].since
  BY <1>2, GrantShape, Zenon DEF ConsentsKeepEpoch
<1>. QED BY <1>3, <1>4, Zenon DEF InEpoch

\* A redeemable code is in the epoch of its consent, for ExchangeAuthorizationCode
\* compares the grant's version with the code's.
LEMMA RedeemableInEpoch ==
  ASSUME TypeOK, SinceBound, NEW k \in Code, CodeRedeemable(k)
  PROVE  /\ codes[k].state = "issued" /\ InEpoch(k)
         /\ grants[<<codes[k].user, codes[k].client>>].state = "active"
<1>1. codes[k] \in CodeRow
  BY SMTT(30) DEF CodeRedeemable, TypeOK, NoRow
<1>2. <<codes[k].user, codes[k].client>> \in User \X Client
  BY <1>1 DEF CodeRow
<1>3. /\ grants[<<codes[k].user, codes[k].client>>].state = "active"
      /\ grants[<<codes[k].user, codes[k].client>>].version = codes[k].version
  BY Zenon DEF CodeRedeemable
<1>4. grants[<<codes[k].user, codes[k].client>>] \in GrantRow
  BY <1>2, <1>3 DEF TypeOK, NoRow
<1>. QED BY <1>2, <1>3, <1>4, Zenon DEF SinceBound, InEpoch, CodeRedeemable, GrantRow

\* The code of a row that was live before the step is in its epoch after it.
LEMMA LiveKeptInEpoch ==
  ASSUME TypeOK, TokenLineage, AuthorityInv, EpochInv, [Next]_vars, NEW k \in Code,
         \/ \E f \in Family : families[f].state = "live" /\ families[f].code = k
         \/ \E a \in Access : /\ LiveAccess(a) /\ accesses[a].family = None
                              /\ accesses[a].source = k
  PROVE  InEpoch(k)'
<1>1. ASSUME NEW f \in Family, families[f].state = "live", families[f].code = k
      PROVE  /\ codes[k].state # "none" /\ InEpoch(k)
             /\ grants[<<codes[k].user, codes[k].client>>].state = "active"
  <2>1. FamilyLineage(f) /\ FamilyBacked(f)
    BY <1>1, LineageParts, Zenon DEF AuthorityInv
  <2>. QED BY <1>1, <2>1, Zenon DEF FamilyLineage, Descends, FamilyBacked, EpochInv, FamiliesInEpoch
<1>2. ASSUME NEW a \in Access, LiveAccess(a), accesses[a].family = None,
             accesses[a].source = k
      PROVE  /\ codes[k].state # "none" /\ InEpoch(k)
             /\ grants[<<codes[k].user, codes[k].client>>].state = "active"
  <2>1. AccessLineage(a) /\ AccessBacked(a)
    BY <1>2, LineageParts DEF AuthorityInv
  <2>2. accesses[a].state # "none"
    BY <1>2 DEF LiveAccess
  <2>3. InEpoch(k)
    BY <1>2 DEF EpochInv, CodeTokensInEpoch
  <2>. QED BY <1>2, <2>1, <2>2, <2>3, Zenon DEF AccessLineage, Descends, AccessBacked
<1>. QED BY <1>1, <1>2, EpochKept, Zenon DEF EpochInv

\* An access token that is live after the step and was there before it was live
\* before it: revocation is not undone and no deadline moves.
LEMMA AccessWasLive ==
  ASSUME TypeOK, [Next]_vars, NEW a \in Access, accesses[a].state # "none",
         accesses'[a].state \in {accesses[a].state, "revoked"},
         accesses'[a].expires = accesses[a].expires, LiveAccess(a)'
  PROVE  LiveAccess(a)
<1>1. accesses[a] \in AccessRow /\ now \in Nat
  BY SMTT(30) DEF TypeOK, NoRow
<1>2. now' \in {now, now + 1}
  BY GrantSteps, Zenon DEF RevokeCurrentUserGrant
<1>. QED BY <1>1, <1>2 DEF LiveAccess, AccessRow

\* EpochInv survives every step.
LEMMA EpochStep ==
  TypeOK /\ TokenLineage /\ AuthorityInv /\ EpochInv /\ [Next]_vars => EpochInv'
<1> SUFFICES ASSUME TypeOK, TokenLineage, AuthorityInv, EpochInv, [Next]_vars
             PROVE  EpochInv'
  OBVIOUS
<1>0. TypeOK'
  BY NextType
<1>1. SinceBound /\ SinceBound'
  BY GrantShape DEF EpochInv
<1>2. ASSUME NEW f \in Family, families'[f].state = "live", NEW k \in Code,
             families'[f].code = k
      PROVE  InEpoch(k)'
  <2>1. CASE OnlyRevokes
    BY <1>2, <2>1, LiveKeptInEpoch, Zenon DEF OnlyRevokes
  <2>2. CASE UNCHANGED families
    BY <1>2, <2>2, LiveKeptInEpoch
  <2>3. ASSUME NEW j \in Code, NEW h \in Family \cup {None}, NEW a \in Access,
               ExchangeAuthorizationCode(j, h, a)
        PROVE  InEpoch(k)'
    <3>1. ExchangeOutcome(j, h, a)
      BY <2>3, ExchangeCodeEffect
    <3>2. CASE f = h
      <4>1. j = k
        <5>1. f # None
          BY NoneAssumption
        <5>. QED BY <1>2, <3>1, <3>2, <5>1, ExchangeFamily, Zenon
      <4>2. CodeRedeemable(k)
        BY <2>3, <4>1 DEF ExchangeAuthorizationCode
      <4>. QED BY <1>1, <4>2, RedeemableInEpoch, EpochKept, Zenon
    <3>3. CASE f # h
      <4>1. families'[f] = families[f]
        BY <3>1, <3>3, Zenon DEF ExchangeOutcome
      <4>. QED BY <1>2, <4>1, LiveKeptInEpoch, Zenon
    <3>. QED BY <3>2, <3>3
  <2>4. ASSUME NEW h \in Family, NEW g \in Generation, NEW a \in Access, NEW q \in ScopeSet,
               ExchangeRefreshToken(h, g, a, q)
        PROVE  UNCHANGED families
    BY <2>4 DEF ExchangeRefreshToken
  <2>5. ASSUME NEW j \in Code, NEW s \in Session, NEW c \in Client, NEW q \in ScopeSet,
               NEW i \in BOOLEAN, IssueAuthorizationCode(j, s, c, q, i)
        PROVE  UNCHANGED families
    BY <2>5, Zenon DEF IssueAuthorizationCode
  <2>6. ASSUME NEW j \in Code, RejectConsumedCode(j) PROVE UNCHANGED families
    BY <2>6 DEF RejectConsumedCode
  <2>. QED BY <2>1, <2>2, <2>3, <2>4, <2>5, <2>6, StepShape, SMTT(20)
<1>3. ASSUME NEW a \in Access, LiveAccess(a)', accesses'[a].family = None, NEW k \in Code,
             accesses'[a].source = k
      PROVE  InEpoch(k)'
  <2>1. CASE OnlyRevokes
    <3>1. accesses[a].state # "none"
      BY <1>3, <2>1, Zenon DEF OnlyRevokes, LiveAccess
    <3>2. LiveAccess(a)
      BY <1>3, <2>1, <3>1, AccessWasLive, Zenon DEF OnlyRevokes
    <3>. QED BY <1>3, <2>1, <3>1, <3>2, LiveKeptInEpoch, Zenon DEF OnlyRevokes
  <2>2. CASE accesses'[a] = accesses[a]
    <3>1. accesses[a].state # "none"
      BY <1>3, <2>2 DEF LiveAccess
    <3>2. LiveAccess(a)
      BY <1>3, <2>2, <3>1, AccessWasLive
    <3>. QED BY <1>3, <2>2, <3>2, LiveKeptInEpoch, Zenon
  <2>3. ASSUME NEW j \in Code, NEW h \in Family \cup {None}, NEW b \in Access,
               ExchangeAuthorizationCode(j, h, b), a = b
        PROVE  InEpoch(k)'
    <3>1. ExchangeOutcome(j, h, b)
      BY <2>3, ExchangeCodeEffect
    <3>2. j = k
      <4>1. accesses'[a] = NewAccess(codes[j].user, codes[j].client, codes[j].scopes,
                                     codes[j].binding, h, j)
        BY <2>3, <3>1, Zenon DEF ExchangeOutcome
      <4>. QED BY <1>3, <4>1, NewAccessFields, SMTT(30)
    <3>3. CodeRedeemable(k)
      BY <2>3, <3>2 DEF ExchangeAuthorizationCode
    <3>. QED BY <1>1, <3>3, RedeemableInEpoch, EpochKept, Zenon
  <2>4. ASSUME NEW j \in Code, NEW h \in Family \cup {None}, NEW b \in Access,
               ExchangeAuthorizationCode(j, h, b), a # b
        PROVE  accesses'[a] = accesses[a]
    <3>1. ExchangeOutcome(j, h, b)
      BY <2>4, ExchangeCodeEffect
    <3>. QED BY <2>4, <3>1, Zenon DEF ExchangeOutcome
  <2>5. ASSUME NEW h \in Family, NEW g \in Generation, NEW b \in Access, NEW q \in ScopeSet,
               ExchangeRefreshToken(h, g, b, q)
        PROVE  accesses'[a] = accesses[a]
    <3>1. RefreshOutcome(h, g, b, q)
      BY <2>5, RefreshEffect
    <3>2. accesses'[b].family = h /\ h # None
      <4>1. accesses'[b] = NewAccess(families[h].user, families[h].client, q,
                                     families[h].binding, h, <<h, g>>)
        BY <3>1, Zenon DEF RefreshOutcome
      <4>2. accesses'[b].family = h
        BY <4>1, NewAccessFields, SMTT(30)
      <4>. QED BY <4>2, NoneAssumption
    <3>3. a # b
      BY <1>3, <3>2
    <3>. QED BY <3>1, <3>3, Zenon DEF RefreshOutcome
  <2>6. ASSUME NEW j \in Code, NEW s \in Session, NEW c \in Client, NEW q \in ScopeSet,
               NEW i \in BOOLEAN, IssueAuthorizationCode(j, s, c, q, i)
        PROVE  accesses'[a] = accesses[a]
    BY <2>6, Zenon DEF IssueAuthorizationCode
  <2>7. ASSUME NEW j \in Code, RejectConsumedCode(j) PROVE accesses'[a] = accesses[a]
    BY <2>7 DEF RejectConsumedCode
  <2>. QED BY <2>1, <2>2, <2>3, <2>4, <2>5, <2>6, <2>7, StepShape, Zenon
<1>4. FamiliesInEpoch'
  <2> SUFFICES ASSUME NEW f \in Family, families'[f].state = "live"
               PROVE  InEpoch(families[f].code)'
    BY SMTT(20) DEF FamiliesInEpoch
  <2>1. PICK k \in Code : families'[f].code = k
    BY <1>0, SMTT(60) DEF TypeOK, FamilyRow, NoRow
  <2>2. InEpoch(k)'
    BY <1>2, <2>1
  <2>. QED BY <2>1, <2>2 DEF InEpoch
<1>5. CodeTokensInEpoch'
  <2> SUFFICES ASSUME NEW a \in Access, LiveAccess(a)', accesses'[a].family = None
               PROVE  InEpoch(accesses[a].source)'
    BY DEF CodeTokensInEpoch
  <2>0. AccessLineage(a)'
    <3>1. TokenLineage'
      BY LineageStep
    <3>. QED BY <3>1 DEF TokenLineage
  <2>1. PICK k \in Code : accesses'[a].source = k
    BY <2>0, Zenon DEF AccessLineage, Descends, LiveAccess
  <2>2. InEpoch(k)'
    BY <1>3, <2>1
  <2>. QED BY <2>1, <2>2 DEF InEpoch
<1>. QED BY <1>1, <1>4, <1>5 DEF EpochInv

\* Whatever is live goes back to a code issued since the consent was last given:
\* a code is redeemed only at the version of its consent, and withdrawing the
\* consent revokes what was redeemed before.
THEOREM OneConsentEpochHolds == Spec => []OneConsentEpoch
<1>1. Init => EpochInv
  BY SMTT(60) DEF Init, EpochInv, SinceBound, FamiliesInEpoch, CodeTokensInEpoch, LiveAccess, NoRow
<1>2. TypeOK /\ AuthorityInv /\ EpochInv => OneConsentEpoch
  BY EpochParts
<1>. QED BY <1>1, <1>2, EpochStep, TypeCorrect, LineageHolds, AuthorityHolds, PTL DEF Spec

-----------------------------------------------------------------------------
(* Sessions.                                                               *)

\* The unrevoked sessions of S are revoked, and their bindings cut off.
CutOff(S) ==
    /\ \A s \in S : Unrevoked(s) /\ NoneLeft(sessions[s].binding)
    /\ RevokeSessions(S)

\* Revoking the rows the binding queries select leaves nothing of a binding.
LEMMA CascadeLeavesNone ==
  ASSUME TypeOK, NEW STATE B, NEW STATE F, NEW STATE A, RevokeFamilies(F),
         RevokeAccesses(A), UNCHANGED now, UnrevokedFamiliesByBindings(B) \subseteq F,
         LiveAccessesByBindings(B) \subseteq A
  PROVE  \A b \in B : NoneLeft(b)
<1> SUFFICES ASSUME NEW b \in B PROVE NoneLeft(b)
  OBVIOUS
<1>1. ASSUME NEW f \in Family, families'[f].state = "live" PROVE families'[f].binding # b
  <2>1. CASE f \in F
    <3>1. families'[f] = [families[f] EXCEPT !.state = "revoked"]
      BY <2>1 DEF RevokeFamilies
    <3>2. families[f] \in FamilyRow \cup {NoRow}
      BY DEF TypeOK
    <3>. QED BY <1>1, <3>1, <3>2 DEF FamilyRow, NoRow
  <2>2. CASE f \notin F
    BY <1>1, <2>2 DEF RevokeFamilies, UnrevokedFamiliesByBindings
  <2>. QED BY <2>1, <2>2
<1>2. ASSUME NEW a \in Access, accesses'[a].state = "live", accesses'[a].expires > now'
      PROVE  accesses'[a].binding # b
  <2>1. CASE a \in A
    <3>1. accesses'[a] = [accesses[a] EXCEPT !.state = "revoked"]
      BY <2>1 DEF RevokeAccesses
    <3>2. accesses[a] \in AccessRow \cup {NoRow}
      BY DEF TypeOK
    <3>. QED BY <1>2, <3>1, <3>2 DEF AccessRow, NoRow
  <2>2. CASE a \notin A
    BY <1>2, <2>2 DEF RevokeAccesses, LiveAccessesByBindings, LiveAccess
  <2>. QED BY <2>1, <2>2
<1>. QED BY <1>1, <1>2 DEF NoneLeft

\* An operation that revokes sessions together with what their bindings select
\* cuts them off.
LEMMA RevocationCutsOff ==
  ASSUME TypeOK, NEW STATE S, S \subseteq Session, \A s \in S : Unrevoked(s),
         NEW STATE F, NEW STATE A, RevokeSessions(S), RevokeFamilies(F),
         RevokeAccesses(A), UNCHANGED now,
         UnrevokedFamiliesByBindings(BindingsOf(S)) \subseteq F,
         LiveAccessesByBindings(BindingsOf(S)) \subseteq A
  PROVE  \E T \in SUBSET Session : CutOff(T)
<1>1. \A b \in BindingsOf(S) : NoneLeft(b)
  BY CascadeLeavesNone
<1>2. CutOff(S)
  BY <1>1, Zenon DEF CutOff, BindingsOf
<1>. QED BY <1>2

\* The replacement a login creates: the browser's session `old`, if active, is
\* revoked; its binding is carried on by `new` with the tokens untouched, or
\* `new` starts a binding of its own and the old one is cut off.
Replaces(old, new) ==
    /\ sessions[new].state = "none" /\ sessions'[new].state = "live"
    /\ \A s \in Session \ {new, old} : sessions'[s] = sessions[s]
    /\ old # None /\ old # new =>
          IF sessions[old].state = "live"
          THEN sessions'[old] = [sessions[old] EXCEPT !.state = "revoked"]
          ELSE sessions'[old] = sessions[old]
    /\ \/ /\ sessions'[new].binding = new
          /\ ActiveExisting(old) => NoneLeft(sessions[old].binding)
       \/ /\ ActiveExisting(old) /\ sessions'[new].binding = sessions[old].binding
          /\ UNCHANGED <<families, accesses>>

\* A login or a registration replaces the browser's session.
LEMMA LoginReplaces ==
  ASSUME TypeOK, NEW u \in User, NEW old \in Browser, NEW new \in Session,
         CommitLogin(u, old, new) \/ CommitRegistration(u, old, new)
  PROVE  Replaces(old, new)
<1> DEFINE revoked == [sessions[old] EXCEPT !.state = "revoked"]
<1>1. /\ sessions[new].state = "none" /\ sessions'[new].state = "live"
      /\ \A s \in Session \ {new, old} : sessions'[s] = sessions[s]
  BY DEF CommitLogin, CommitRegistration, NewSession
<1>2. ASSUME old # None, old # new
      PROVE  IF sessions[old].state = "live" THEN sessions'[old] = revoked
                                             ELSE sessions'[old] = sessions[old]
  <2>1. old \in Session
    BY <1>2 DEF Browser
  <2>. QED BY <1>2, <2>1, Zenon DEF CommitLogin, CommitRegistration, ActiveExisting
<1>3. ASSUME RevokeBindingsCascade({sessions[old].binding}), UNCHANGED now
      PROVE  NoneLeft(sessions[old].binding)
  BY <1>3, CascadeLeavesNone DEF RevokeBindingsCascade
<1>4. CASE CommitRegistration(u, old, new)
  <2>1. sessions'[new].binding = new
    BY <1>4 DEF CommitRegistration, NewSession
  <2>2. ActiveExisting(old) => NoneLeft(sessions[old].binding)
    BY <1>3, <1>4 DEF CommitRegistration
  <2>. QED BY <1>1, <1>2, <2>1, <2>2 DEF Replaces
<1>5. CASE CommitLogin(u, old, new) /\ ActiveExisting(old) /\ sessions[old].user = u
  <2>1. sessions'[new].binding = sessions[old].binding /\ UNCHANGED <<families, accesses>>
    BY <1>5 DEF CommitLogin, NewSession
  <2>. QED BY <1>1, <1>2, <1>5, <2>1 DEF Replaces
<1>6. CASE CommitLogin(u, old, new) /\ ~(ActiveExisting(old) /\ sessions[old].user = u)
  <2>1. sessions'[new].binding = new
    BY <1>6, Zenon DEF CommitLogin, NewSession
  <2>2. ActiveExisting(old) => NoneLeft(sessions[old].binding)
    BY <1>3, <1>6, Zenon DEF CommitLogin
  <2>. QED BY <1>1, <1>2, <2>1, <2>2 DEF Replaces
<1>. QED BY <1>4, <1>5, <1>6

\* Sessions change in four ways.
LEMMA SessionShape ==
  ASSUME TypeOK, [Next]_vars
  PROVE  \/ UNCHANGED sessions
         \/ \E s \in Session : SessionExpires(s)
         \/ \E S \in SUBSET Session : CutOff(S)
         \/ \E old \in Browser, new \in Session : Replaces(old, new)
<1> DEFINE Cut == \E S \in SUBSET Session : CutOff(S)
<1>1. ASSUME NEW s \in Session, RevokeSessionAndBinding(s) PROVE Cut
  <2>1. BindingsOf({s}) = {sessions[s].binding}
    BY DEF BindingsOf
  <2>. QED BY <1>1, <2>1, RevocationCutsOff
           DEF RevokeSessionAndBinding, RevokeBindingsCascade
<1>2. ASSUME NEW u \in User, NEW s \in Session, RevokeOtherUserSessions(u, s)
      PROVE  Cut
  BY <1>2, RevocationCutsOff, Zenon DEF RevokeOtherUserSessions, RevokeSessionsAndBindings,
     RevokeBindingsCascade, UnrevokedSessionsByUser
<1>3. ASSUME NEW u \in User, RevokeAllManagedUserSessions(u) PROVE Cut
  BY <1>3, RevocationCutsOff, Zenon DEF RevokeAllManagedUserSessions, RevokeSessionsAndBindings,
     RevokeBindingsCascade, UnrevokedSessionsByUser
<1>4. ASSUME NEW u \in User, NEW status \in {"active", "disabled"},
             NEW roleChanged \in BOOLEAN, UpdateManagedUser(u, status, roleChanged)
      PROVE  Cut
  <2> DEFINE S == IF status # users[u] \/ roleChanged THEN UnrevokedSessionsByUser(u)
                  ELSE {}
             F == UnrevokedFamiliesByBindings(BindingsOf(S)) \cup
                  (IF status = "disabled" THEN UnrevokedFamiliesByUser(u) ELSE {})
             A == LiveAccessesByBindings(BindingsOf(S)) \cup
                  (IF status = "disabled" THEN LiveAccessesByUser(u) ELSE {})
  <2>1. /\ RevokeSessions(S) /\ RevokeFamilies(F) /\ RevokeAccesses(A)
        /\ UNCHANGED now
    BY <1>4, Zenon DEF UpdateManagedUser
  <2>2. S \subseteq Session /\ \A s \in S : Unrevoked(s)
    BY DEF UnrevokedSessionsByUser
  <2>3. /\ UnrevokedFamiliesByBindings(BindingsOf(S)) \subseteq F
        /\ LiveAccessesByBindings(BindingsOf(S)) \subseteq A
    OBVIOUS
  <2> HIDE DEF S, F, A
  <2>. QED BY <2>1, <2>2, <2>3, RevocationCutsOff
<1>5. ASSUME NEW u \in User, NEW old \in Browser, NEW new \in Session,
             CommitLogin(u, old, new) \/ CommitRegistration(u, old, new)
      PROVE  Replaces(old, new)
  BY <1>5, LoginReplaces
<1>6. ASSUME NEW u \in User,
             CreateManagedUser(u) \/ \E c \in Client : RevokeCurrentUserGrant(u, c)
      PROVE  UNCHANGED sessions
  BY <1>6, Zenon DEF CreateManagedUser, RevokeCurrentUserGrant
<1>7. ASSUME NEW c \in Client, NEW status \in {"active", "disabled"},
             NEW scopes \in ScopeSet, UpdateClient(c, status, scopes)
      PROVE  UNCHANGED sessions
  BY <1>7 DEF UpdateClient
<1>8. ASSUME NEW k \in Code,
             \/ RejectConsumedCode(k)
             \/ \E f \in Family \cup {None}, a \in Access : ExchangeAuthorizationCode(k, f, a)
             \/ \E s \in Session, c \in Client, q \in ScopeSet, i \in BOOLEAN :
                    IssueAuthorizationCode(k, s, c, q, i)
      PROVE  UNCHANGED sessions
  BY <1>8, Zenon DEF RejectConsumedCode, ExchangeAuthorizationCode, IssueAuthorizationCode
<1>9. ASSUME NEW f \in Family, NEW g \in Generation,
             \/ \E a \in Access, q \in ScopeSet : ExchangeRefreshToken(f, g, a, q)
             \/ RejectReusedRefreshToken(f, g) \/ RevokeRefreshToken(f, g)
      PROVE  UNCHANGED sessions
  BY <1>9, Zenon DEF ExchangeRefreshToken, RejectReusedRefreshToken, RevokeRefreshToken
<1>10. ASSUME Tick \/ UNCHANGED vars \/ \E a \in Access : RevokeAccessToken(a)
       PROVE  UNCHANGED sessions
  BY <1>10, Zenon DEF Tick, vars, RevokeAccessToken
<1> HIDE DEF Cut
<1>11. \/ UNCHANGED sessions \/ Cut
       \/ \E s \in Session : SessionExpires(s)
       \/ \E old \in Browser, new \in Session : Replaces(old, new)
  BY <1>1, <1>2, <1>3, <1>4, <1>5, <1>6, <1>7, <1>8, <1>9, <1>10, Zenon
  DEF Next, RevokeUserSession, RevokeSessionByHash, RevokeManagedSession
<1>. QED BY <1>11 DEF Cut

\* A binding is named after the session that started it, which exists.
BindingsExist ==
    \A s \in Session : sessions[s].state # "none" =>
        sessions[sessions[s].binding].state # "none"

\* What a step may do to a session: it stays, with its binding, and a revoked one
\* does not change.
SessionsKeepBinding ==
    \A s \in Session : sessions[s].state # "none" =>
        /\ sessions'[s].state # "none"
        /\ sessions'[s].binding = sessions[s].binding
        /\ sessions[s].state = "revoked" => sessions'[s] = sessions[s]

\* A revoked session is the same session.
LEMMA RevokedSession ==
  ASSUME TypeOK, NEW s \in Session, sessions[s].state # "none"
  PROVE  /\ [sessions[s] EXCEPT !.state = "revoked"].state = "revoked"
         /\ [sessions[s] EXCEPT !.state = "revoked"].binding = sessions[s].binding
<1>1. sessions[s] \in SessionRow
  BY DEF TypeOK, NoRow
<1>. QED BY <1>1 DEF SessionRow

\* Every step keeps the sessions' bindings.
LEMMA SessionsKept ==
  ASSUME TypeOK, [Next]_vars
  PROVE  SessionsKeepBinding
<1>1. CASE UNCHANGED sessions
  BY <1>1 DEF SessionsKeepBinding
<1>2. ASSUME NEW t \in Session, SessionExpires(t) PROVE SessionsKeepBinding
  <2>1. sessions[t] \in SessionRow /\ sessions[t].state = "live"
    BY <1>2 DEF SessionExpires, TypeOK, NoRow
  <2>2. sessions' = [sessions EXCEPT ![t] = [sessions[t] EXCEPT !.state = "expired"]]
    BY <1>2 DEF SessionExpires
  <2>. QED BY <2>1, <2>2 DEF SessionsKeepBinding, TypeOK, SessionRow
<1>3. ASSUME NEW S \in SUBSET Session, CutOff(S) PROVE SessionsKeepBinding
  BY <1>3, RevokedSession DEF SessionsKeepBinding, CutOff, RevokeSessions, Unrevoked
<1>4. ASSUME NEW old \in Browser, NEW new \in Session, Replaces(old, new)
      PROVE  SessionsKeepBinding
  <2> SUFFICES ASSUME NEW s \in Session, sessions[s].state # "none"
               PROVE  /\ sessions'[s].state # "none"
                      /\ sessions'[s].binding = sessions[s].binding
                      /\ sessions[s].state = "revoked" => sessions'[s] = sessions[s]
    BY DEF SessionsKeepBinding
  <2>1. s # new
    BY <1>4 DEF Replaces
  <2>2. CASE s = old
    BY <1>4, <2>1, <2>2, RevokedSession, NoneAssumption, Zenon DEF Replaces
  <2>3. CASE s # old
    BY <1>4, <2>1, <2>3 DEF Replaces
  <2>. QED BY <2>2, <2>3
<1>. QED BY <1>1, <1>2, <1>3, <1>4, SessionShape

\* BindingsExist survives every step.
LEMMA BindingsExistStep == TypeOK /\ BindingsExist /\ [Next]_vars => BindingsExist'
<1> SUFFICES ASSUME TypeOK, BindingsExist, [Next]_vars,
                    NEW s \in Session, sessions'[s].state # "none"
             PROVE  sessions'[sessions'[s].binding].state # "none"
  BY Zenon DEF BindingsExist
<1>0. SessionsKeepBinding
  BY SessionsKept
<1>1. ASSUME NEW t \in Session, sessions[t].state # "none",
             sessions'[s].binding = sessions[t].binding
      PROVE  sessions'[sessions'[s].binding].state # "none"
  <2>1. sessions[t].binding \in Session
    BY <1>1, SMTT(60) DEF TypeOK, SessionRow, NoRow
  <2>. QED BY <1>0, <1>1, <2>1, Zenon DEF BindingsExist, SessionsKeepBinding
<1>2. CASE sessions[s].state # "none"
  BY <1>0, <1>1, <1>2, Zenon DEF SessionsKeepBinding
<1>3. CASE sessions[s].state = "none"
  <2>1. CASE UNCHANGED sessions
    BY <1>3, <2>1
  <2>2. ASSUME NEW t \in Session, SessionExpires(t) PROVE FALSE
    BY <1>3, <2>2 DEF SessionExpires, TypeOK
  <2>3. ASSUME NEW S \in SUBSET Session, CutOff(S) PROVE FALSE
    BY <1>3, <2>3 DEF CutOff, RevokeSessions, Unrevoked
  <2>4. ASSUME NEW old \in Browser, NEW new \in Session, Replaces(old, new)
        PROVE  sessions'[sessions'[s].binding].state # "none"
    <3>1. s = new
      BY <1>3, <2>4, NoneAssumption DEF Replaces
    <3>2. CASE sessions'[new].binding = new
      BY <2>4, <3>1, <3>2 DEF Replaces
    <3>3. CASE ActiveExisting(old) /\ sessions'[new].binding = sessions[old].binding
      <4>1. old \in Session /\ sessions[old].state # "none"
        BY <3>3, SMTT(20) DEF ActiveExisting, Browser
      <4>. QED BY <1>1, <3>1, <3>3, <4>1, Zenon
    <3>. QED BY <2>4, <3>2, <3>3, Zenon DEF Replaces
  <2>. QED BY <2>1, <2>2, <2>3, <2>4, SessionShape, Zenon
<1>. QED BY <1>2, <1>3, Zenon

\* Revoking a session hands its binding on or cuts it off.
LEMMA CascadeStep == TypeOK /\ BindingsExist /\ [Next]_vars => CutOffOrInherited
<1> SUFFICES ASSUME TypeOK, BindingsExist, [Next]_vars, NEW s \in Session,
                    Unrevoked(s), sessions'[s].state = "revoked"
             PROVE  IF Inherited(sessions[s].binding) THEN UNCHANGED <<families, accesses>>
                    ELSE NoneLeft(sessions[s].binding)
  BY DEF CutOffOrInherited
<1>1. CASE UNCHANGED sessions
  BY <1>1 DEF Unrevoked
<1>2. ASSUME NEW t \in Session, SessionExpires(t) PROVE FALSE
  BY <1>2 DEF SessionExpires, TypeOK, Unrevoked
<1>3. ASSUME NEW S \in SUBSET Session, CutOff(S)
      PROVE  ~Inherited(sessions[s].binding) /\ NoneLeft(sessions[s].binding)
  <2>1. s \in S
    BY <1>3 DEF CutOff, RevokeSessions, Unrevoked
  <2>2. \A t \in Session : sessions[t].state = "none" => sessions'[t].state = "none"
    BY <1>3 DEF CutOff, RevokeSessions, Unrevoked
  <2>. QED BY <1>3, <2>1, <2>2 DEF CutOff, Inherited
<1>4. ASSUME NEW old \in Browser, NEW new \in Session, Replaces(old, new)
      PROVE  IF Inherited(sessions[s].binding) THEN UNCHANGED <<families, accesses>>
             ELSE NoneLeft(sessions[s].binding)
  <2>1. s = old /\ s # new
    BY <1>4 DEF Replaces, Unrevoked
  <2>2. ActiveExisting(old)
    BY <1>4, <2>1, NoneAssumption DEF Replaces, Unrevoked, ActiveExisting
  <2>3. \A t \in Session \ {new} : sessions[t].state = "none" => sessions'[t].state = "none"
    BY <1>4, <2>1, SMTT(20) DEF Replaces, Unrevoked
  <2>4. CASE sessions'[new].binding = new /\ NoneLeft(sessions[old].binding)
    <3>1. sessions[s].binding # new
      BY <1>4, <2>1, Zenon DEF Replaces, BindingsExist, Unrevoked
    <3>2. ~Inherited(sessions[s].binding)
      BY <2>3, <2>4, <3>1 DEF Inherited
    <3>. QED BY <2>1, <2>4, <3>2, Zenon
  <2>5. CASE /\ sessions'[new].binding = sessions[old].binding
             /\ UNCHANGED <<families, accesses>>
    <3>1. Inherited(sessions[s].binding)
      BY <1>4, <2>1, <2>5 DEF Inherited, Replaces
    <3>. QED BY <2>5, <3>1
  <2>. QED BY <1>4, <2>2, <2>4, <2>5, Zenon DEF Replaces
<1>. QED BY <1>1, <1>2, <1>3, <1>4, SessionShape, Zenon

\* No session is revoked without its binding's tokens going with it, in the same
\* transaction, unless a login by the same user carries the binding on.
THEOREM SessionCascadeHolds == Spec => SessionCascade
<1>1. Init => BindingsExist
  BY DEF Init, BindingsExist, NoRow
<1>. QED BY <1>1, BindingsExistStep, CascadeStep, TypeCorrect, PTL DEF Spec, SessionCascade

-----------------------------------------------------------------------------
(* Revocation is final.                                                    *)

\* A step that only revokes keeps every other field of a row: the row is the
\* same one, or the same one revoked.
LEMMA OnlyRevokesRows ==
  ASSUME TypeOK, TypeOK', OnlyRevokes
  PROVE  /\ \A f \in Family : families[f].state # "none" =>
                families'[f] \in {families[f], [families[f] EXCEPT !.state = "revoked"]}
         /\ \A a \in Access : accesses[a].state # "none" =>
                accesses'[a] \in {accesses[a], [accesses[a] EXCEPT !.state = "revoked"]}
<1>1. ASSUME NEW f \in Family, families[f].state # "none"
      PROVE  families'[f] \in {families[f], [families[f] EXCEPT !.state = "revoked"]}
  <2>1. families'[f].state # "none"
    BY <1>1, Zenon DEF OnlyRevokes
  <2>2. families[f] \in FamilyRow /\ families'[f] \in FamilyRow
    BY <1>1, <2>1, SMTT(60) DEF TypeOK, NoRow
  <2>. QED BY <1>1, <2>2 DEF OnlyRevokes, FamilyRow
<1>2. ASSUME NEW a \in Access, accesses[a].state # "none"
      PROVE  accesses'[a] \in {accesses[a], [accesses[a] EXCEPT !.state = "revoked"]}
  <2>1. accesses'[a].state # "none"
    BY <1>2, Zenon DEF OnlyRevokes
  <2>2. accesses[a] \in AccessRow /\ accesses'[a] \in AccessRow
    BY <1>2, <2>1, SMTT(60) DEF TypeOK, NoRow
  <2>. QED BY <1>2, <2>2 DEF OnlyRevokes, AccessRow
<1>. QED BY <1>1, <1>2

\* No step does more to a row that exists than retire it.
LEMMA RetireStep == TypeOK /\ RotationChain /\ [Next]_vars => RowsOnlyRetire
<1> SUFFICES ASSUME TypeOK, RotationChain, [Next]_vars PROVE RowsOnlyRetire
  OBVIOUS
<1> DEFINE Tokens ==
      /\ \A f \in Family : families[f].state # "none" =>
             families'[f] \in {families[f], [families[f] EXCEPT !.state = "revoked"]}
      /\ \A a \in Access : accesses[a].state # "none" =>
             accesses'[a] \in {accesses[a], [accesses[a] EXCEPT !.state = "revoked"]}
<1>1. Tokens
  <2>1. CASE OnlyRevokes
    BY <2>1, NextType, OnlyRevokesRows
  <2>2. ASSUME NEW k \in Code, NEW h \in Family \cup {None}, NEW b \in Access,
               ExchangeAuthorizationCode(k, h, b)
        PROVE  Tokens
    <3>1. ExchangeOutcome(k, h, b)
      BY <2>2, ExchangeCodeEffect
    <3>2. \A f \in Family : families[f].state # "none" => families'[f] = families[f]
      BY <3>1, Zenon DEF ExchangeOutcome
    <3>3. \A a \in Access : accesses[a].state # "none" => accesses'[a] = accesses[a]
      BY <3>1, Zenon DEF ExchangeOutcome
    <3>. QED BY <3>2, <3>3
  <2>3. ASSUME NEW h \in Family, NEW g \in Generation, NEW b \in Access, NEW q \in ScopeSet,
               ExchangeRefreshToken(h, g, b, q)
        PROVE  Tokens
    <3>1. RefreshOutcome(h, g, b, q)
      BY <2>3, RefreshEffect
    <3>. QED BY <3>1, Zenon DEF RefreshOutcome
  <2>4. ASSUME NEW k \in Code, NEW s \in Session, NEW c \in Client, NEW q \in ScopeSet,
               NEW i \in BOOLEAN, IssueAuthorizationCode(k, s, c, q, i)
        PROVE  Tokens
    BY <2>4, Zenon DEF IssueAuthorizationCode
  <2>5. ASSUME NEW k \in Code, RejectConsumedCode(k) PROVE Tokens
    BY <2>5 DEF RejectConsumedCode
  <2> HIDE DEF Tokens
  <2>. QED BY <2>1, <2>2, <2>3, <2>4, <2>5, StepShape
<1>2. \A s \in Session : sessions[s].state = "revoked" => sessions'[s] = sessions[s]
  BY SessionsKept DEF SessionsKeepBinding
<1>3. \A k \in Code : codes[k].state = "consumed" => codes'[k].state = "consumed"
  BY CodeShape DEF CodesKeepMeaning
<1>4. ASSUME NEW f \in Family, NEW g \in Generation,
             generations[<<f, g>>].state = "consumed"
      PROVE  generations'[<<f, g>>] = generations[<<f, g>>]
  BY <1>4, GenerationsStaySpent
<1>. QED BY <1>1, <1>2, <1>3, <1>4, Zenon DEF RowsOnlyRetire

\* Once revoked or consumed, always so; and a live family or token changes in no
\* other way than by being revoked.
THEOREM RevocationIsFinalHolds == Spec => RevocationIsFinal
  BY RetireStep, TypeCorrect, RotationChainHolds, PTL DEF Spec, RevocationIsFinal
=============================================================================
