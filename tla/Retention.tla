----------------------------- MODULE Retention ------------------------------
(***************************************************************************)
(* The background cleanup loop of the server (internal/app) over the rows  *)
(* of one browser's visit: an authorization transaction with its form, a   *)
(* login session, an authorization code, the access token it bought, an    *)
(* offline family with its refresh generations and refreshed access        *)
(* tokens, and a logout transaction.                                       *)
(*                                                                         *)
(* The loop reads the clock once per run and then performs its operations  *)
(* in a fixed order, each in committed batches, while the server goes on   *)
(* creating, using and revoking the same rows.  The tables refer to each   *)
(* other: some foreign keys forbid the deletion of a row that is still     *)
(* referred to, others set the reference to null, and a trigger refuses to *)
(* null the session of an access token that has lost its code.  A batch    *)
(* that meets such a refusal is rolled back and its operation fails.       *)
(*                                                                         *)
(* A delete statement that looks for references selects its rows from the  *)
(* state at its start; the foreign keys are checked when it deletes them.  *)
(* These are two steps, and requests may commit in between.                *)
(***************************************************************************)
EXTENDS Naturals, FiniteSets

CONSTANTS
    LoginTTL, FlowTTL, CodeTTL, AccessTTL, AbsoluteTTL, LogoutTTL,
    ProtocolRetention,   \* kept after the end: transactions, codes, accesses
    LongRetention,       \* kept after the end: sessions, refresh evidence
    BatchSize,           \* rows one delete statement may take
    MaxRequest,          \* longest time from a request's clock reading to its commit
    LastGeneration,      \* bound on refresh generations
    MaxStart,            \* latest time at which a row without parent begins
    MaxNow,              \* bound on the clock
    MaxFaults            \* bound on failed operations and restarts

\* A request is cut off after 10 seconds (defaultOperationTimeout); what has ended
\* is retained for 24 hours (protocolArtifactRetention) or 30 days
\* (refreshArtifactRetention, the retention of sessions).
ASSUME RetentionAssumption ==
    /\ {LoginTTL, FlowTTL, CodeTTL, AccessTTL, AbsoluteTTL, LogoutTTL,
        ProtocolRetention, LongRetention, BatchSize} \subseteq Nat \ {0}
    /\ {MaxRequest, LastGeneration, MaxStart, MaxNow, MaxFaults} \subseteq Nat
    /\ MaxRequest < ProtocolRetention /\ ProtocolRetention <= LongRetention

VARIABLES
    time,          \* the clock of the server
    session,      \* login_sessions; ends: earliest of revocation and expiries
    transaction,  \* auth_transactions; ends: expires_at, then consumed_at
    preauth,      \* preauth_sessions; ends: earliest of consumption and expiry
    code,         \* authorization_codes; ends: expires_at
    family,       \* refresh_token_families; ends: absolute_expires_at
    refresh,      \* refresh_tokens, by generation
    access,       \* access_tokens, by the generation issued with them; ends: expires_at
    logout,       \* logout_transactions; ends: expiry, then consumed_at
    step,         \* the operation the cleanup loop is in
    selected,     \* the rows that the delete statement under way has selected
    reading,      \* the clock reading of the current cleanup run
    faults,       \* operations failed by the environment, and restarts
    blocked       \* operations that a constraint of the schema has failed

rows == <<session, transaction, preauth, code, family, refresh, access, logout>>
loop == <<step, selected, reading, faults, blocked>>
retentionVars == <<time, rows, loop>>

\* Generation 0 comes from the code; the access token issued with a later one
\* has the generation before it as its source.
Generation == 0..LastGeneration
Presence == {"none", "kept", "gone"}

RetainedRow == [is : Presence, ends : Nat]
NoRow == [is |-> "none", ends |-> 0]
NewRow(from, ttl) == [is |-> "kept", ends |-> from + ttl]
Ended(row) == [row EXCEPT !.ends = time]
Unended(row) == row.is = "kept" /\ time < row.ends

\* The operations of a run, in the order in which run() performs them.
After(s) ==
    CASE s = "idle" -> "sessions"
      [] s = "sessions" -> "expire"
      [] s = "expire" -> "transactions"
      [] s = "transactions" -> "protocol"
      [] s = "protocol" -> "refresh"
      [] s = "refresh" -> "logout"
      [] s = "logout" -> "idle"
Step == {"idle", "sessions", "expire", "transactions", "protocol", "refresh",
         "logout"}

\* A statement that has selected rows: the transaction; generations; or, after
\* these, in the same database transaction, the family.
Selection == [of : {"none", "transaction", "generations", "family"},
              generations : SUBSET Generation, row : BOOLEAN]
Nothing == [of |-> "none", generations |-> {}, row |-> FALSE]

RetentionTypeOK ==
    /\ time \in 0..MaxNow
    /\ {session, preauth, code} \subseteq RetainedRow
    /\ transaction \in [is : Presence, expires : Nat, ends : Nat, consumed : BOOLEAN]
    /\ family \in [is : Presence, ends : Nat, revoked : 0..MaxNow]
    /\ refresh \in [Generation -> {"none", "live", "consumed", "gone"}]
    /\ access \in [Generation -> RetainedRow]
    /\ logout \in [is : Presence, ends : Nat, bound : BOOLEAN, consumed : BOOLEAN]
    /\ step \in Step
    /\ selected \in Selection
    /\ reading \in 0..time
    /\ faults \in 0..MaxFaults
    /\ blocked \subseteq Step

RetentionInit ==
    /\ time = 0
    /\ session = NoRow
    /\ transaction = [is |-> "none", expires |-> 0, ends |-> 0, consumed |-> FALSE]
    /\ preauth = NoRow
    /\ code = NoRow
    /\ family = [is |-> "none", ends |-> 0, revoked |-> 0]
    /\ refresh = [g \in Generation |-> "none"]
    /\ access = [g \in Generation |-> NoRow]
    /\ logout = [is |-> "none", ends |-> 0, bound |-> FALSE, consumed |-> FALSE]
    /\ step = "idle"
    /\ selected = Nothing
    /\ reading = 0
    /\ faults = 0
    /\ blocked = {}

ClockTick ==
    /\ time < MaxNow
    /\ time' = time + 1
    /\ UNCHANGED <<rows, loop>>

-----------------------------------------------------------------------------
(* The requests that create, use and end the rows: which rows they write,  *)
(* with which times and references.  What else they check before they do   *)
(* is the subject of TokenAuthority, AuthorizeFlow, LoginForm and          *)
(* LogoutTransaction.                                                      *)

BeginTransaction ==
    /\ transaction.is = "none"
    /\ time <= MaxStart
    /\ transaction' = [is |-> "kept", expires |-> time + FlowTTL, ends |-> time + FlowTTL,
                       consumed |-> FALSE]
    /\ UNCHANGED <<time, session, preauth, code, family, refresh, access, logout, loop>>

PendingTransaction == Unended(transaction) /\ ~transaction.consumed

\* The clock readings of requests that may commit now: operationContext cuts off
\* the others.
Readings == {r \in 0..time : time <= r + MaxRequest}

\* The transaction was looked at, without a lock, when the request read the clock;
\* it may have been consumed since.
BeginPreAuth(r) ==
    /\ transaction.is = "kept"
    /\ r < transaction.expires /\ r <= transaction.ends
    /\ preauth.is = "none"
    /\ preauth' = NewRow(r, FlowTTL)
    /\ UNCHANGED <<time, session, transaction, code, family, refresh, access, logout, loop>>

CommitLogin ==
    /\ PendingTransaction
    /\ Unended(preauth)
    /\ session.is = "none"
    /\ preauth' = Ended(preauth)
    /\ session' = NewRow(time, LoginTTL)
    /\ UNCHANGED <<time, transaction, code, family, refresh, access, logout, loop>>

ConsumedTransaction == [transaction EXCEPT !.consumed = TRUE, !.ends = time]

RejectAuthTransaction ==
    /\ PendingTransaction
    /\ transaction' = ConsumedTransaction
    /\ UNCHANGED <<time, session, preauth, code, family, refresh, access, logout, loop>>

IssueAuthorizationCode ==
    /\ PendingTransaction
    /\ Unended(session)
    /\ transaction' = ConsumedTransaction
    /\ code' = NewRow(time, CodeTTL)
    /\ UNCHANGED <<time, session, preauth, family, refresh, access, logout, loop>>

\* The code's own consumed_at is not read by the cleanup; that it is spent
\* shows in the access token it bought.
ExchangeAuthorizationCode(offline) ==
    /\ Unended(code)
    /\ access[0].is = "none"
    /\ access' = [access EXCEPT ![0] = NewRow(time, AccessTTL)]
    /\ IF offline
         THEN /\ family' = [is |-> "kept", ends |-> time + AbsoluteTTL, revoked |-> 0]
              /\ refresh' = [refresh EXCEPT ![0] = "live"]
         ELSE UNCHANGED <<family, refresh>>
    /\ UNCHANGED <<time, session, transaction, preauth, code, logout, loop>>

\* The clock is read before the family is locked.
ExchangeRefreshToken(g, r) ==
    /\ family.is = "kept" /\ r < family.ends
    /\ family.revoked = 0
    /\ refresh[g] = "live" /\ g < LastGeneration
    /\ refresh' = [refresh EXCEPT ![g] = "consumed", ![g + 1] = "live"]
    /\ access' = [access EXCEPT ![g + 1] = NewRow(r, AccessTTL)]
    /\ UNCHANGED <<time, session, transaction, preauth, code, family, logout, loop>>

\* revoked_at of the family of the visit, when some cascade reaches it at all.
RevokedFamily ==
    IF family.is = "kept" /\ family.revoked = 0
      THEN [family EXCEPT !.revoked = time]
      ELSE family

\* A grant, a client or the user revokes it; also after the absolute expiry.
RevokeFamily ==
    /\ family.is = "kept"
    /\ family.revoked = 0
    /\ time > 0
    /\ time + LongRetention <= MaxNow
    /\ family' = RevokedFamily
    /\ UNCHANGED <<time, session, transaction, preauth, code, refresh, access, logout, loop>>

RevokeSession ==
    /\ Unended(session)
    /\ time > 0
    /\ session' = Ended(session)
    /\ family' = RevokedFamily
    /\ UNCHANGED <<time, transaction, preauth, code, refresh, access, logout, loop>>

StartLogout ==
    /\ logout.is = "none"
    /\ time <= MaxStart
    /\ logout' = [is |-> "kept", ends |-> time + LogoutTTL, bound |-> FALSE, consumed |-> FALSE]
    /\ UNCHANGED <<time, session, transaction, preauth, code, family, refresh, access, loop>>

BindLogout ==
    /\ Unended(logout)
    /\ ~logout.consumed
    /\ ~logout.bound
    /\ Unended(session)
    /\ logout' = [logout EXCEPT !.bound = TRUE]
    /\ UNCHANGED <<time, session, transaction, preauth, code, family, refresh, access, loop>>

CompleteLogout ==
    /\ Unended(logout)
    /\ ~logout.consumed
    /\ logout.bound
    /\ Unended(session)
    /\ time > 0
    /\ logout' = [logout EXCEPT !.consumed = TRUE, !.ends = time]
    /\ session' = Ended(session)
    /\ family' = RevokedFamily
    /\ UNCHANGED <<time, transaction, preauth, code, refresh, access, loop>>

Visit ==
    \/ BeginTransaction
    \/ \E r \in Readings : BeginPreAuth(r)
    \/ CommitLogin
    \/ RejectAuthTransaction
    \/ IssueAuthorizationCode
    \/ \E offline \in BOOLEAN : ExchangeAuthorizationCode(offline)
    \/ \E g \in Generation, r \in Readings : ExchangeRefreshToken(g, r)
    \/ RevokeFamily
    \/ RevokeSession
    \/ StartLogout
    \/ BindLogout
    \/ CompleteLogout

-----------------------------------------------------------------------------
(* The cleanup loop.                                                       *)

StartRun ==
    /\ step = "idle"
    /\ step' = After("idle")
    /\ reading' = time
    /\ UNCHANGED <<time, rows, selected, faults, blocked>>

\* An operation repeats while one of its statements took a full batch.
Proceed(counts) ==
    /\ step' = IF \E n \in counts : n >= BatchSize THEN step ELSE After(step)
    /\ selected' = Nothing
    /\ UNCHANGED <<time, reading, faults, blocked>>

\* A failed operation returns from the whole run.
BugAbortRun == "idle"
\* Where the loop goes on when the operation fails: the failure is counted and
\* logged.  Only the two halves of the transaction cleanup are one operation.
AfterFailure == IF step = "expire" THEN "protocol" ELSE After(step)

\* A constraint of the schema refuses a row of the batch: it is rolled back.
Blocked ==
    /\ step' = AfterFailure
    /\ selected' = Nothing
    /\ blocked' = blocked \cup {step}
    /\ UNCHANGED <<time, rows, reading, faults>>

Deleted(row) == [row EXCEPT !.is = "gone"]
Delete(row, doomed) == IF doomed THEN Deleted(row) ELSE row
Count(doomed) == IF doomed THEN 1 ELSE 0

\* The candidates one statement takes: as many as the limit allows, oldest first.
Batch(candidates, age) ==
    {b \in SUBSET candidates :
        /\ Cardinality(b) = IF Cardinality(candidates) < BatchSize
                              THEN Cardinality(candidates) ELSE BatchSize
        /\ \A x \in b, y \in candidates \ b : age[x] <= age[y]}

\* Deleting the session would leave a logout transaction without its session,
\* or makes the guard of migration 15 refuse to null the session of an access
\* token already detached from its code.
SessionRefused ==
    \/ logout.is = "kept" /\ logout.bound
    \/ access[0].is = "kept" /\ code.is = "gone"

CleanupSessions ==
    /\ step = "sessions"
    /\ LET expired == preauth.is = "kept" /\ preauth.ends <= reading
           retired == session.is = "kept" /\ session.ends + LongRetention <= reading
       IN  IF retired /\ SessionRefused
             THEN Blocked
             ELSE /\ preauth' = Delete(preauth, expired)
                  /\ session' = Delete(session, retired)
                  /\ Proceed({Count(expired), Count(retired)})
                  /\ UNCHANGED <<transaction, code, family, refresh, access, logout>>

ExpireElapsedTransactions ==
    /\ step = "expire"
    /\ LET elapsed == /\ transaction.is = "kept"
                      /\ ~transaction.consumed
                      /\ transaction.ends <= reading
       IN  /\ transaction' = IF elapsed
                               THEN [transaction EXCEPT !.consumed = TRUE, !.ends = reading]
                               ELSE transaction
           /\ Proceed({Count(elapsed)})
    /\ UNCHANGED <<session, preauth, code, family, refresh, access, logout>>

\* The foreign keys of forms and codes to the transaction.
TransactionReferenced == preauth.is = "kept" \/ code.is = "kept"

\* The forms and codes of the transaction are not looked at.
BugTransactionRetired ==
    /\ transaction.is = "kept"
    /\ transaction.consumed
    /\ transaction.ends + ProtocolRetention <= reading
\* consumed_at has passed the retention and no form and no code refers to it.
TransactionRetired ==
    /\ transaction.is = "kept"
    /\ transaction.consumed
    /\ transaction.ends + ProtocolRetention <= reading
    /\ ~TransactionReferenced

SelectRetiredTransaction ==
    /\ step = "transactions" /\ selected = Nothing
    /\ IF TransactionRetired
         THEN /\ selected' = [Nothing EXCEPT !.of = "transaction", !.row = TRUE]
              /\ UNCHANGED <<time, step, reading, faults, blocked>>
         ELSE Proceed({0})
    /\ UNCHANGED rows

CleanupAuthTransactions ==
    /\ selected.of = "transaction"
    /\ IF TransactionReferenced
         THEN Blocked
         ELSE /\ transaction' = Deleted(transaction)
              /\ Proceed({1})
              /\ UNCHANGED <<session, preauth, code, family, refresh, access, logout>>

CleanupProtocolArtifacts ==
    /\ step = "protocol"
    /\ LET oldCode == code.is = "kept" /\ code.ends + ProtocolRetention <= reading
           old == {g \in Generation : /\ access[g].is = "kept"
                                      /\ access[g].ends + ProtocolRetention <= reading}
       IN  \E b \in Batch(old, [g \in Generation |-> access[g].ends]) :
             /\ code' = Delete(code, oldCode)
             /\ access' = [g \in Generation |-> Delete(access[g], g \in b)]
             /\ Proceed({Count(oldCode), Cardinality(b)})
    /\ UNCHANGED <<session, transaction, preauth, family, refresh, logout>>

\* The evidence of a revoked family is counted from its revocation.
BugFromRevocation == IF family.revoked > 0 THEN family.revoked ELSE family.ends
\* The reuse evidence of a family is due once the family is neither usable nor
\* recently revoked.
EvidenceEnds == IF family.revoked > family.ends THEN family.revoked ELSE family.ends

FamilyRetired == family.is = "kept" /\ EvidenceEnds + LongRetention <= reading

KeptGenerations == {g \in Generation : refresh[g] \in {"live", "consumed"}}

\* The foreign key of an access token to the generation it was refreshed with.
SourceOfAccess(g) == g < LastGeneration /\ access[g + 1].is = "kept"

\* The access tokens of the generation are not looked at.
BugIgnoreAccess == {g \in KeptGenerations : FamilyRetired}
RetiredGenerations ==
    {g \in KeptGenerations : FamilyRetired /\ ~SourceOfAccess(g)}

\* The foreign keys of generations, those left of them, and of access tokens to
\* the family.
FamilyReferenced(left) == left # {} \/ \E g \in Generation : access[g].is = "kept"

LeftGenerations == KeptGenerations \ selected.generations

\* The first statement of the refresh cleanup.  It is not worth a step when the
\* family is not due: then the second finds nothing either.
SelectRetiredGenerations ==
    /\ step = "refresh" /\ selected = Nothing
    /\ IF FamilyRetired
         THEN /\ \E b \in Batch(RetiredGenerations, [g \in Generation |-> EvidenceEnds]) :
                   selected' = [Nothing EXCEPT !.of = "generations", !.generations = b]
              /\ UNCHANGED <<time, step, reading, faults, blocked>>
         ELSE Proceed({0})
    /\ UNCHANGED rows

\* The generations are deleted; the second statement selects the family.
SelectRetiredFamily ==
    /\ selected.of = "generations"
    /\ IF \E g \in selected.generations : SourceOfAccess(g)
         THEN Blocked
         ELSE /\ selected' = [selected EXCEPT
                     !.of = "family",
                     !.row = FamilyRetired /\ ~FamilyReferenced(LeftGenerations)]
              /\ UNCHANGED <<time, rows, step, reading, faults, blocked>>

\* The family is locked, looked at again if it was revoked meanwhile, and
\* deleted; both deletions are committed.
CleanupRefreshArtifacts ==
    /\ selected.of = "family"
    /\ LET last == selected.row /\ FamilyRetired
       IN  IF last /\ FamilyReferenced(LeftGenerations)
             THEN Blocked
             ELSE /\ refresh' = [g \in Generation |->
                                   IF g \in selected.generations THEN "gone" ELSE refresh[g]]
                  /\ family' = Delete(family, last)
                  /\ Proceed({Cardinality(selected.generations), Count(last)})
                  /\ UNCHANGED <<session, transaction, preauth, code, access, logout>>

CleanupLogoutTransactions ==
    /\ step = "logout"
    /\ LET due == logout.ends + (IF logout.consumed THEN ProtocolRetention ELSE 0)
           retired == logout.is = "kept" /\ due <= reading
       IN  /\ logout' = Delete(logout, retired)
           /\ Proceed({Count(retired)})
    /\ UNCHANGED <<session, transaction, preauth, code, family, refresh, access>>

\* A timeout, a lost connection, or rows that other transactions hold locked.
OperationFails ==
    /\ step # "idle"
    /\ faults < MaxFaults
    /\ faults' = faults + 1
    /\ step' = AfterFailure
    /\ selected' = Nothing
    /\ UNCHANGED <<time, rows, reading, blocked>>

\* The process stops between two batches; a new one starts with a full run.
Restart ==
    /\ step # "idle"
    /\ faults < MaxFaults
    /\ faults' = faults + 1
    /\ step' = "idle"
    /\ selected' = Nothing
    /\ UNCHANGED <<time, rows, reading, blocked>>

Cleanup ==
    \/ StartRun
    \/ CleanupSessions
    \/ ExpireElapsedTransactions
    \/ SelectRetiredTransaction
    \/ CleanupAuthTransactions
    \/ CleanupProtocolArtifacts
    \/ SelectRetiredGenerations
    \/ SelectRetiredFamily
    \/ CleanupRefreshArtifacts
    \/ CleanupLogoutTransactions

RetentionNext == ClockTick \/ Visit \/ Cleanup \/ OperationFails \/ Restart

RetentionSpec ==
    /\ RetentionInit /\ [][RetentionNext]_retentionVars
    /\ WF_retentionVars(ClockTick) /\ WF_retentionVars(Cleanup)

-----------------------------------------------------------------------------
(* Replay evidence: as long as the family's absolute expiry has not passed *)
(* no generation of it has been deleted, so a second use of an old refresh *)
(* token still finds the consumed row (and is answered by revocation, not  *)
(* as an unknown token), whatever revoked the family in the meantime.  An  *)
(* authorization code and an access token are never deleted before they    *)
(* have expired and the retention has passed; and no generation and no     *)
(* access token of a family outlives it.                                   *)
ReplayEvidence ==
    /\ RetentionTypeOK
    /\ \A g \in Generation :
         refresh[g] = "gone" => time >= family.ends + LongRetention
    /\ code.is = "gone" => time >= code.ends + ProtocolRetention
    /\ \A g \in Generation :
         access[g].is = "gone" => time >= access[g].ends + ProtocolRetention
    /\ family.is = "gone" => ~FamilyReferenced(KeptGenerations)

\* The transaction has been deleted, or the loop marked it expired so late that
\* its retention ends after the bounded clock has stopped.
TransactionGone ==
    transaction.is = "kept" => transaction.consumed /\ transaction.ends + ProtocolRetention > MaxNow

(* The comment of CleanupRefreshArtifacts: foreign keys cannot turn a      *)
(* refresh batch into a failed one; the same is true of the transaction    *)
(* cleanup.  Only the session operation can be refused by the schema: its  *)
(* statement does not look at what still refers to the session.  Yet every *)
(* row is eventually deleted: the operations that delete what refers to it *)
(* run after it, and a failure of one operation does not keep the later    *)
(* ones of the run from being tried.                                       *)
EverythingRetires ==
    /\ [](blocked \subseteq {"sessions"})
    /\ <>[]( /\ \A row \in {session, preauth, code, family, logout} : row.is # "kept"
             /\ \A g \in Generation : access[g].is # "kept"
             /\ KeptGenerations = {}
             /\ TransactionGone )
=============================================================================
