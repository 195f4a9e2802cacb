--------------------------- MODULE ClientRegistry ---------------------------
(***************************************************************************)
(* The client registry: registration, the administrator's patches under    *)
(* optimistic versions, secret rotation, and the authentication of clients *)
(* at the token endpoint.                                                  *)
(*                                                                         *)
(* Patches and rotations read the client in one transaction, then lock and *)
(* write it in another, with a clock reading taken before both.  Secret    *)
(* authentication reads the client row, the active digests and the client  *)
(* again in three statements under no lock.  A request is a process; its   *)
(* steps interleave with those of the others at every statement that can   *)
(* observe or change committed state.  The token cascade of a patch is the *)
(* subject of TokenAuthority and is left out here.                         *)
(***************************************************************************)
EXTENDS Naturals, FiniteSets, RequestProcesses

CONSTANTS
    Client,
    Secret,         \* generated secrets, standing for their digests
    Profile,        \* valid values of everything a patch may set but the status
    MaxVersion,     \* bound on patches
    MaxNow          \* bound on the clock

ASSUME ConstantsAssumption ==
    /\ None \notin Client \cup Secret \cup Process \cup Profile
    /\ MaxVersion \in Nat \ {0} /\ MaxNow \in Nat

VARIABLES
    clients,    \* the oidc_clients rows with their child rows
    secrets,    \* the oidc_client_secrets rows
    lock,       \* who holds the row lock of a client
    req,        \* what each process is doing
    now,
    ordered,    \* history: the status the last committed patch asked for
    watch       \* history: what happened during each authentication

registryVars == <<clients, secrets, lock, req, now, ordered, watch>>

-----------------------------------------------------------------------------
Status == {"active", "disabled"}

Type == {"public", "confidential"}

ClientRow ==
    [status: Status, type: Type, profile: Profile, version: 1..MaxVersion]

SecretRow ==
    [state: {"active", "revoked"}, client: Client, created: 0..MaxNow]

\* No row is mistaken for an absent one.
ASSUME RowAssumption == None \notin ClientRow /\ None \notin SecretRow

Patch == [status: Status \cup {None}, profile: Profile \cup {None}]

Idle == [op |-> "idle"]

Request ==
    {Idle}
    \cup [op: {"update", "updating"}, client: Client, patch: Patch, value: ClientRow]
    \cup [op: {"rotate", "rotating"}, client: Client, secret: Secret, at: 0..MaxNow]
    \cup [op: {"revoked"}, client: Client, secret: Secret, at: 0..MaxNow,
          targets: SUBSET Secret]
    \cup [op: {"found"}, client: Client, secret: Secret \cup {None}]
    \cup [op: {"listed"}, client: Client, secret: Secret \cup {None},
          hashes: SUBSET Secret]
    \cup [op: {"answered"}, client: Client, success: BOOLEAN]

Watch == [spent: BOOLEAN, ordered: SUBSET Status, rotated: BOOLEAN]

Quiet == [spent |-> FALSE, ordered |-> {}, rotated |-> FALSE]

RegistryTypeOK ==
    /\ clients \in [Client -> ClientRow \cup {None}]
    /\ secrets \in [Secret -> SecretRow \cup {None}]
    /\ lock \in [Client -> Process \cup {None}]
    /\ req \in [Process -> Request]
    /\ now \in 0..MaxNow
    /\ ordered \in [Client -> Status]
    /\ watch \in [Process -> Watch]

RegistryInit ==
    /\ clients = [c \in Client |-> None]
    /\ secrets = [s \in Secret |-> None]
    /\ lock = [c \in Client |-> None]
    /\ req = [p \in Process |-> Idle]
    /\ now = 0
    /\ ordered = [c \in Client |-> "active"]
    /\ watch = [p \in Process |-> Quiet]

Registered(c) == clients[c] # None

ActiveSecrets(c) ==
    {s \in Secret : secrets[s] # None /\ secrets[s].client = c /\ secrets[s].state = "active"}

\* A secret no row has and no rotation in flight has generated.
Unused(s) ==
    /\ secrets[s] = None
    /\ \A p \in Process : req[p].op \in {"rotate", "rotating", "revoked"} => req[p].secret # s

\* The processes whose authentication of c is under way.
Authenticating(c) ==
    {p \in Process : req[p].op \in {"found", "listed"} /\ req[p].client = c}

Tick ==
    /\ now < MaxNow /\ now' = now + 1
    /\ UNCHANGED <<clients, secrets, lock, req, ordered, watch>>

-----------------------------------------------------------------------------
(* Registration: one transaction writes the client, its children and, for  *)
(* a confidential client, its first secret.                                *)

CreateClient(c, type, profile, s) ==
    /\ ~Registered(c) /\ Unused(s)
    /\ clients' = [clients EXCEPT ![c] =
           [status |-> "active", type |-> type, profile |-> profile, version |-> 1]]
    /\ secrets' = IF type = "public" THEN secrets
                  ELSE [secrets EXCEPT ![s] =
                            [state |-> "active", client |-> c, created |-> now]]
    /\ UNCHANGED <<lock, req, now, ordered, watch>>

-----------------------------------------------------------------------------
(* A patch.                                                                *)

\* prepareUpdate: a status counts as a change when it differs from the one
\* that was read, a list (of redirect URIs, logout URIs or scopes) always.
Changes(row, patch) ==
    patch.status \notin {None, row.status} \/ patch.profile # None

Patched(row, patch) ==
    [row EXCEPT !.status = IF patch.status = None THEN @ ELSE patch.status,
                !.profile = IF patch.profile = None THEN @ ELSE patch.profile]

\* The client is read in its own transaction and the patch applied to it in
\* memory; a patch without changes ends here.
UpdateRead(p, c, patch) ==
    /\ req[p] = Idle /\ Registered(c)
    /\ clients[c].version < MaxVersion
    /\ Changes(clients[c], patch)
    /\ req' = [req EXCEPT ![p] = [op |-> "update", client |-> c, patch |-> patch,
                                  value |-> Patched(clients[c], patch)]]
    /\ UNCHANGED <<clients, secrets, lock, now, ordered, watch>>

UpdateLock(p) ==
    /\ req[p].op = "update" /\ lock[req[p].client] = None
    /\ lock' = [lock EXCEPT ![req[p].client] = p]
    /\ req' = [req EXCEPT ![p].op = "updating"]
    /\ UNCHANGED <<clients, secrets, now, ordered, watch>>

\* (mutant) the row is written whatever its version
BugLastWriterWins(value) == TRUE

\* UPDATE ... WHERE version = expected_version
VersionMatches(value) == clients[value.client].version = value.value.version

\* The row is written whole, children replaced, or a conflict is reported and
\* nothing is written; either way the transaction ends.
UpdateWrite(p) ==
    LET r == req[p]
        c == r.client
        asked == IF r.patch.status = None THEN ordered[c] ELSE r.patch.status
    IN  /\ r.op = "updating"
        /\ IF VersionMatches(r)
           THEN /\ clients' = [clients EXCEPT ![c] =
                       [r.value EXCEPT !.version = clients[c].version + 1]]
                /\ ordered' = [ordered EXCEPT ![c] = asked]
                /\ watch' = [q \in Process |->
                       IF q \in Authenticating(c)
                       THEN [watch[q] EXCEPT !.ordered = @ \cup {asked}] ELSE watch[q]]
           ELSE UNCHANGED <<clients, ordered, watch>>
        /\ lock' = [lock EXCEPT ![c] = None]
        /\ req' = [req EXCEPT ![p] = Idle]
        /\ UNCHANGED <<secrets, now>>

-----------------------------------------------------------------------------
(* Secret rotation.                                                        *)

\* The clock is read, the client looked up and the replacement generated
\* before the transaction; a public client has no secret to rotate.
RotateRead(p, c, s) ==
    /\ req[p] = Idle /\ Registered(c) /\ Unused(s)
    /\ clients[c].type = "confidential"
    /\ req' = [req EXCEPT ![p] = [op |-> "rotate", client |-> c, secret |-> s, at |-> now]]
    /\ UNCHANGED <<clients, secrets, lock, now, ordered, watch>>

\* (mutant) the client row is not locked
BugRotateUnlocked(p) ==
    /\ req[p].op = "rotate"
    /\ req' = [req EXCEPT ![p].op = "rotating"]
    /\ UNCHANGED <<clients, secrets, lock, now, ordered, watch>>

RotateLock(p) ==
    /\ req[p].op = "rotate" /\ lock[req[p].client] = None
    /\ lock' = [lock EXCEPT ![req[p].client] = p]
    /\ req' = [req EXCEPT ![p].op = "rotating"]
    /\ UNCHANGED <<clients, secrets, now, ordered, watch>>

\* The revoking UPDATE sees what is committed when it starts.  A digest that is
\* newer than this request's clock reading (a rotation that started later and
\* committed first) fails the CHECK revoked_at >= created_at: the transaction
\* is rolled back and the generated secret dropped.
RotateRevoke(p) ==
    LET r == req[p]
        targets == ActiveSecrets(r.client)
    IN  /\ r.op = "rotating"
        /\ IF \E s \in targets : secrets[s].created > r.at
           THEN /\ req' = [req EXCEPT ![p] = Idle]
                /\ lock' = [lock EXCEPT ![r.client] = None]
           ELSE /\ req' = [req EXCEPT ![p] =
                       [op |-> "revoked", client |-> r.client, secret |-> r.secret,
                        at |-> r.at, targets |-> targets]]
                /\ UNCHANGED lock
        /\ UNCHANGED <<clients, secrets, now, ordered, watch>>

\* The replacement is inserted and the transaction commits.
RotateCommit(p) ==
    LET r == req[p] IN
    /\ r.op = "revoked"
    /\ secrets' = [s \in Secret |->
           IF s \in r.targets THEN [secrets[s] EXCEPT !.state = "revoked"]
           ELSE IF s = r.secret
           THEN [state |-> "active", client |-> r.client, created |-> r.at]
           ELSE secrets[s]]
    /\ watch' = [q \in Process |->
           IF q \in Authenticating(r.client)
           THEN [watch[q] EXCEPT !.rotated = TRUE] ELSE watch[q]]
    /\ lock' = [lock EXCEPT ![r.client] = None]
    /\ req' = [req EXCEPT ![p] = Idle]
    /\ UNCHANGED <<clients, now, ordered>>

-----------------------------------------------------------------------------
(* Authentication at the token, revocation and introspection endpoints.    *)

\* Basic credentials: the row is found by its public identifier.  What is
\* presented is a secret that was issued once, or something else (None).
FindClient(p, c, s) ==
    /\ req[p] = Idle /\ Registered(c)
    /\ s # None => secrets[s] # None
    /\ req' = [req EXCEPT ![p] = [op |-> "found", client |-> c, secret |-> s]]
    /\ watch' = [watch EXCEPT ![p] =
           [spent |-> s \notin ActiveSecrets(c), ordered |-> {ordered[c]}, rotated |-> FALSE]]
    /\ UNCHANGED <<clients, secrets, lock, now, ordered>>

ListActiveHashes(p) ==
    LET r == req[p] IN
    /\ r.op = "found"
    /\ req' = [req EXCEPT ![p] = [op |-> "listed", client |-> r.client, secret |-> r.secret,
                                  hashes |-> ActiveSecrets(r.client)]]
    /\ UNCHANGED <<clients, secrets, lock, now, ordered, watch>>

Answered(c, success) == [op |-> "answered", client |-> c, success |-> success]

\* The client is read again, in a snapshot of its own, and the digests that
\* were listed before are compared with the presented one.
ValidateSecret(p) ==
    LET r == req[p]
        value == clients[r.client]
    IN  /\ r.op = "listed"
        /\ req' = [req EXCEPT ![p] = Answered(r.client,
               /\ value.status = "active" /\ value.type = "confidential"
               /\ r.secret \in r.hashes)]
        /\ UNCHANGED <<clients, secrets, lock, now, ordered, watch>>

\* A bare client_id is good for an active public client only.
ResolvePublic(p, c) ==
    /\ req[p] = Idle /\ Registered(c)
    /\ req' = [req EXCEPT ![p] = Answered(c,
           clients[c].status = "active" /\ clients[c].type = "public")]
    /\ watch' = [watch EXCEPT ![p] =
           [spent |-> clients[c].type # "public", ordered |-> {ordered[c]}, rotated |-> FALSE]]
    /\ UNCHANGED <<clients, secrets, lock, now, ordered>>

Respond(p) ==
    /\ req[p].op = "answered"
    /\ req' = [req EXCEPT ![p] = Idle]
    /\ watch' = [watch EXCEPT ![p] = Quiet]
    /\ UNCHANGED <<clients, secrets, lock, now, ordered>>

-----------------------------------------------------------------------------
RegistryNext ==
    \/ Tick
    \/ \E c \in Client, type \in Type, profile \in Profile, s \in Secret :
           CreateClient(c, type, profile, s)
    \/ \E p \in Process :
        \/ \E c \in Client, patch \in Patch : UpdateRead(p, c, patch)
        \/ UpdateLock(p) \/ UpdateWrite(p)
        \/ \E c \in Client, s \in Secret : RotateRead(p, c, s)
        \/ RotateLock(p) \/ RotateRevoke(p) \/ RotateCommit(p)
        \/ \E c \in Client, s \in Secret \cup {None} : FindClient(p, c, s)
        \/ ListActiveHashes(p) \/ ValidateSecret(p)
        \/ \E c \in Client : ResolvePublic(p, c)
        \/ Respond(p)

RegistrySpec == RegistryInit /\ [][RegistryNext]_registryVars

-----------------------------------------------------------------------------
(* Properties.                                                             *)

\* However rotations overlap, a confidential client always has exactly one
\* active secret and a public one none: RotateClientSecret revokes and inserts
\* under the client's row lock, so no rotation misses the secret another one
\* has just inserted, and none that fails leaves the client without any.
OneActiveSecret ==
    /\ RegistryTypeOK
    /\ \A c \in Client : Registered(c) =>
           Cardinality(ActiveSecrets(c)) = IF clients[c].type = "confidential" THEN 1 ELSE 0

\* An authentication answers from what was true during the request, although it
\* is put together from three reads under no lock; the secret and the status may
\* be those of different moments of it.  It is never "yes" for a secret that was revoked before the request began, nor for
\* a client administrators had disabled all along; it is "no" for the current
\* secret only when a rotation or a disabling patch got in between.  What the
\* administrator ordered counts, not what the row says: a patch of other fields
\* prepared from an older read must not switch a client back on.
AnswerIsCurrent ==
    \A p \in Process : req[p].op = "answered" =>
        LET w == watch[p] IN
        IF req[p].success
        THEN ~w.spent /\ "active" \in w.ordered
        ELSE w.spent \/ "disabled" \in w.ordered \/ w.rotated
=============================================================================
