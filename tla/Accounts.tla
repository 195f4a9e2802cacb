------------------------------ MODULE Accounts ------------------------------
(***************************************************************************)
(* User accounts and the set of administrators: bootstrap, registration,    *)
(* creation by an administrator and optimistic updates                      *)
(* (internal/admin, internal/identity, internal/storage/postgres/admin.go). *)
(*                                                                          *)
(* Each request is split at its lock statements: the advisory lock of the   *)
(* administrator set, the row lock of the user, and the advisory locks of   *)
(* the two login identifiers.  An administrator is authorized by the session*)
(* read when the request arrives; what they may do is not looked at again.  *)
(***************************************************************************)
EXTENDS Naturals, FiniteSets

CONSTANTS
    User,          \* identifiers of accounts that may come to exist
    Username,      \* normalized usernames and
    Email,         \* normalized addresses: two disjoint, ordered namespaces
    Request,
    MaxVersion,    \* bound on users.version
    Patches,       \* the updates that are asked for
    None

ASSUME IdentifierAssumption ==
    /\ Username \cup Email \subseteq Nat
    /\ Username \cap Email = {}
    /\ MaxVersion \in Nat \ {0}
    /\ None \notin Username \cup Email \cup Request
    /\ IsFiniteSet(User)

Role == {"user", "admin"}
Status == {"active", "disabled"}

\* identity.UpdateInput: None for a field that is not in the patch.
UpdateInput == [username : Username \cup {None}, email : Email \cup {None},
                status : Status \cup {None}, role : Role \cup {None}]

ASSUME PatchesAssumption == Patches \subseteq UpdateInput

VARIABLES
    users,         \* users, committed
    adminLock,     \* holder of LockAdminSet
    identifierLock,\* holder of LockLoginIdentifier, for each identifier
    userLock,      \* holder of each user's row lock
    request,       \* the transaction of each request
    bootstrapped   \* how many administrators bootstrap has created (history)

vars == <<users, adminLock, identifierLock, userLock, request, bootstrapped>>
locks == <<adminLock, identifierLock, userLock>>

Identifier == Username \cup Email
NoUser == [status |-> "none"]
UserRow == [username : Username, email : Email, status : Status, role : Role,
            version : 1..MaxVersion]

\* row is what the transaction will write, todo the identifiers it still has to
\* lock, patch what an update asked for (history).
Transaction ==
    [at : {"lockAdmin", "lockUser", "lockIdentifiers", "check", "write"},
     op : {"bootstrap", "create", "update"}, id : User, row : UserRow,
     todo : SUBSET Identifier, revoke : BOOLEAN, patch : UpdateInput]

Idle == [at |-> "idle"]
NoPatch == [username |-> None, email |-> None, status |-> None, role |-> None]

TypeOK ==
    /\ users \in [User -> UserRow \cup {NoUser}]
    /\ adminLock \in Request \cup {None}
    /\ identifierLock \in [Identifier -> Request \cup {None}]
    /\ userLock \in [User -> Request \cup {None}]
    /\ request \in [Request -> Transaction \cup {Idle}]
    /\ bootstrapped \in Nat

Init ==
    /\ users = [u \in User |-> NoUser]
    /\ adminLock = None
    /\ identifierLock = [i \in Identifier |-> None]
    /\ userLock = [u \in User |-> None]
    /\ request = [q \in Request |-> Idle]
    /\ bootstrapped = 0

Exists(u) == users[u].status # "none"
ActiveAdmin(u) == users[u].status = "active" /\ users[u].role = "admin"
HasAdmin == \E u \in User : Exists(u) /\ users[u].role = "admin"
CountActiveAdmins == Cardinality({u \in User : ActiveAdmin(u)})

\* Identifiers of new accounts are random, so no two requests share one.
Fresh(u) == ~Exists(u) /\ \A q \in Request : request[q].at # "idle" => request[q].id # u

\* Rollback and commit both release every lock.
Finish(q) ==
    /\ adminLock' = IF adminLock = q THEN None ELSE adminLock
    /\ identifierLock' = [i \in Identifier |->
           IF identifierLock[i] = q THEN None ELSE identifierLock[i]]
    /\ userLock' = [u \in User |-> IF userLock[u] = q THEN None ELSE userLock[u]]
    /\ request' = [request EXCEPT ![q] = Idle]

Rollback(q) == Finish(q) /\ UNCHANGED <<users, bootstrapped>>

-----------------------------------------------------------------------------
(* Requests.                                                               *)

\* PrepareUser: a new account is active and has version 1.
PrepareUser(username, email, role) ==
    [username |-> username, email |-> email, status |-> "active", role |-> role,
     version |-> 1]

\* BootstrapAdmin, CreateManagedUser and the account half of
\* CommitRegistration.  Only an administrator creates one of their kind.
BeginCreate(q, op, u, row) ==
    /\ request[q].at = "idle"
    /\ Fresh(u)
    /\ op = "bootstrap" => row.role = "admin"
    /\ op = "create" /\ row.role = "admin" => \E a \in User : ActiveAdmin(a)
    /\ request' = [request EXCEPT ![q] =
           [at |-> IF op = "bootstrap" THEN "lockAdmin" ELSE "lockIdentifiers",
            op |-> op, id |-> u, row |-> row, todo |-> {row.username, row.email},
            revoke |-> FALSE, patch |-> NoPatch]]
    /\ UNCHANGED <<users, locks, bootstrapped>>

Patched(old, new) == IF new = None THEN old ELSE new

\* PrepareUpdate keeps the version that was read for the optimistic write.
PrepareUpdate(existing, p) ==
    [username |-> Patched(existing.username, p.username),
     email |-> Patched(existing.email, p.email),
     status |-> Patched(existing.status, p.status),
     role |-> Patched(existing.role, p.role),
     version |-> existing.version]

\* admin.UpdateUser reads the account without a lock, prepares the update and
\* decides there and then whether the account's sessions must go.
BeginUpdate(q, u, p) ==
    LET updated == PrepareUpdate(users[u], p)
    IN  /\ request[q].at = "idle"
        /\ \E a \in User : ActiveAdmin(a)
        /\ Exists(u) /\ users[u].version < MaxVersion
        /\ updated # users[u]
        /\ request' = [request EXCEPT ![q] =
               [at |-> "lockAdmin", op |-> "update", id |-> u, row |-> updated,
                todo |-> {updated.username, updated.email},
                revoke |-> users[u].status # updated.status
                           \/ users[u].role # updated.role,
                patch |-> p]]
        /\ UNCHANGED <<users, locks, bootstrapped>>

\* LockAdminSet; bootstrap then looks for an administrator of any status.
LockAdminSet(q) ==
    /\ request[q].at = "lockAdmin"
    /\ adminLock = None
    /\ IF request[q].op = "bootstrap" /\ HasAdmin
       THEN Rollback(q)
       ELSE /\ adminLock' = q
            /\ request' = [request EXCEPT ![q].at =
                   IF request[q].op = "update" THEN "lockUser" ELSE "lockIdentifiers"]
            /\ UNCHANGED <<users, identifierLock, userLock, bootstrapped>>

\* (mutant) the last administrator may be disabled, though not demoted
BugOnlyDemotion(u, row) ==
    /\ ActiveAdmin(u) /\ row.role # "admin"
    /\ CountActiveAdmins <= 1

\* The update would take the last active administrator away (ErrLastAdmin).
TakesLastAdmin(u, row) ==
    /\ ActiveAdmin(u) /\ ~(row.role = "admin" /\ row.status = "active")
    /\ CountActiveAdmins <= 1

LockUser(q) ==
    LET t == request[q] IN
    /\ t.at = "lockUser"
    /\ userLock[t.id] = None
    /\ IF TakesLastAdmin(t.id, t.row)
       THEN Rollback(q)
       ELSE /\ userLock' = [userLock EXCEPT ![t.id] = q]
            /\ request' = [request EXCEPT ![q].at = "lockIdentifiers"]
            /\ UNCHANGED <<users, adminLock, identifierLock, bootstrapped>>

\* (mutant) the username is locked before the address, in no common order
BugUsernameFirst(q) ==
    LET todo == request[q].todo IN
    CHOOSE i \in todo : \A j \in todo :
        IF request[q].op = "update" THEN i >= j ELSE i <= j

\* sort.Strings(identifiers): the smaller identifier is locked first.
NextIdentifier(q) ==
    LET todo == request[q].todo IN CHOOSE i \in todo : \A j \in todo : i <= j

\* (mutant) the request goes on once it has the first of its identifiers
BugLocksOne(q) ==
    LET t == request[q]
        i == NextIdentifier(q)
    IN  /\ t.at = "lockIdentifiers"
        /\ identifierLock[i] = None
        /\ identifierLock' = [identifierLock EXCEPT ![i] = q]
        /\ request' = [request EXCEPT ![q] = [t EXCEPT !.todo = {}, !.at = "check"]]
        /\ UNCHANGED <<users, adminLock, userLock, bootstrapped>>

LockLoginIdentifier(q) ==
    LET t == request[q]
        i == NextIdentifier(q)
    IN  /\ t.at = "lockIdentifiers"
        /\ identifierLock[i] = None
        /\ identifierLock' = [identifierLock EXCEPT ![i] = q]
        /\ request' = [request EXCEPT ![q] =
               [t EXCEPT !.todo = @ \ {i},
                         !.at = IF t.todo = {i} THEN "check" ELSE @]]
        /\ UNCHANGED <<users, adminLock, userLock, bootstrapped>>

\* LoginIdentifierExists, LoginIdentifierOwnedByOther
Taken(row, u) ==
    \E v \in User \ {u} : Exists(v) /\ (users[v].username = row.username
                                        \/ users[v].email = row.email)

\* The second half of lockAndCheckIdentifiers (ErrDuplicate).
CheckIdentifiers(q) ==
    LET t == request[q]
    IN  /\ t.at = "check"
        /\ IF Taken(t.row, t.id) THEN Rollback(q)
           ELSE /\ request' = [request EXCEPT ![q].at = "write"]
                /\ UNCHANGED <<users, locks, bootstrapped>>

\* (mutant) the write does not compare versions
BugLastWriterWins(t) == TRUE

VersionMatches(t) == t.op = "update" => users[t.id].version = t.row.version

\* (mutant) the version that was read is written back
BugVersionKept(q) ==
    LET t == request[q] IN
    /\ t.at = "write"
    /\ IF VersionMatches(t)
       THEN /\ users' = [users EXCEPT ![t.id] = t.row]
            /\ bootstrapped' = bootstrapped + (IF t.op = "bootstrap" THEN 1 ELSE 0)
       ELSE UNCHANGED <<users, bootstrapped>>
    /\ Finish(q)

\* The insert or the optimistic UpdateUser (ErrConflict), and the commit.
Write(q) ==
    LET t == request[q] IN
    /\ t.at = "write"
    /\ IF VersionMatches(t)
       THEN /\ users' = [users EXCEPT ![t.id] =
                   [t.row EXCEPT !.version =
                       IF t.op = "update" THEN users[t.id].version + 1 ELSE @]]
            /\ bootstrapped' = bootstrapped + (IF t.op = "bootstrap" THEN 1 ELSE 0)
       ELSE UNCHANGED <<users, bootstrapped>>
    /\ Finish(q)

-----------------------------------------------------------------------------
Begin(q) ==
    \/ \E op \in {"bootstrap", "create"}, u \in User, username \in Username,
          email \in Email, role \in Role :
           BeginCreate(q, op, u, PrepareUser(username, email, role))
    \/ \E u \in User, p \in Patches : Exists(u) /\ BeginUpdate(q, u, p)

Step(q) ==
    \/ LockAdminSet(q) \/ LockUser(q) \/ LockLoginIdentifier(q)
    \/ CheckIdentifiers(q) \/ Write(q)

Next == \E q \in Request : Begin(q) \/ Step(q)

\* PostgreSQL serves a lock's waiters in the order they came: a request that
\* could proceed again and again does.
Spec == Init /\ [][Next]_vars /\ \A q \in Request : SF_vars(Step(q))

-----------------------------------------------------------------------------
(* Properties.                                                             *)

\* Bootstrap creates at most one administrator, and none once there is one,
\* even when two operators run it together; and once there is an administrator
\* there is an active one, however many of them demote or disable each other at
\* once.
AnActiveAdminRemains ==
    /\ TypeOK
    /\ bootstrapped <= 1
    /\ HasAdmin => CountActiveAdmins >= 1

\* A username or an address names at most one account: the advisory locks
\* alone, without the unique indexes, keep concurrent creations and renames
\* apart.
IdentifierNamesOneUser ==
    \A u, v \in User : u # v /\ Exists(u) /\ Exists(v) =>
        users[u].username # users[v].username /\ users[u].email # users[v].email

WritesItsPatch ==
    \A u \in User : Exists(u) /\ users'[u] # users[u] =>
        \E q \in Request :
            /\ request[q].at = "write" /\ request[q].id = u
            /\ users'[u] = [PrepareUpdate(users[u], request[q].patch)
                               EXCEPT !.version = users[u].version + 1]

\* An update changes the fields it names and no others: a field that somebody
\* else changed in the meantime is never written back from the stale copy.
NoLostUpdate == [][WritesItsPatch]_vars

RevokesWithIt ==
    \A u \in User :
        Exists(u) /\ (users'[u].role # users[u].role \/ users'[u].status # users[u].status) =>
            \E q \in Request :
                request[q].at = "write" /\ request[q].id = u /\ request[q].revoke

\* Every change of a role or a status ends the account's sessions: whether
\* to end them was decided from a copy read before any lock was held.
ChangeEndsSessions == [][RevokesWithIt]_vars

\* Every request comes to an end: the locks are taken in one order.
EveryRequestEnds ==
    \A q \in Request : request[q].at # "idle" ~> request[q].at = "idle"

=============================================================================
