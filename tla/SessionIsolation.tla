-------------------------- MODULE SessionIsolation --------------------------
(***************************************************************************)
(* The operations on a user's sessions, statement by statement.             *)
(*                                                                          *)
(* TokenAuthority treats every database transaction as one step.  Here each *)
(* transaction of internal/storage/postgres that creates or revokes login   *)
(* sessions is split where another transaction can come in between, under   *)
(* PostgreSQL's READ COMMITTED isolation:                                   *)
(*   - a statement sees the rows committed when it starts;                  *)
(*   - SELECT ... FOR UPDATE locks the rows it selected one by one in id    *)
(*     order, waits for each, and re-evaluates a row it waited for, but     *)
(*     never picks up a row that was committed after it started;            *)
(*   - locks are held, and writes invisible, until the commit.              *)
(* Every login carries a pre-auth session of its own, so those do not       *)
(* contend; no tokens are issued meanwhile (TokenAuthority has both).       *)
(***************************************************************************)
EXTENDS Naturals, FiniteSets, RequestProcesses

CONSTANTS
    User,
    Session        \* row identifiers, ordered; a session also names a binding

ASSUME SessionAssumption == Session \subseteq Nat /\ None \notin Session \cup Process

VARIABLES
    status,        \* users: status of each, committed
    sessions,      \* login_sessions, committed
    authority,     \* bindings with an unrevoked family or a live token
    userLock,      \* who holds the row lock of each user
    sessionLock,   \* who holds the row lock of each session
    process        \* the transaction of each request

vars == <<status, sessions, authority, userLock, sessionLock, process>>

-----------------------------------------------------------------------------
NoRow == [state |-> "none"]
SessionRow == [state : {"live", "expired", "revoked"}, user : User, binding : Session]

Revocation == {"disable", "revokeAll", "revokeOthers"}

\* at is the next statement.  rows are the sessions a revocation has locked so
\* far, todo those its snapshot still holds, before the bindings its user had
\* when it began (history).
Transaction ==
    [at : {"lockUser", "lockOld", "insert"}, op : {"login"}, user : User,
     old : Session \cup {None}, new : Session, binding : Session]
    \cup [at : {"lockUser", "select", "lockRows"},
          op : Revocation, user : User,
          current : Session \cup {None}, todo : SUBSET Session,
          rows : SUBSET Session, before : SUBSET Session]
    \cup [at : {"lockTarget"}, op : {"revokeOne"}, user : User, target : Session]

TypeOK ==
    /\ status \in [User -> {"active", "disabled"}]
    /\ sessions \in [Session -> SessionRow \cup {NoRow}]
    /\ authority \subseteq Session
    /\ userLock \in [User -> Process \cup {None}]
    /\ sessionLock \in [Session -> Process \cup {None}]
    /\ process \in [Process -> Transaction \cup {[at |-> "idle"], [at |-> "done"]}]

Live(s) == sessions[s].state = "live"
Unrevoked(s) == sessions[s].state \in {"live", "expired"}
UnrevokedSessions(u) == {s \in Session : Unrevoked(s) /\ sessions[s].user = u}

\* Any number of browsers are already signed in, with tokens on their bindings;
\* some of the sessions have run out.
Init ==
    /\ status = [u \in User |-> "active"]
    /\ sessions \in [Session -> {NoRow} \cup
           {[state |-> x, user |-> u, binding |-> s] :
               x \in {"live", "expired"}, u \in User, s \in Session}]
    /\ \A s \in Session : Unrevoked(s) => sessions[s].binding = s
    /\ authority = {s \in Session : Unrevoked(s)}
    /\ userLock = [u \in User |-> None]
    /\ sessionLock = [s \in Session |-> None]
    /\ process = [p \in Process |-> [at |-> "idle"]]

Bindings(S) == {sessions[s].binding : s \in S}

\* The identifiers transactions in flight have already chosen for new rows.
Reserved == {s \in Session : \E p \in Process :
                process[p].at \in {"lockUser", "lockOld", "insert"}
                /\ process[p].op = "login" /\ process[p].new = s}

Unlock(p, locks) == [x \in DOMAIN locks |-> IF locks[x] = p THEN None ELSE locks[x]]

Commit(p) ==
    /\ userLock' = Unlock(p, userLock)
    /\ sessionLock' = Unlock(p, sessionLock)
    /\ process' = [process EXCEPT ![p] = [at |-> "done"]]

-----------------------------------------------------------------------------
(* CommitLogin.                                                            *)

BeginLogin(p, u, old, new) ==
    /\ process[p].at = "idle"
    /\ sessions[new].state = "none" /\ new \notin Reserved
    /\ old # None => sessions[old].state # "none"
    /\ process' = [process EXCEPT ![p] =
           [at |-> "lockUser", op |-> "login", user |-> u, old |-> old, new |-> new,
            binding |-> new]]
    /\ UNCHANGED <<status, sessions, authority, userLock, sessionLock>>

\* (mutant) the user is read without a lock
BugLoginWithoutUserLock(p) ==
    LET t == process[p] IN
    /\ t.at = "lockUser" /\ t.op = "login"
    /\ process' = [process EXCEPT ![p] =
           IF status[t.user] = "active"
           THEN [t EXCEPT !.at = IF t.old = None THEN "insert" ELSE "lockOld"]
           ELSE [at |-> "done"]]
    /\ UNCHANGED <<status, sessions, authority, userLock, sessionLock>>

\* LockUserByID; a user who is not active ends the transaction.
LoginLockUser(p) ==
    LET t == process[p] IN
    /\ t.at = "lockUser" /\ t.op = "login"
    /\ userLock[t.user] = None
    /\ IF status[t.user] = "active"
       THEN /\ userLock' = [userLock EXCEPT ![t.user] = p]
            /\ process' = [process EXCEPT ![p].at =
                   IF t.old = None THEN "insert" ELSE "lockOld"]
       ELSE /\ process' = [process EXCEPT ![p] = [at |-> "done"]]
            /\ UNCHANGED userLock
    /\ UNCHANGED <<status, sessions, authority, sessionLock>>

\* (mutant) a session that was already replaced passes its binding on again
BugInheritFromRevoked(p) ==
    LET t == process[p]
        same == sessions[t.old].user = t.user
    IN  /\ t.at = "lockOld"
        /\ sessionLock[t.old] = None
        /\ sessionLock' = [sessionLock EXCEPT ![t.old] = p]
        /\ process' = [process EXCEPT ![p] =
               [t EXCEPT !.at = "insert",
                         !.binding = IF same THEN sessions[t.old].binding ELSE @]]
        /\ UNCHANGED <<status, sessions, authority, userLock>>

\* LockLoginSessionByTokenHash, and what it decides about the binding.
LoginLockOld(p) ==
    LET t == process[p]
        same == Live(t.old) /\ sessions[t.old].user = t.user
    IN  /\ t.at = "lockOld"
        /\ sessionLock[t.old] = None
        /\ sessionLock' = [sessionLock EXCEPT ![t.old] = p]
        /\ process' = [process EXCEPT ![p] =
               [t EXCEPT !.at = "insert",
                         !.binding = IF same THEN sessions[t.old].binding ELSE @]]
        /\ UNCHANGED <<status, sessions, authority, userLock>>

\* The account-switch cascade, the revocation of the old row, the insert of the
\* new one, and the commit that makes them visible.
LoginCommit(p) ==
    LET t == process[p]
        replaced == t.old # None /\ Live(t.old)
    IN  /\ t.at = "insert"
        /\ sessions' = [s \in Session |->
               IF s = t.new
               THEN [state |-> "live", user |-> t.user, binding |-> t.binding]
               ELSE IF s = t.old /\ replaced
                    THEN [sessions[s] EXCEPT !.state = "revoked"] ELSE sessions[s]]
        /\ authority' = IF replaced /\ sessions[t.old].user # t.user
                        THEN authority \ {sessions[t.old].binding} ELSE authority
        /\ Commit(p)
        /\ UNCHANGED status

-----------------------------------------------------------------------------
(* UpdateManagedUser (disabling), RevokeAllManagedUserSessions and          *)
(* RevokeOtherUserSessions share the selection and the cascade; only the    *)
(* first locks the user.                                                    *)

BeginRevocation(p, op, u, current) ==
    /\ process[p].at = "idle"
    /\ (op = "revokeOthers") = (current # None)
    /\ op = "revokeOthers" => sessions[current].state # "none"
                              /\ sessions[current].user = u
    /\ process' = [process EXCEPT ![p] =
           [at |-> IF op = "disable" THEN "lockUser" ELSE "select", op |-> op,
            user |-> u, current |-> current, todo |-> {}, rows |-> {},
            before |-> Bindings(UnrevokedSessions(u))]]
    /\ UNCHANGED <<status, sessions, authority, userLock, sessionLock>>

DisableLockUser(p) ==
    LET t == process[p] IN
    /\ t.at = "lockUser" /\ t.op = "disable"
    /\ userLock[t.user] = None
    /\ userLock' = [userLock EXCEPT ![t.user] = p]
    /\ process' = [process EXCEPT ![p].at = "select"]
    /\ UNCHANGED <<status, sessions, authority, sessionLock>>

\* LockActiveLoginSessionsByUser starts: its snapshot fixes the candidates.
SelectSessions(p) ==
    LET t == process[p] IN
    /\ t.at = "select"
    /\ process' = [process EXCEPT ![p] =
           [t EXCEPT !.at = "lockRows", !.todo = UnrevokedSessions(t.user)]]
    /\ UNCHANGED <<status, sessions, authority, userLock, sessionLock>>

\* The row as committed now still satisfies revoked_at IS NULL.
StillSelected(s) == Unrevoked(s)

\* (mutant) ORDER BY id is missing
BugAnyOrder(p, todo) ==
    CHOOSE x \in todo : \A y \in todo :
        IF process[p].op = "revokeOthers" THEN x >= y ELSE x <= y

\* ORDER BY id FOR UPDATE: rows are locked lowest first.
NextToLock(p, todo) == CHOOSE x \in todo : \A y \in todo : x <= y

LockNextSession(p) ==
    LET t == process[p]
        s == NextToLock(p, t.todo)
    IN  /\ t.at = "lockRows" /\ t.todo # {}
        /\ sessionLock[s] = None
        /\ IF StillSelected(s)
           THEN /\ sessionLock' = [sessionLock EXCEPT ![s] = p]
                /\ process' = [process EXCEPT ![p] =
                       [t EXCEPT !.todo = @ \ {s}, !.rows = @ \cup {s}]]
           ELSE /\ process' = [process EXCEPT ![p].todo = @ \ {s}]
                /\ UNCHANGED sessionLock
        /\ UNCHANGED <<status, sessions, authority, userLock>>

\* RevokeUserSession, RevokeManagedSession, RevokeSessionByHash: one row, found
\* by its key, so the lock yields its latest version.
BeginRevokeOne(p, u, target) ==
    /\ process[p].at = "idle"
    /\ sessions[target].state # "none" /\ sessions[target].user = u
    /\ process' = [process EXCEPT ![p] =
           [at |-> "lockTarget", op |-> "revokeOne", user |-> u, target |-> target]]
    /\ UNCHANGED <<status, sessions, authority, userLock, sessionLock>>

\* A session already revoked (by a rotation too) answers ErrNotFound.
RevokeOneCommit(p) ==
    LET s == process[p].target IN
    /\ process[p].at = "lockTarget"
    /\ sessionLock[s] = None
    /\ IF Unrevoked(s)
       THEN /\ sessions' = [sessions EXCEPT ![s].state = "revoked"]
            /\ authority' = authority \ {sessions[s].binding}
       ELSE UNCHANGED <<sessions, authority>>
    /\ process' = [process EXCEPT ![p] = [at |-> "done"]]
    /\ UNCHANGED <<status, userLock, sessionLock>>

Targets(t) == t.rows \ {t.current}

\* Disabling also revokes every family and token of the user, by user id: all
\* bindings the user's sessions ever had.
RevocationCommit(p) ==
    LET t == process[p]
        owned == Bindings({s \in Session : sessions[s].state # "none"
                                           /\ sessions[s].user = t.user})
    IN  /\ t.at = "lockRows" /\ t.todo = {}
        /\ sessions' = [s \in Session |->
               IF s \in Targets(t) THEN [sessions[s] EXCEPT !.state = "revoked"]
                                   ELSE sessions[s]]
        /\ authority' = authority \ (Bindings(Targets(t)) \cup
                                     IF t.op = "disable" THEN owned ELSE {})
        /\ status' = IF t.op = "disable"
                     THEN [status EXCEPT ![t.user] = "disabled"] ELSE status
        /\ Commit(p)

-----------------------------------------------------------------------------
Step(p) ==
    \/ LoginLockUser(p) \/ LoginLockOld(p) \/ LoginCommit(p)
    \/ DisableLockUser(p) \/ SelectSessions(p) \/ LockNextSession(p)
    \/ RevocationCommit(p) \/ RevokeOneCommit(p)

Begin(p) ==
    \/ \E u \in User, old \in Session \cup {None}, new \in Session :
           BeginLogin(p, u, old, new)
    \/ \E u \in User, op \in Revocation, current \in Session \cup {None} :
           BeginRevocation(p, op, u, current)
    \/ \E u \in User, target \in Session : BeginRevokeOne(p, u, target)

Next == \E p \in Process : Begin(p) \/ Step(p)

\* A database transaction that can proceed does.
Spec == Init /\ [][Next]_vars /\ \A p \in Process : WF_vars(Step(p))

-----------------------------------------------------------------------------
(* Properties.                                                             *)

\* Once a user is disabled they have no session, whatever logins were in flight
\* (CommitLogin and UpdateManagedUser both lock the user first), and, while none
\* are issued, tokens hang on the binding of an unrevoked session: every
\* revocation that commits takes the tokens of the bindings it ends, even when
\* the session it selected was replaced while it waited.
DisabledHasNothing ==
    /\ TypeOK
    /\ \A u \in User : status[u] = "disabled" => UnrevokedSessions(u) = {}
    /\ \A b \in authority : \E s \in Session : Unrevoked(s) /\ sessions[s].binding = b

\* Two logins racing for the same cookie never share its binding, and a binding
\* never passes from one user to another: the first to lock user and session
\* inherits, the second finds the session revoked.
BindingInheritedOnce ==
    \A s, t \in Session :
        /\ sessions[s].state # "none" /\ sessions[t].state # "none"
        /\ sessions[s].binding = sessions[t].binding
        => /\ sessions[s].user = sessions[t].user
           /\ Unrevoked(s) /\ Unrevoked(t) => s = t

\* No set of concurrent logins and revocations blocks for ever: users are
\* locked before sessions, and sessions in id order.
EveryTransactionEnds ==
    \A p \in Process : process[p].at # "idle" ~> process[p].at = "done"

\* admin.RevokeUserSessions "revokes every active login session owned by a
\* user": no binding the user was signed in with when the revocation began is
\* still signed in, or holds tokens, when it commits.
RevokeAllIsComplete ==
    [][\A p \in Process :
         RevocationCommit(p) /\ process[p].op = "revokeAll" =>
             \A b \in process[p].before :
                 /\ b \notin authority'
                 /\ \A s \in Session : sessions'[s].state = "live" =>
                        sessions'[s].binding # b
      ]_vars

=============================================================================
