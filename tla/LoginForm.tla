------------------------------ MODULE LoginForm ------------------------------
(***************************************************************************)
(* The hosted login and registration forms (internal/authn, the handlers of *)
(* internal/httpserver/auth_handlers.go).  Opening a form creates a         *)
(* pre-authentication row bound to a transaction of the authorization flow. *)
(* A submission validates both, reserves an attempt, does its Argon2 work   *)
(* behind a gate of few places, and commits a session.  The steps are       *)
(* statements or transactions of their own, so submissions of the same form,*)
(* of two forms of the same transaction, and the cleanup loop interleave.   *)
(* A submission uses the time of its arrival throughout.                    *)
(***************************************************************************)
EXTENDS Naturals, FiniteSets

CONSTANTS
    Form,           \* pre-authentication rows
    Transaction,    \* rows of auth_transactions
    Request,
    MaxAttempts,    \* maxAuthenticationAttempts
    Places,         \* capacity of the password gate
    FormTTL,        \* lifetime of a form
    TransactionTTL, \* lifetime of a transaction
    MaxTime         \* bound on the clock

ASSUME LoginFormAssumption ==
    /\ MaxAttempts \in Nat \ {0} /\ Places \in Nat \ {0}
    /\ FormTTL \in Nat \ {0} /\ TransactionTTL \in Nat \ {0} /\ MaxTime \in Nat
    /\ IsFiniteSet(Request)

VARIABLES
    now,
    transactions,  \* kind, expiry and state of each transaction
    preauths,      \* transaction, expiry, attempts and state of each form
    request,       \* the submissions in progress
    gate,          \* places of the password gate in use
    checks,        \* password checks made for each form (history)
    opened         \* sessions opened by each form (history)

vars == <<now, transactions, preauths, request, gate, checks, opened>>
history == <<checks, opened>>

Kind == {"local", "authorization", "create"}    \* "create": prompt=create
Mode == {"login", "register"}

TransactionRow == [kind : Kind, expires : Nat, state : {"live", "consumed", "expired"}]
PreAuthRow == [txn : Transaction, expires : Nat, attempts : 0..MaxAttempts,
               state : {"open", "consumed", "deleted"}]
Submission == [at : {"reserve", "enter", "hashing", "rehash", "rehashing", "commit"},
               mode : Mode, form : Form, now : Nat]
Absent == [state |-> "absent"]
Idle == [at |-> "idle"]

TypeOK ==
    /\ now \in 0..MaxTime
    /\ transactions \in [Transaction -> TransactionRow \cup {Absent}]
    /\ preauths \in [Form -> PreAuthRow \cup {Absent}]
    /\ request \in [Request -> Submission \cup {Idle}]
    /\ gate \in 0..Places
    /\ checks \in [Form -> Nat]
    /\ opened \in [Form -> Nat]

Init ==
    /\ now = 0
    /\ transactions = [t \in Transaction |-> Absent]
    /\ preauths = [f \in Form |-> Absent]
    /\ request = [r \in Request |-> Idle]
    /\ gate = 0
    /\ checks = [f \in Form |-> 0]
    /\ opened = [f \in Form |-> 0]

Resolves(t, time) == transactions[t].state = "live" /\ time < transactions[t].expires

NewTransaction(kind) == [kind |-> kind, expires |-> now + TransactionTTL, state |-> "live"]

Step(r, at) == request' = [request EXCEPT ![r].at = at]
End(r) == request' = [request EXCEPT ![r] = Idle]

-----------------------------------------------------------------------------
(* Opening a form.                                                         *)

\* CreateVerified: the authorization endpoint starts a transaction.
CreateVerified(t, kind) ==
    /\ transactions[t] = Absent /\ kind # "local"
    /\ transactions' = [transactions EXCEPT ![t] = NewTransaction(kind)]
    /\ UNCHANGED <<now, preauths, request, gate, history>>

\* Begin without a transaction creates a local one; with one it must resolve,
\* and prompt=create goes with registration and with nothing else.
Begin(f, mode, t) ==
    /\ preauths[f] = Absent
    /\ \/ /\ transactions[t] = Absent
          /\ transactions' = [transactions EXCEPT ![t] = NewTransaction("local")]
       \/ /\ Resolves(t, now)
          /\ mode = "login" => transactions[t].kind # "create"
          /\ mode = "register" => transactions[t].kind # "authorization"
          /\ UNCHANGED transactions
    /\ preauths' = [preauths EXCEPT ![f] =
           [txn |-> t, expires |-> now + FormTTL, attempts |-> 0, state |-> "open"]]
    /\ UNCHANGED <<now, request, gate, history>>

-----------------------------------------------------------------------------
(* Submitting it.                                                          *)

\* validateFlow: two unlocked reads and the checks on what they returned.  The
\* page does not bind the form to one of the two modes.
Submit(r, f, mode) ==
    /\ request[r] = Idle
    /\ preauths[f].state = "open" /\ now < preauths[f].expires
    /\ Resolves(preauths[f].txn, now)
    /\ request' = [request EXCEPT ![r] =
           [at |-> "reserve", mode |-> mode, form |-> f, now |-> now]]
    /\ UNCHANGED <<now, transactions, preauths, gate, history>>

\* The condition of the UPDATE that reserves an attempt.
MayAttempt(p, time) ==
    /\ p.state = "open" /\ time < p.expires
    /\ p.attempts < MaxAttempts

\* (mutant) the attempts are compared before they are counted, not as part of it
BugReserve(r) ==
    LET f == request[r].form
    IN  /\ request[r].at = "reserve"
        /\ IF preauths[f].state = "open"
           THEN /\ preauths' = [preauths EXCEPT ![f].attempts =
                       IF @ < MaxAttempts THEN @ + 1 ELSE @]
                /\ Step(r, "enter")
           ELSE End(r) /\ UNCHANGED preauths
        /\ UNCHANGED <<now, transactions, gate, history>>

\* ReservePreAuthAttempt, one atomic UPDATE before any credential is looked up.
ReservePreAuthAttempt(r) ==
    LET f == request[r].form
    IN  /\ request[r].at = "reserve"
        /\ IF MayAttempt(preauths[f], request[r].now)
           THEN /\ preauths' = [preauths EXCEPT ![f].attempts = @ + 1]
                /\ Step(r, "enter")
           ELSE End(r) /\ UNCHANGED preauths
        /\ UNCHANGED <<now, transactions, gate, history>>

\* acquire never waits: without a free place the submission fails, ErrHashBusy.
Acquire(r) ==
    /\ request[r].at \in {"enter", "rehash"}
    /\ IF gate < Places
       THEN /\ gate' = gate + 1
            /\ Step(r, IF request[r].at = "enter" THEN "hashing" ELSE "rehashing")
            /\ checks' = IF request[r].at = "enter"
                         THEN [checks EXCEPT ![request[r].form] = @ + 1] ELSE checks
       ELSE End(r) /\ UNCHANGED <<gate, checks>>
    /\ UNCHANGED <<now, transactions, preauths, opened>>

\* (mutant) the place is given back only when the password was right
BugRelease(r, outcome) ==
    /\ request[r].at \in {"hashing", "rehashing"}
    /\ CASE outcome = "mismatch" -> End(r) /\ gate' = gate
         [] outcome = "rehash"   -> Step(r, "rehash") /\ gate' = gate - 1
         [] OTHER                -> Step(r, "commit") /\ gate' = gate - 1
    /\ UNCHANGED <<now, transactions, preauths, history>>

\* Verify (or Hash, for a registration or a rehash) ends and gives its place
\* back whatever the outcome.  Argon2 is not interrupted by a lost client.
Release(r, outcome) ==
    /\ request[r].at \in {"hashing", "rehashing"}
    /\ outcome = "rehash" => request[r].at = "hashing" /\ request[r].mode = "login"
    /\ gate' = gate - 1
    /\ CASE outcome = "mismatch" -> End(r)
         [] outcome = "rehash"   -> Step(r, "rehash")
         [] OTHER                -> Step(r, "commit")
    /\ UNCHANGED <<now, transactions, preauths, history>>

\* (mutant) ConsumePreAuthSession does not look at consumed_at
BugConsumesAgain(p, time) == p.state # "deleted" /\ time < p.expires

\* ConsumePreAuthSession finds its row.
ConsumesForm(p, time) == p.state = "open" /\ time < p.expires

\* ConsumeAuthTransaction, only for a local transaction.
ConsumesTransaction(t, time) == transactions[t].kind = "local" => Resolves(t, time)

\* CommitLogin and CommitRegistration: one transaction of the database.
Commit(r) ==
    LET f == request[r].form
        t == preauths[f].txn
        time == request[r].now
    IN  /\ request[r].at = "commit"
        /\ ConsumesForm(preauths[f], time) /\ ConsumesTransaction(t, time)
        /\ preauths' = [preauths EXCEPT ![f].state = "consumed"]
        /\ transactions' = IF transactions[t].kind = "local"
                           THEN [transactions EXCEPT ![t].state = "consumed"]
                           ELSE transactions
        /\ opened' = [opened EXCEPT ![f] = @ + 1]
        /\ End(r)
        /\ UNCHANGED <<now, gate, checks>>

\* Every other end before Argon2 work starts or after it is done: the account
\* is disabled or its name taken, the form or transaction is gone, the database
\* fails, or the client goes away.
Fail(r) ==
    /\ request[r].at \in {"reserve", "enter", "rehash", "commit"}
    /\ End(r)
    /\ UNCHANGED <<now, transactions, preauths, gate, history>>

-----------------------------------------------------------------------------
(* The rest of the system, the cleanup loop and the clock.                 *)

\* The authorization flow ends its own transactions, with a code or a rejection.
EndAuthorization(t) ==
    /\ Resolves(t, now) /\ transactions[t].kind # "local"
    /\ transactions' = [transactions EXCEPT ![t].state = "consumed"]
    /\ UNCHANGED <<now, preauths, request, gate, history>>

ExpireAuthTransactions(t) ==
    /\ transactions[t].state = "live" /\ transactions[t].expires <= now
    /\ transactions' = [transactions EXCEPT ![t].state = "expired"]
    /\ UNCHANGED <<now, preauths, request, gate, history>>

DeleteExpiredPreAuthSessions(f) ==
    /\ \/ preauths[f].state = "consumed"
       \/ preauths[f].state = "open" /\ preauths[f].expires <= now
    /\ preauths' = [preauths EXCEPT ![f].state = "deleted"]
    /\ UNCHANGED <<now, transactions, request, gate, history>>

Tick ==
    /\ now < MaxTime
    /\ now' = now + 1
    /\ UNCHANGED <<transactions, preauths, request, gate, history>>

\* The process dies: its submissions and its gate with it.
Restart ==
    /\ \E r \in Request : request[r] # Idle
    /\ request' = [r \in Request |-> Idle]
    /\ gate' = 0
    /\ UNCHANGED <<now, transactions, preauths, history>>

Next ==
    \/ \E t \in Transaction, k \in Kind : CreateVerified(t, k)
    \/ \E f \in Form, m \in Mode, t \in Transaction : Begin(f, m, t)
    \/ \E r \in Request, f \in Form, m \in Mode : Submit(r, f, m)
    \/ \E r \in Request : ReservePreAuthAttempt(r) \/ Acquire(r) \/ Commit(r) \/ Fail(r)
    \/ \E r \in Request, o \in {"match", "rehash", "mismatch"} : Release(r, o)
    \/ \E t \in Transaction : EndAuthorization(t) \/ ExpireAuthTransactions(t)
    \/ \E f \in Form : DeleteExpiredPreAuthSessions(f)
    \/ Tick \/ Restart

\* A handler runs on once it has begun.
Fairness ==
    \A r \in Request :
        WF_vars(\/ ReservePreAuthAttempt(r) \/ Acquire(r) \/ Commit(r) \/ Fail(r)
                \/ \E o \in {"match", "rehash", "mismatch"} : Release(r, o))

Spec == Init /\ [][Next]_vars /\ Fairness

-----------------------------------------------------------------------------
(* Properties.                                                             *)

\* However many submissions of a form run at once, and whatever becomes of
\* them, no more than MaxAttempts passwords are checked against it
\* (ReservePreAuthAttempt: "atomically enforces a small per-form submission
\* budget before credential lookup or Argon2 work begins").
AttemptBudget == \A f \in Form : checks[f] <= MaxAttempts

OpenedBy(t) == {f \in Form : preauths[f] # Absent /\ preauths[f].txn = t /\ opened[f] > 0}

\* Two submissions of one form that both verified their password open one
\* session, not two (ConsumePreAuthSession in CommitLogin and
\* CommitRegistration).  A local transaction shown in several forms opens a
\* session through one of them only, and not at all once the cleanup loop has
\* marked it expired, even for a submission that began in time
\* (ConsumeAuthTransaction).
OpensOnce ==
    /\ TypeOK
    /\ \A f \in Form : opened[f] <= 1
    /\ \A t \in Transaction : transactions[t] # Absent /\ transactions[t].kind = "local" =>
           /\ Cardinality(OpenedBy(t)) <= 1
           /\ transactions[t].state = "expired" => OpenedBy(t) = {}

\* The gate neither leaks places nor grows: places in use are submissions that
\* hash, so a gate that is full opens again (acquire and the deferred release
\* of Hash and Verify).
GateReopens == [](gate <= Places) /\ []<>(gate < Places)
=============================================================================
