------------------------------ MODULE Supervisor ------------------------------
(***************************************************************************)
(* The life of a server process (internal/app/app.go): the checks before it *)
(* listens, the goroutine that serves, the cleanup loop, the handlers of    *)
(* requests, and the supervisor that reacts to a signal or to the end of    *)
(* serving, drains what is in flight and closes the store.                  *)
(*                                                                          *)
(* net/http and pgxpool are external: Serve accepts until its listener      *)
(* fails or is closed; Shutdown closes the listener, waits for Serve to     *)
(* return and for connections to become idle, or for its deadline; Close    *)
(* cuts every connection; the pool's Close refuses new acquisitions and     *)
(* waits for the connections that are held.                                 *)
(***************************************************************************)
EXTENDS Naturals, FiniteSets

CONSTANTS
    Incoming,      \* requests that may arrive
    MaxConns,      \* connections of the pool
    Operations,    \* cleanup operations in a pass
    MaxPasses      \* bound on the passes of the cleanup loop

ASSUME SupervisorAssumption ==
    MaxConns \in Nat \ {0} /\ Operations \in Nat /\ MaxPasses \in Nat \ {0}

VARIABLES
    signalled,   \* ctx is done
    main,        \* where Serve and superviseHTTP are
    result,      \* what superviseHTTP or Serve has decided to return
    ready,       \* the readiness gate
    server,      \* the server's own state
    serving,     \* the goroutine that runs server.Serve
    store,       \* the connection pool
    cleanup,     \* the goroutine of the cleanup loop
    handling,     \* the handlers and what became of their requests
    cut          \* requests whose connection Close has closed

supervisorVars == <<signalled, main, result, ready, server, serving, store, cleanup, handling, cut>>

\* The checks before the supervisor, each with what follows it.
After == [keys |-> "openStore", openStore |-> "migrations", migrations |-> "audit",
          audit |-> "bootstrap", bootstrap |-> "listen", listen |-> "serve"]
Check == DOMAIN After

\* Of a handler: at work, waiting for a connection of the pool, holding one.
InFlight == {"running", "waiting", "holding"}
\* Of a request: refused by a closed pool; lost with its connection or the process.
Ended == {"answered", "refused", "lost"}

SupervisorTypeOK ==
    /\ signalled \in BOOLEAN /\ ready \in BOOLEAN
    /\ main \in Check \cup {"serve", "supervise", "drain", "shutdown", "collect", "cancel", "join",
                        "close", "exited"}
    /\ result \in {"none", "nil", "error"}
    /\ server \in {"up", "shutdown", "closed"}
    /\ serving \in {"off", "starting", "accepting", "closed", "failed"}
    /\ store \in {"none", "open", "closing", "closed"}
    /\ cleanup \in [at : {"off", "idle", "operation", "holding", "done"},
                    left : 0..Operations, passes : 0..MaxPasses, cancelled : BOOLEAN]
    /\ handling \in [Incoming -> {"none"} \cup InFlight \cup Ended]
    /\ cut \subseteq Incoming

SupervisorInit ==
    /\ signalled = FALSE /\ main = "keys" /\ result = "none" /\ ready = FALSE
    /\ server = "up" /\ serving = "off" /\ store = "none"
    /\ cleanup = [at |-> "off", left |-> 0, passes |-> 0, cancelled |-> FALSE]
    /\ handling = [r \in Incoming |-> "none"] /\ cut = {}

\* SIGINT or SIGTERM, at any time.
Signal ==
    /\ main # "exited" /\ ~signalled
    /\ signalled' = TRUE
    /\ UNCHANGED <<main, result, ready, server, serving, store, cleanup, handling, cut>>

-----------------------------------------------------------------------------
(* Serve up to the supervisor.                                             *)

\* A check succeeds.  The last one opens the listener, and starts the cleanup
\* loop and the serving goroutine.
CheckPasses ==
    /\ main \in Check
    /\ main' = After[main]
    /\ store' = IF main = "openStore" THEN "open" ELSE store
    /\ IF main = "listen"
       THEN /\ serving' = "starting"
            /\ cleanup' = [at |-> "operation", left |-> Operations, passes |-> 1, cancelled |-> FALSE]
       ELSE UNCHANGED <<serving, cleanup>>
    /\ UNCHANGED <<signalled, result, ready, server, handling, cut>>

\* A check fails, by itself or because ctx is done; the deferred Close follows
\* if the store is open.  A signal while listening is not an error.
CheckFails ==
    /\ main \in Check
    /\ main' = IF store = "none" THEN "exited" ELSE "close"
    /\ \/ result' = "error"
       \/ signalled /\ main = "listen" /\ result' = "nil"
    /\ UNCHANGED <<signalled, ready, server, serving, store, cleanup, handling, cut>>

-----------------------------------------------------------------------------
(* The serving goroutine and the handlers.                                 *)

\* Serve begins, or finds that the server was shut down before it began.
ServeStarts ==
    /\ serving = "starting"
    /\ serving' = IF server = "up" THEN "accepting" ELSE "closed"
    /\ UNCHANGED <<signalled, main, result, ready, server, store, cleanup, handling, cut>>

\* Serve returns: its listener failed, or was closed by Shutdown or Close.
ServeReturns ==
    /\ serving = "accepting"
    /\ \/ server = "up" /\ serving' = "failed"
       \/ server # "up" /\ serving' = "closed"
    /\ UNCHANGED <<signalled, main, result, ready, server, store, cleanup, handling, cut>>

Accept(r) ==
    /\ serving = "accepting" /\ server = "up" /\ handling[r] = "none"
    /\ handling' = [handling EXCEPT ![r] = "running"]
    /\ UNCHANGED <<signalled, main, result, ready, server, serving, store, cleanup, cut>>

Held == Cardinality({r \in Incoming : handling[r] = "holding"})
        + (IF cleanup.at = "holding" THEN 1 ELSE 0)
Free == store = "open" /\ Held < MaxConns

Handler(r, to) ==
    /\ handling' = [handling EXCEPT ![r] = to]
    /\ UNCHANGED <<signalled, main, result, ready, server, serving, store, cleanup, cut>>

\* A query or a transaction asks for a connection ...
AskConn(r) == main # "exited" /\ handling[r] = "running" /\ Handler(r, "waiting")

\* ... and has it when one is free; a closed pool refuses it, a request whose
\* connection is gone gives up.
AcquireConn(r) ==
    /\ main # "exited" /\ handling[r] = "waiting"
    /\ \/ Free /\ Handler(r, "holding")
       \/ store # "open" /\ Handler(r, IF r \in cut THEN "lost" ELSE "refused")
       \/ r \in cut /\ Handler(r, "lost")

\* (mutant) a query inside the transaction asks the pool for a second connection
BugReleaseConn(r) == main # "exited" /\ handling[r] = "holding" /\ Free /\ Handler(r, "running")

\* inTx: every query of a transaction uses the transaction's connection.
ReleaseConn(r) == main # "exited" /\ handling[r] = "holding" /\ Handler(r, "running")

Answer(r) ==
    /\ main # "exited" /\ handling[r] = "running"
    /\ Handler(r, IF r \in cut THEN "lost" ELSE "answered")

-----------------------------------------------------------------------------
(* The cleanup loop.  Its context ends with ctx and with cancelCleanup.     *)

CleanupStopped == signalled \/ cleanup.cancelled

\* runCleanupOperation: with a context that is done, or when no connection is
\* free before its own deadline, nothing is acquired.
Operation ==
    /\ main # "exited"
    /\ \/ /\ cleanup.at = "operation" /\ cleanup.left > 0 /\ ~CleanupStopped /\ Free
          /\ cleanup' = [cleanup EXCEPT !.at = "holding"]
       \/ /\ cleanup.at = "operation" /\ cleanup.left > 0    \* cancelled or timed out
          /\ cleanup' = [cleanup EXCEPT !.left = @ - 1]
       \/ /\ cleanup.at = "holding"     \* done, failed or cancelled
          /\ cleanup' = [cleanup EXCEPT !.at = "operation", !.left = @ - 1]
       \/ /\ cleanup.at = "operation" /\ cleanup.left = 0
          /\ cleanup' = [cleanup EXCEPT !.at = "idle"]
    /\ UNCHANGED <<signalled, main, result, ready, server, serving, store, handling, cut>>

\* The ticker fires; the select may prefer it to a context that is done.
Pass ==
    /\ main # "exited"
    /\ cleanup.at = "idle" /\ cleanup.passes < MaxPasses
    /\ cleanup' = [cleanup EXCEPT !.at = "operation", !.left = Operations, !.passes = @ + 1]
    /\ UNCHANGED <<signalled, main, result, ready, server, serving, store, handling, cut>>

CleanupEnds ==
    /\ cleanup.at = "idle" /\ CleanupStopped
    /\ cleanup' = [cleanup EXCEPT !.at = "done"]
    /\ UNCHANGED <<signalled, main, result, ready, server, serving, store, handling, cut>>

-----------------------------------------------------------------------------
(* superviseHTTP.                                                          *)

\* The gate opens beside the goroutine that serves, which may have accepted
\* requests, or have failed, by then.
BecomeReady ==
    /\ main = "serve"
    /\ main' = "supervise" /\ ready' = TRUE
    /\ UNCHANGED <<signalled, result, server, serving, store, cleanup, handling, cut>>

\* The select on serveErrors: serving ended by itself, nothing is drained.
ServeErrorSeen ==
    /\ main = "supervise" /\ serving \in {"closed", "failed"}
    /\ main' = "cancel" /\ ready' = FALSE
    /\ result' = IF serving = "closed" THEN "nil" ELSE "error"
    /\ UNCHANGED <<signalled, server, serving, store, cleanup, handling, cut>>

\* (mutant) the gate stays open on a signal
BugSignalSeen ==
    /\ main = "supervise" /\ signalled
    /\ main' = "drain"
    /\ UNCHANGED <<signalled, result, ready, server, serving, store, cleanup, handling, cut>>

\* The select on ctx.Done: the gate is closed; the server still accepts ...
SignalSeen ==
    /\ main = "supervise" /\ signalled
    /\ main' = "drain" /\ ready' = FALSE
    /\ UNCHANGED <<signalled, result, server, serving, store, cleanup, handling, cut>>

\* ... until Shutdown is called, which closes its listener.
CallShutdown ==
    /\ main = "drain"
    /\ main' = "shutdown" /\ server' = "shutdown"
    /\ UNCHANGED <<signalled, result, ready, serving, store, cleanup, handling, cut>>

Drained == serving # "accepting" /\ \A r \in Incoming : handling[r] \notin InFlight

\* (mutant) Shutdown is given no time to drain and its error is not looked at
BugShutdownReturns ==
    /\ main = "shutdown"
    /\ main' = "collect"
    /\ UNCHANGED <<signalled, result, ready, server, serving, store, cleanup, handling, cut>>

\* Shutdown returns: drained; or drained with an error of closing a listener,
\* or too late, and then Close cuts what is left.
ShutdownReturns ==
    /\ main = "shutdown"
    /\ main' = "collect"
    /\ \/ Drained /\ UNCHANGED <<result, server, cut>>
       \/ /\ serving # "accepting"
          /\ server' = "closed" /\ result' = "error"
          /\ cut' = {r \in Incoming : handling[r] \in InFlight}
    /\ UNCHANGED <<signalled, ready, serving, store, cleanup, handling>>

\* The receive from serveErrors after Shutdown.
Collect ==
    /\ main = "collect" /\ serving \in {"closed", "failed"}
    /\ main' = "cancel"
    /\ result' = IF result = "error" \/ serving = "failed" THEN "error" ELSE "nil"
    /\ UNCHANGED <<signalled, ready, server, serving, store, cleanup, handling, cut>>

-----------------------------------------------------------------------------
(* The end of Serve.                                                       *)

\* (mutant) the store is closed without waiting for the cleanup loop
BugCancelCleanup ==
    /\ main = "cancel"
    /\ main' = "close" /\ cleanup' = [cleanup EXCEPT !.cancelled = TRUE]
    /\ UNCHANGED <<signalled, result, ready, server, serving, store, handling, cut>>

CancelCleanup ==
    /\ main = "cancel"
    /\ main' = "join" /\ cleanup' = [cleanup EXCEPT !.cancelled = TRUE]
    /\ UNCHANGED <<signalled, result, ready, server, serving, store, handling, cut>>

AwaitCleanup ==
    /\ main = "join" /\ cleanup.at = "done"
    /\ main' = "close"
    /\ UNCHANGED <<signalled, result, ready, server, serving, store, cleanup, handling, cut>>

\* The deferred store.Close, which waits for the connections that are held,
\* and the end of the process, which takes every goroutine with it.
CloseStore ==
    /\ main = "close"
    /\ \/ /\ store = "open" /\ store' = "closing"
          /\ UNCHANGED <<main, handling>>
       \/ /\ store = "closing" /\ Held = 0
          /\ store' = "closed" /\ main' = "exited"
          /\ handling' = [r \in Incoming |->
                 IF handling[r] \in InFlight THEN "lost" ELSE handling[r]]
    /\ UNCHANGED <<signalled, result, ready, server, serving, cleanup, cut>>

-----------------------------------------------------------------------------
Main == CheckPasses \/ CheckFails \/ BecomeReady \/ ServeErrorSeen \/ SignalSeen
        \/ CallShutdown \/ ShutdownReturns \/ Collect \/ CancelCleanup \/ AwaitCleanup \/ CloseStore

SupervisorNext ==
    \/ Signal \/ Main
    \/ ServeStarts \/ ServeReturns
    \/ \E r \in Incoming : Accept(r) \/ AskConn(r) \/ AcquireConn(r) \/ ReleaseConn(r) \/ Answer(r)
    \/ Operation \/ Pass \/ CleanupEnds

\* Every goroutine that can run does run.  A handler makes finitely many
\* queries, each bounded by its context, and hashing is finite.  The pool serves
\* those who wait in their order.  The runtime's select picks at random, so it
\* does not prefer the ticker for ever.
SupervisorFairness ==
    /\ WF_supervisorVars(Main) /\ WF_supervisorVars(ServeStarts)
    /\ WF_supervisorVars(ServeReturns /\ server # "up")
    /\ \A r \in Incoming : /\ SF_supervisorVars(AcquireConn(r))
                           /\ WF_supervisorVars(ReleaseConn(r))
                           /\ SF_supervisorVars(Answer(r))
    /\ WF_supervisorVars(Operation) /\ SF_supervisorVars(CleanupEnds)

SupervisorSpec == SupervisorInit /\ [][SupervisorNext]_supervisorVars /\ SupervisorFairness

-----------------------------------------------------------------------------
(* Properties.                                                             *)

\* The order of shutting down (Serve, superviseHTTP): the probe says not ready
\* before connections are turned away; the store is closed under no cleanup
\* operation; and a process that returns no error has left no accepted request
\* without its answer and refused none for a closed store.
ShutdownOrder ==
    /\ server # "up" => ~ready
    /\ store \in {"closing", "closed"} => cleanup.at \in {"off", "done"}
    /\ main = "exited" => store \in {"none", "closed"}
    /\ main = "exited" /\ result = "nil" =>
           \A r \in Incoming : handling[r] \in {"none", "answered"}

\* A signal ends the process, and so does the end of serving; a request that
\* was accepted ends too.  With every connection of the pool taken, a deadline
\* that passes and the cleanup loop at work, nobody waits for a goroutine that
\* waits for them (superviseHTTP, Serve, the store's transactions).
NothingHangs ==
    /\ signalled \/ serving = "failed" ~> main = "exited"
    /\ \A r \in Incoming : handling[r] \in InFlight ~> handling[r] \in Ended
=============================================================================
