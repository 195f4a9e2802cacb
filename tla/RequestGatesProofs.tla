------------------------- MODULE RequestGatesProofs -------------------------
(***************************************************************************)
(* Proofs about the two places where a request may have to wait or may be  *)
(* turned away: LoginForm, for any number of forms, transactions and       *)
(* concurrent submissions, any attempt budget and any capacity of the      *)
(* password gate; and Supervisor, for any number of requests, connections  *)
(* of the pool, cleanup operations and passes.                             *)
(*                                                                         *)
(* ShutdownOrder is not inductive.  SupervisorInv follows the process from *)
(* its checks to its end: nothing serves before the listener is open; the  *)
(* store is open from its check to the deferred Close; a server that was   *)
(* not told to stop cannot have been closed; and unless an error is going  *)
(* to be returned, no request was cut, and none is left in flight or can   *)
(* still come once the supervisor has been left.                           *)
(***************************************************************************)
EXTENDS LoginForm, Supervisor, TLAPS

-----------------------------------------------------------------------------
(* Supervisor.                                                             *)

\* Once superviseHTTP has been left, or was never reached.
Leaving == {"collect", "cancel", "join", "close", "exited"}

\* Before the listener is open nothing serves and nobody has asked for anything.
BeforeListening ==
    main \in Check =>
        /\ server = "up" /\ serving = "off" /\ ~ready
        /\ cleanup.at = "off" /\ result = "none" /\ cut = {}
        /\ \A r \in Incoming : handling[r] = "none"

\* Where the store is opened, and that only the deferred Close closes it.
StoreLife ==
    /\ main \in Check => store = IF main \in {"keys", "openStore"} THEN "none" ELSE "open"
    /\ main \in {"serve", "supervise", "drain", "shutdown", "collect", "cancel", "join"} =>
          store = "open"
    /\ main = "exited" => store \in {"none", "closed"}
    /\ main \in {"close", "exited"} => cleanup.at \in {"off", "done"}

\* Readiness and the server's state follow the supervisor.
ReadyLife ==
    /\ ready => main = "supervise"
    /\ main \in {"serve", "supervise", "drain"} => server = "up"
    /\ main = "shutdown" => server = "shutdown"
    /\ main \in {"serve", "supervise", "drain", "shutdown"} => result = "none"
    /\ server = "up" => serving # "closed"

\* Unless an error is going to be returned, no request was cut, lost or refused,
\* and once the supervisor has been left none is in flight and none can come.
NobodyDropped ==
    result # "error" =>
        /\ cut = {}
        /\ \A r \in Incoming : handling[r] \notin {"refused", "lost"}
        /\ main \in Leaving =>
             /\ server # "up" \/ serving = "off"
             /\ \A r \in Incoming : handling[r] \notin InFlight

\* An operation that holds a connection has not been counted off yet.
HoldingCounts == cleanup.at = "holding" => cleanup.left > 0

SupervisorInv ==
    /\ SupervisorTypeOK /\ HoldingCounts
    /\ BeforeListening /\ StoreLife /\ ReadyLife /\ NobodyDropped

CleanupState == [at : {"off", "idle", "operation", "holding", "done"},
                 left : 0..Operations, passes : 0..MaxPasses, cancelled : BOOLEAN]

\* The record of the cleanup loop: what a change of one or more fields leaves.
LEMMA CleanupRecord ==
    ASSUME NEW c \in CleanupState
    PROVE  /\ c.at \in {"off", "idle", "operation", "holding", "done"}
           /\ c.left \in 0..Operations /\ c.passes \in 0..MaxPasses /\ c.cancelled \in BOOLEAN
           /\ c = [at |-> c.at, left |-> c.left, passes |-> c.passes, cancelled |-> c.cancelled]
BY DEF CleanupState

\* An operation counts down what is left of the pass, never below zero.
LEMMA OperationKeepsType ==
    ASSUME SupervisorInv, Operation
    PROVE  cleanup' \in CleanupState
<1>1. cleanup \in CleanupState
  BY DEF SupervisorInv, SupervisorTypeOK, CleanupState
<1>2. cleanup.left \in 0..Operations
  BY <1>1, CleanupRecord
<1>3. CASE cleanup' = [cleanup EXCEPT !.at = "holding"]
  BY <1>1, <1>3 DEF CleanupState
<1>4. CASE cleanup' = [cleanup EXCEPT !.at = "idle"]
  BY <1>1, <1>4 DEF CleanupState
<1>5. ASSUME cleanup.left > 0 PROVE cleanup.left - 1 \in 0..Operations
  BY <1>2, <1>5, SupervisorAssumption
<1>6. CASE cleanup.left > 0 /\ cleanup' = [cleanup EXCEPT !.left = @ - 1]
  BY <1>1, <1>5, <1>6 DEF CleanupState
<1>7. CASE cleanup.left > 0 /\ cleanup' = [cleanup EXCEPT !.at = "operation", !.left = @ - 1]
  BY <1>1, <1>5, <1>7, Zenon DEF CleanupState
<1>8. QED
  BY <1>3, <1>4, <1>6, <1>7 DEF SupervisorInv, HoldingCounts, Operation

\* A pass begins with every operation ahead of it.
LEMMA PassKeepsType ==
    ASSUME SupervisorInv, Pass
    PROVE  cleanup' \in CleanupState
<1>1. cleanup \in CleanupState /\ cleanup.passes < MaxPasses
  BY DEF SupervisorInv, SupervisorTypeOK, CleanupState, Pass
<1>2. Operations \in 0..Operations /\ cleanup.passes + 1 \in 0..MaxPasses
  BY <1>1, SupervisorAssumption DEF CleanupState
<1>3. cleanup' = [cleanup EXCEPT !.at = "operation", !.left = Operations, !.passes = @ + 1]
  BY Zenon DEF Pass
<1>4. QED
  BY <1>1, <1>2, <1>3, Zenon DEF CleanupState

\* The last check starts the loop in its first pass.
LEMMA ListenStartsCleanup ==
    ASSUME SupervisorInv, CheckPasses
    PROVE  cleanup' \in CleanupState
<1>1. CASE main # "listen"
  BY <1>1 DEF SupervisorInv, SupervisorTypeOK, CleanupState, CheckPasses
<1>2. CASE main = "listen"
  <2>1. Operations \in 0..Operations /\ 1 \in 0..MaxPasses
    BY SupervisorAssumption
  <2>2. cleanup' = [at |-> "operation", left |-> Operations, passes |-> 1, cancelled |-> FALSE]
    BY <1>2, Zenon DEF CheckPasses
  <2>3. QED
    BY <2>1, <2>2 DEF CleanupState
<1>3. QED
  BY <1>1, <1>2, Zenon

\* A signal only sets ctx done.
LEMMA SignalKeeps ==
    ASSUME SupervisorInv, Signal
    PROVE  SupervisorInv'
<1>1. SupervisorTypeOK'
  BY DEF SupervisorInv, SupervisorTypeOK, Signal
<1>2. HoldingCounts'
  BY DEF SupervisorInv, HoldingCounts, Signal
<1>3. BeforeListening'
  BY DEF SupervisorInv, BeforeListening, Signal
<1>4. StoreLife'
  BY DEF SupervisorInv, StoreLife, Signal
<1>5. ReadyLife'
  BY DEF SupervisorInv, ReadyLife, Signal
<1>6. NobodyDropped'
  BY DEF SupervisorInv, NobodyDropped, Signal
<1>7. QED
  BY <1>1, <1>2, <1>3, <1>4, <1>5, <1>6, Zenon DEF SupervisorInv

\* A check that passes leads to the next; the last one starts the loops, with the
\* store open and the gate still closed.
LEMMA CheckPassesKeeps ==
    ASSUME SupervisorInv, CheckPasses
    PROVE  SupervisorInv'
<1>1. cleanup' \in CleanupState
  BY ListenStartsCleanup, Zenon
<1>2. main' \in Check \cup {"serve"}
  BY DEF CheckPasses, Check, After
<1>3. SupervisorTypeOK'
  BY <1>1, <1>2, Zenon DEF CleanupState, SupervisorInv, SupervisorTypeOK, CheckPasses
<1>4. HoldingCounts'
  BY DEF SupervisorInv, HoldingCounts, CheckPasses
<1>5. BeforeListening'
  BY DEF SupervisorInv, BeforeListening, CheckPasses, Check, After
<1>6. StoreLife'
  BY DEF SupervisorInv, StoreLife, CheckPasses, Check, After
<1>7. ReadyLife'
  BY DEF SupervisorInv, BeforeListening, ReadyLife, CheckPasses, Check, After
<1>8. NobodyDropped'
  BY DEF SupervisorInv, NobodyDropped, CheckPasses, Check, After, Leaving
<1>9. QED
  BY <1>3, <1>4, <1>5, <1>6, <1>7, <1>8, Zenon DEF SupervisorInv

\* A check that fails returns before anything was accepted.
LEMMA CheckFailsKeeps ==
    ASSUME SupervisorInv, CheckFails
    PROVE  SupervisorInv'
<1>1. SupervisorTypeOK'
  BY DEF SupervisorInv, SupervisorTypeOK, CheckFails
<1>2. HoldingCounts'
  BY DEF SupervisorInv, HoldingCounts, CheckFails
<1>3. BeforeListening'
  BY DEF SupervisorInv, BeforeListening, CheckFails, Check, After
<1>4. StoreLife'
  BY DEF SupervisorInv, BeforeListening, StoreLife, CheckFails, Check, After
<1>5. ReadyLife'
  BY DEF SupervisorInv, BeforeListening, ReadyLife, CheckFails
<1>6. NobodyDropped'
  BY DEF SupervisorInv, BeforeListening, NobodyDropped, CheckFails, InFlight
<1>7. QED
  BY <1>1, <1>2, <1>3, <1>4, <1>5, <1>6, Zenon DEF SupervisorInv

\* The serving goroutine accepts only while the server is up.
LEMMA ServeStartsKeeps ==
    ASSUME SupervisorInv, ServeStarts
    PROVE  SupervisorInv'
<1>1. SupervisorTypeOK'
  BY DEF SupervisorInv, SupervisorTypeOK, ServeStarts
<1>2. HoldingCounts'
  BY DEF SupervisorInv, HoldingCounts, ServeStarts
<1>3. BeforeListening'
  BY DEF SupervisorInv, BeforeListening, ServeStarts
<1>4. StoreLife'
  BY DEF SupervisorInv, StoreLife, ServeStarts
<1>5. ReadyLife'
  BY DEF SupervisorInv, ReadyLife, ServeStarts
<1>6. NobodyDropped'
  BY DEF SupervisorInv, NobodyDropped, ServeStarts
<1>7. QED
  BY <1>1, <1>2, <1>3, <1>4, <1>5, <1>6, Zenon DEF SupervisorInv

\* It ends as closed only after Shutdown or Close.
LEMMA ServeReturnsKeeps ==
    ASSUME SupervisorInv, ServeReturns
    PROVE  SupervisorInv'
<1>1. SupervisorTypeOK'
  BY DEF SupervisorInv, SupervisorTypeOK, ServeReturns
<1>2. HoldingCounts'
  BY DEF SupervisorInv, HoldingCounts, ServeReturns
<1>3. BeforeListening'
  BY DEF SupervisorInv, BeforeListening, ServeReturns
<1>4. StoreLife'
  BY DEF SupervisorInv, StoreLife, ServeReturns
<1>5. ReadyLife'
  BY DEF SupervisorInv, ReadyLife, ServeReturns
<1>6. NobodyDropped'
  BY DEF SupervisorInv, NobodyDropped, ServeReturns
<1>7. QED
  BY <1>1, <1>2, <1>3, <1>4, <1>5, <1>6, Zenon DEF SupervisorInv

\* Only a server that is up accepts, so the supervisor has not been left without
\* an error.
LEMMA AcceptKeeps ==
    ASSUME SupervisorInv, NEW r \in Incoming, Accept(r)
    PROVE  SupervisorInv'
<1>1. SupervisorTypeOK'
  BY DEF SupervisorInv, SupervisorTypeOK, Accept, InFlight
<1>2. HoldingCounts'
  BY DEF SupervisorInv, HoldingCounts, Accept
<1>3. BeforeListening'
  BY DEF SupervisorInv, BeforeListening, Accept
<1>4. StoreLife'
  BY DEF SupervisorInv, StoreLife, Accept
<1>5. ReadyLife'
  BY DEF SupervisorInv, ReadyLife, Accept
<1>6. NobodyDropped'
  BY DEF SupervisorInv, NobodyDropped, Accept
<1>7. QED
  BY <1>1, <1>2, <1>3, <1>4, <1>5, <1>6, Zenon DEF SupervisorInv

\* A handler that asks for a connection is in flight already.
LEMMA AskConnKeeps ==
    ASSUME SupervisorInv, NEW r \in Incoming, AskConn(r)
    PROVE  SupervisorInv'
<1>1. SupervisorTypeOK'
  BY DEF SupervisorInv, SupervisorTypeOK, AskConn, Handler, InFlight
<1>2. HoldingCounts'
  BY DEF SupervisorInv, HoldingCounts, AskConn, Handler
<1>3. BeforeListening'
  BY DEF SupervisorInv, BeforeListening, AskConn, Handler
<1>4. StoreLife'
  BY DEF SupervisorInv, StoreLife, AskConn, Handler
<1>5. ReadyLife'
  BY DEF SupervisorInv, ReadyLife, AskConn, Handler
<1>6. NobodyDropped'
  BY DEF SupervisorInv, NobodyDropped, AskConn, Handler, InFlight
<1>7. QED
  BY <1>1, <1>2, <1>3, <1>4, <1>5, <1>6, Zenon DEF SupervisorInv

\* A pool is not open, or a connection is cut, only when an error is returned.
LEMMA AcquireConnKeeps ==
    ASSUME SupervisorInv, NEW r \in Incoming, AcquireConn(r)
    PROVE  SupervisorInv'
<1>1. SupervisorTypeOK'
  BY DEF SupervisorInv, SupervisorTypeOK, AcquireConn, Handler, InFlight, Ended
<1>2. HoldingCounts'
  BY DEF SupervisorInv, HoldingCounts, AcquireConn, Handler
<1>3. BeforeListening'
  BY DEF SupervisorInv, BeforeListening, AcquireConn, Handler
<1>4. StoreLife'
  BY DEF SupervisorInv, StoreLife, AcquireConn, Handler
<1>5. ReadyLife'
  BY DEF SupervisorInv, ReadyLife, AcquireConn, Handler
<1>6. NobodyDropped'
  BY DEF SupervisorInv, SupervisorTypeOK, BeforeListening, StoreLife, NobodyDropped,
         AcquireConn, Handler, InFlight, Leaving
<1>7. QED
  BY <1>1, <1>2, <1>3, <1>4, <1>5, <1>6, Zenon DEF SupervisorInv

\* A handler that gives its connection back is in flight still.
LEMMA ReleaseConnKeeps ==
    ASSUME SupervisorInv, NEW r \in Incoming, ReleaseConn(r)
    PROVE  SupervisorInv'
<1>1. SupervisorTypeOK'
  BY DEF SupervisorInv, SupervisorTypeOK, ReleaseConn, Handler, InFlight
<1>2. HoldingCounts'
  BY DEF SupervisorInv, HoldingCounts, ReleaseConn, Handler
<1>3. BeforeListening'
  BY DEF SupervisorInv, BeforeListening, ReleaseConn, Handler
<1>4. StoreLife'
  BY DEF SupervisorInv, StoreLife, ReleaseConn, Handler
<1>5. ReadyLife'
  BY DEF SupervisorInv, ReadyLife, ReleaseConn, Handler
<1>6. NobodyDropped'
  BY DEF SupervisorInv, NobodyDropped, ReleaseConn, Handler, InFlight
<1>7. QED
  BY <1>1, <1>2, <1>3, <1>4, <1>5, <1>6, Zenon DEF SupervisorInv

\* A handler loses its request only when its connection was cut.
LEMMA AnswerKeeps ==
    ASSUME SupervisorInv, NEW r \in Incoming, Answer(r)
    PROVE  SupervisorInv'
<1>1. SupervisorTypeOK'
  BY DEF SupervisorInv, SupervisorTypeOK, Answer, Handler, Ended
<1>2. HoldingCounts'
  BY DEF SupervisorInv, HoldingCounts, Answer, Handler
<1>3. BeforeListening'
  BY DEF SupervisorInv, BeforeListening, Answer, Handler
<1>4. StoreLife'
  BY DEF SupervisorInv, StoreLife, Answer, Handler
<1>5. ReadyLife'
  BY DEF SupervisorInv, ReadyLife, Answer, Handler
<1>6. NobodyDropped'
  BY DEF SupervisorInv, NobodyDropped, Answer, Handler, InFlight
<1>7. QED
  BY <1>1, <1>2, <1>3, <1>4, <1>5, <1>6, Zenon DEF SupervisorInv

\* A cleanup operation changes the loop only.
LEMMA OperationKeeps ==
    ASSUME SupervisorInv, Operation
    PROVE  SupervisorInv'
<1>1. cleanup' \in CleanupState
  BY OperationKeepsType, Zenon
<1>2. SupervisorTypeOK'
  BY <1>1 DEF CleanupState, SupervisorInv, SupervisorTypeOK, Operation
<1>3. HoldingCounts'
  BY Zenon DEF SupervisorInv, SupervisorTypeOK, HoldingCounts, Operation
<1>4. BeforeListening'
  BY DEF SupervisorInv, BeforeListening, Operation
<1>5. StoreLife'
  BY DEF SupervisorInv, StoreLife, Operation
<1>6. ReadyLife'
  BY DEF SupervisorInv, ReadyLife, Operation
<1>7. NobodyDropped'
  BY DEF SupervisorInv, NobodyDropped, Operation
<1>8. QED
  BY <1>2, <1>3, <1>4, <1>5, <1>6, <1>7, Zenon DEF SupervisorInv

\* So does a new pass.
LEMMA PassKeeps ==
    ASSUME SupervisorInv, Pass
    PROVE  SupervisorInv'
<1>1. cleanup' \in CleanupState
  BY PassKeepsType, Zenon
<1>2. SupervisorTypeOK'
  BY <1>1 DEF CleanupState, SupervisorInv, SupervisorTypeOK, Pass
<1>3. HoldingCounts'
  BY DEF SupervisorInv, HoldingCounts, Pass
<1>4. BeforeListening'
  BY DEF SupervisorInv, BeforeListening, Pass
<1>5. StoreLife'
  BY DEF SupervisorInv, StoreLife, Pass
<1>6. ReadyLife'
  BY DEF SupervisorInv, ReadyLife, Pass
<1>7. NobodyDropped'
  BY DEF SupervisorInv, NobodyDropped, Pass
<1>8. QED
  BY <1>2, <1>3, <1>4, <1>5, <1>6, <1>7, Zenon DEF SupervisorInv

\* And the end of the loop.
LEMMA CleanupEndsKeeps ==
    ASSUME SupervisorInv, CleanupEnds
    PROVE  SupervisorInv'
<1>1. SupervisorTypeOK'
  BY DEF SupervisorInv, SupervisorTypeOK, CleanupEnds
<1>2. HoldingCounts'
  BY DEF SupervisorInv, HoldingCounts, CleanupEnds
<1>3. BeforeListening'
  BY DEF SupervisorInv, BeforeListening, CleanupEnds
<1>4. StoreLife'
  BY DEF SupervisorInv, StoreLife, CleanupEnds
<1>5. ReadyLife'
  BY DEF SupervisorInv, ReadyLife, CleanupEnds
<1>6. NobodyDropped'
  BY DEF SupervisorInv, NobodyDropped, CleanupEnds
<1>7. QED
  BY <1>1, <1>2, <1>3, <1>4, <1>5, <1>6, Zenon DEF SupervisorInv

\* The gate opens while the server is up.
LEMMA BecomeReadyKeeps ==
    ASSUME SupervisorInv, BecomeReady
    PROVE  SupervisorInv'
<1>1. SupervisorTypeOK'
  BY ZenonT(40) DEF SupervisorInv, SupervisorTypeOK, BecomeReady
<1>2. HoldingCounts'
  BY DEF SupervisorInv, HoldingCounts, BecomeReady
<1>3. BeforeListening'
  BY DEF SupervisorInv, BeforeListening, BecomeReady, Check, After
<1>4. StoreLife'
  BY DEF SupervisorInv, StoreLife, BecomeReady
<1>5. ReadyLife'
  BY DEF SupervisorInv, ReadyLife, BecomeReady
<1>6. NobodyDropped'
  BY DEF SupervisorInv, NobodyDropped, BecomeReady, Leaving
<1>7. QED
  BY <1>1, <1>2, <1>3, <1>4, <1>5, <1>6, Zenon DEF SupervisorInv

\* Serving that ended by itself has failed: the server was not told to stop.
LEMMA ServeErrorSeenKeeps ==
    ASSUME SupervisorInv, ServeErrorSeen
    PROVE  SupervisorInv'
<1>1. SupervisorTypeOK'
  BY Zenon DEF SupervisorInv, SupervisorTypeOK, ServeErrorSeen
<1>2. HoldingCounts'
  BY DEF SupervisorInv, HoldingCounts, ServeErrorSeen
<1>3. BeforeListening'
  BY DEF SupervisorInv, BeforeListening, ServeErrorSeen, Check, After
<1>4. StoreLife'
  BY DEF SupervisorInv, StoreLife, ServeErrorSeen
<1>5. ReadyLife'
  BY DEF SupervisorInv, ReadyLife, ServeErrorSeen
<1>6. NobodyDropped'
  BY DEF SupervisorInv, ReadyLife, NobodyDropped, ServeErrorSeen
<1>7. QED
  BY <1>1, <1>2, <1>3, <1>4, <1>5, <1>6, Zenon DEF SupervisorInv

\* A signal closes the gate; the server is still up.
LEMMA SignalSeenKeeps ==
    ASSUME SupervisorInv, SignalSeen
    PROVE  SupervisorInv'
<1>1. SupervisorTypeOK'
  BY ZenonT(40) DEF SupervisorInv, SupervisorTypeOK, SignalSeen
<1>2. HoldingCounts'
  BY DEF SupervisorInv, HoldingCounts, SignalSeen
<1>3. BeforeListening'
  BY DEF SupervisorInv, BeforeListening, SignalSeen, Check, After
<1>4. StoreLife'
  BY DEF SupervisorInv, StoreLife, SignalSeen
<1>5. ReadyLife'
  BY DEF SupervisorInv, ReadyLife, SignalSeen
<1>6. NobodyDropped'
  BY DEF SupervisorInv, NobodyDropped, SignalSeen, Leaving
<1>7. QED
  BY <1>1, <1>2, <1>3, <1>4, <1>5, <1>6, Zenon DEF SupervisorInv

\* Shutdown closes the listener of a server that is not ready any more.
LEMMA CallShutdownKeeps ==
    ASSUME SupervisorInv, CallShutdown
    PROVE  SupervisorInv'
<1>1. SupervisorTypeOK'
  BY ZenonT(40) DEF SupervisorInv, SupervisorTypeOK, CallShutdown
<1>2. HoldingCounts'
  BY DEF SupervisorInv, HoldingCounts, CallShutdown
<1>3. BeforeListening'
  BY DEF SupervisorInv, BeforeListening, CallShutdown, Check, After
<1>4. StoreLife'
  BY DEF SupervisorInv, StoreLife, CallShutdown
<1>5. ReadyLife'
  BY DEF SupervisorInv, ReadyLife, CallShutdown
<1>6. NobodyDropped'
  BY DEF SupervisorInv, NobodyDropped, CallShutdown, Leaving
<1>7. QED
  BY <1>1, <1>2, <1>3, <1>4, <1>5, <1>6, Zenon DEF SupervisorInv

\* Shutdown returns drained, or Close cuts what is left and an error is kept.
LEMMA ShutdownReturnsKeeps ==
    ASSUME SupervisorInv, ShutdownReturns
    PROVE  SupervisorInv'
<1>1. SupervisorTypeOK'
  BY DEF SupervisorInv, SupervisorTypeOK, ShutdownReturns
<1>2. HoldingCounts'
  BY DEF SupervisorInv, HoldingCounts, ShutdownReturns
<1>3. BeforeListening'
  BY DEF SupervisorInv, BeforeListening, ShutdownReturns, Check, After
<1>4. StoreLife'
  BY DEF SupervisorInv, StoreLife, ShutdownReturns
<1>5. ReadyLife'
  BY DEF SupervisorInv, ReadyLife, ShutdownReturns
<1>6. NobodyDropped'
  BY DEF SupervisorInv, ReadyLife, NobodyDropped, ShutdownReturns, Drained
<1>7. QED
  BY <1>1, <1>2, <1>3, <1>4, <1>5, <1>6, Zenon DEF SupervisorInv

\* The receive from serveErrors keeps the error of Shutdown.
LEMMA CollectKeeps ==
    ASSUME SupervisorInv, Collect
    PROVE  SupervisorInv'
<1>1. SupervisorTypeOK'
  BY DEF SupervisorInv, SupervisorTypeOK, Collect
<1>2. HoldingCounts'
  BY DEF SupervisorInv, HoldingCounts, Collect
<1>3. BeforeListening'
  BY DEF SupervisorInv, BeforeListening, Collect, Check, After
<1>4. StoreLife'
  BY DEF SupervisorInv, StoreLife, Collect
<1>5. ReadyLife'
  BY DEF SupervisorInv, ReadyLife, Collect
<1>6. NobodyDropped'
  BY DEF SupervisorInv, NobodyDropped, Collect, Leaving
<1>7. QED
  BY <1>1, <1>2, <1>3, <1>4, <1>5, <1>6, Zenon DEF SupervisorInv

\* The loop is told to stop.
LEMMA CancelCleanupKeeps ==
    ASSUME SupervisorInv, CancelCleanup
    PROVE  SupervisorInv'
<1>1. SupervisorTypeOK'
  BY Zenon DEF SupervisorInv, SupervisorTypeOK, CancelCleanup
<1>2. HoldingCounts'
  BY DEF SupervisorInv, HoldingCounts, CancelCleanup
<1>3. BeforeListening'
  BY DEF SupervisorInv, BeforeListening, CancelCleanup, Check, After
<1>4. StoreLife'
  BY DEF SupervisorInv, StoreLife, CancelCleanup
<1>5. ReadyLife'
  BY DEF SupervisorInv, ReadyLife, CancelCleanup
<1>6. NobodyDropped'
  BY DEF SupervisorInv, NobodyDropped, CancelCleanup, Leaving
<1>7. QED
  BY <1>1, <1>2, <1>3, <1>4, <1>5, <1>6, Zenon DEF SupervisorInv

\* The store is closed once the loop has ended.
LEMMA AwaitCleanupKeeps ==
    ASSUME SupervisorInv, AwaitCleanup
    PROVE  SupervisorInv'
<1>1. SupervisorTypeOK'
  BY DEF SupervisorInv, SupervisorTypeOK, AwaitCleanup
<1>2. HoldingCounts'
  BY DEF SupervisorInv, HoldingCounts, AwaitCleanup
<1>3. BeforeListening'
  BY DEF SupervisorInv, BeforeListening, AwaitCleanup, Check, After
<1>4. StoreLife'
  BY DEF SupervisorInv, StoreLife, AwaitCleanup
<1>5. ReadyLife'
  BY DEF SupervisorInv, ReadyLife, AwaitCleanup
<1>6. NobodyDropped'
  BY DEF SupervisorInv, NobodyDropped, AwaitCleanup, Leaving
<1>7. QED
  BY <1>1, <1>2, <1>3, <1>4, <1>5, <1>6, Zenon DEF SupervisorInv

\* The end of the process loses what is in flight: nothing, without an error.
LEMMA CloseStoreKeeps ==
    ASSUME SupervisorInv, CloseStore
    PROVE  SupervisorInv'
<1>1. SupervisorTypeOK'
  BY DEF SupervisorInv, SupervisorTypeOK, CloseStore, Ended
<1>2. HoldingCounts'
  BY DEF SupervisorInv, HoldingCounts, CloseStore
<1>3. BeforeListening'
  BY DEF SupervisorInv, BeforeListening, CloseStore, Check, After
<1>4. StoreLife'
  BY DEF SupervisorInv, StoreLife, CloseStore, Check, After
<1>5. ReadyLife'
  BY DEF SupervisorInv, ReadyLife, CloseStore
<1>6. NobodyDropped'
  BY DEF SupervisorInv, NobodyDropped, CloseStore, Leaving
<1>7. QED
  BY <1>1, <1>2, <1>3, <1>4, <1>5, <1>6, Zenon DEF SupervisorInv

\* Every step keeps the invariant.
LEMMA SupervisorStep ==
    ASSUME SupervisorInv, SupervisorNext
    PROVE  SupervisorInv'
<1>1. CASE Main
  BY <1>1, CheckPassesKeeps, CheckFailsKeeps, BecomeReadyKeeps, ServeErrorSeenKeeps,
     SignalSeenKeeps, CallShutdownKeeps, ShutdownReturnsKeeps, CollectKeeps, CancelCleanupKeeps, AwaitCleanupKeeps, CloseStoreKeeps,
     Zenon DEF Main
<1>2. ASSUME NEW r \in Incoming,
             Accept(r) \/ AskConn(r) \/ AcquireConn(r) \/ ReleaseConn(r) \/ Answer(r)
      PROVE  SupervisorInv'
  BY <1>2, AcceptKeeps, AskConnKeeps, AcquireConnKeeps, ReleaseConnKeeps, AnswerKeeps, Zenon
<1>3. QED
  BY <1>1, <1>2, SignalKeeps, ServeStartsKeeps, ServeReturnsKeeps, OperationKeeps, PassKeeps,
     CleanupEndsKeeps, Zenon DEF SupervisorNext

\* The invariant behind ShutdownOrder (Serve, superviseHTTP and the goroutines).
THEOREM SupervisorInvariant == SupervisorSpec => []SupervisorInv
<1>1. SupervisorInit => SupervisorInv
  <2>1. SUFFICES ASSUME SupervisorInit PROVE SupervisorInv
    OBVIOUS
  <2>2. cleanup \in CleanupState
    BY <2>1, SupervisorAssumption DEF SupervisorInit, CleanupState
  <2>3. SupervisorTypeOK
    BY <2>1, <2>2, Zenon DEF SupervisorInit, SupervisorTypeOK, CleanupState, Check, After
  <2>4. HoldingCounts /\ BeforeListening /\ StoreLife
    BY <2>1 DEF SupervisorInit, HoldingCounts, BeforeListening, StoreLife, Check, After
  <2>5. ReadyLife /\ NobodyDropped
    BY <2>1 DEF SupervisorInit, ReadyLife, NobodyDropped, Leaving
  <2>6. QED
    BY <2>3, <2>4, <2>5, Zenon DEF SupervisorInv
<1>2. SupervisorInv /\ [SupervisorNext]_supervisorVars => SupervisorInv'
  <2>1. SUFFICES ASSUME SupervisorInv, UNCHANGED supervisorVars PROVE SupervisorInv'
    BY SupervisorStep, Zenon
  <2>2. SupervisorTypeOK' /\ HoldingCounts'
    BY <2>1 DEF SupervisorInv, SupervisorTypeOK, HoldingCounts, supervisorVars
  <2>3. BeforeListening' /\ StoreLife'
    BY <2>1 DEF SupervisorInv, BeforeListening, StoreLife, supervisorVars
  <2>4. ReadyLife' /\ NobodyDropped'
    BY <2>1 DEF SupervisorInv, ReadyLife, NobodyDropped, supervisorVars
  <2>5. QED
    BY <2>2, <2>3, <2>4, Zenon DEF SupervisorInv
<1>3. QED
  BY <1>1, <1>2, PTL DEF SupervisorSpec

\* For any number of requests, connections, operations and passes, and any order
\* of signal, failing listener, deadline and requests: not ready before the
\* server is shut down, no store closed under a cleanup operation, and no
\* accepted request without its answer when the process returns no error.
THEOREM ShutdownOrderHolds == SupervisorSpec => []ShutdownOrder
<1>1. SupervisorInv => ShutdownOrder
  <2>1. SUFFICES ASSUME SupervisorInv PROVE ShutdownOrder
    OBVIOUS
  <2>2. server # "up" => ~ready
    BY <2>1, Zenon DEF SupervisorInv, ReadyLife
  <2>3. store \in {"closing", "closed"} => cleanup.at \in {"off", "done"}
    BY <2>1 DEF SupervisorInv, SupervisorTypeOK, StoreLife
  <2>4. main = "exited" => store \in {"none", "closed"}
    BY <2>1, Zenon DEF SupervisorInv, StoreLife
  <2>5. ASSUME main = "exited", result = "nil"
        PROVE  \A r \in Incoming : handling[r] \in {"none", "answered"}
    BY <2>1, <2>5
       DEF SupervisorInv, SupervisorTypeOK, NobodyDropped, Leaving, InFlight, Ended
  <2>6. QED
    BY <2>2, <2>3, <2>4, <2>5, Zenon DEF ShutdownOrder
<1>2. QED
  BY <1>1, SupervisorInvariant, PTL

-----------------------------------------------------------------------------
(* LoginForm.                                                              *)

\* Submissions that hold a place of the gate, and those that have reserved an
\* attempt at form f and not yet checked the password.
Hashing == {r \in Request : request[r].at \in {"hashing", "rehashing"}}
Entering(f) == {r \in Request : request[r].at = "enter" /\ request[r].form = f}

\* A submission has a form, and a form a transaction.
BoundInv ==
    /\ \A r \in Request : request[r].at # "idle" => preauths[request[r].form] # Absent
    /\ \A f \in Form : preauths[f] # Absent => transactions[preauths[f].txn] # Absent

GateInv == gate = Cardinality(Hashing)

\* Each reserved attempt pays for one password check.
BudgetInv ==
    \A f \in Form :
        /\ preauths[f] = Absent => checks[f] = 0
        /\ preauths[f] # Absent =>
             checks[f] + Cardinality(Entering(f)) <= preauths[f].attempts

\* A form that opened a session is used up, and so is its local transaction,
\* which no other form has used.
OpenInv ==
    /\ \A f \in Form :
         /\ preauths[f] = Absent => opened[f] = 0
         /\ opened[f] <= 1
         /\ opened[f] > 0 =>
              /\ preauths[f].state \in {"consumed", "deleted"}
              /\ transactions[preauths[f].txn].kind = "local" =>
                   transactions[preauths[f].txn].state = "consumed"
    /\ \A f, g \in Form :
         /\ opened[f] > 0 /\ opened[g] > 0 /\ preauths[f].txn = preauths[g].txn
         /\ transactions[preauths[f].txn].kind = "local"
         => f = g

FormInv == TypeOK /\ BoundInv /\ GateInv /\ BudgetInv /\ OpenInv

-----------------------------------------------------------------------------
(* Submissions.                                                            *)

Stage == {"reserve", "enter", "hashing", "rehash", "rehashing", "commit"}

LEMMA Submitted ==
    ASSUME TypeOK, NEW r \in Request
    PROVE  /\ request[r].at # "idle" <=> request[r] \in Submission
           /\ request[r].at = "idle" <=> request[r] = Idle
           /\ request[r].at \in Stage \cup {"idle"}
           /\ request[r].at # "idle" => request[r].form \in Form /\ request[r].now \in Nat
BY DEF TypeOK, Submission, Idle, Stage

\* What a step of submission r does to the submissions.
Moves(r, at) ==
    /\ request' \in [Request -> Submission \cup {Idle}]
    /\ request'[r].at = at
    /\ at # "idle" => request'[r].form = request[r].form
    /\ \A s \in Request \ {r} : request'[s] = request[s]

LEMMA StepMoves ==
    ASSUME TypeOK, NEW r \in Request, request[r].at # "idle", NEW at \in Stage, Step(r, at)
    PROVE  Moves(r, at)
<1> DEFINE n == [request[r] EXCEPT !.at = at]
<1>1. request[r] \in Submission
  BY Submitted
<1>2. n \in Submission /\ n.at = at /\ n.form = request[r].form
  BY <1>1 DEF Submission, Stage
<1>3. request' = [request EXCEPT ![r] = n]
  BY DEF Step
<1> HIDE DEF n
<1>4. QED
  BY <1>2, <1>3 DEF TypeOK, Moves

LEMMA EndMoves ==
    ASSUME TypeOK, NEW r \in Request, End(r)
    PROVE  Moves(r, "idle")
<1>1. request' = [request EXCEPT ![r] = Idle] /\ Idle.at = "idle"
  BY DEF End, Idle
<1>2. QED
  BY <1>1 DEF TypeOK, Moves

LEMMA SubmitMoves ==
    ASSUME TypeOK, NEW r \in Request, NEW f \in Form, NEW m \in Mode, Submit(r, f, m)
    PROVE  /\ request' \in [Request -> Submission \cup {Idle}]
           /\ request[r] = Idle /\ request'[r].at = "reserve" /\ request'[r].form = f
           /\ \A s \in Request \ {r} : request'[s] = request[s]
<1> DEFINE n == [at |-> "reserve", mode |-> m, form |-> f, now |-> now]
<1>1. n \in Submission /\ n.at = "reserve" /\ n.form = f
  BY LoginFormAssumption DEF Submission, TypeOK
<1>2. request' = [request EXCEPT ![r] = n] /\ request[r] = Idle
  BY DEF Submit
<1> HIDE DEF n
<1>3. QED
  BY <1>1, <1>2 DEF TypeOK

-----------------------------------------------------------------------------
(* Counted sets.                                                           *)

\* A step changes one of the two counts by at most the submission it moves.
LEMMA HashingMoves ==
    ASSUME TypeOK, NEW r \in Request, NEW at \in Stage \cup {"idle"}, Moves(r, at)
    PROVE  Hashing' = IF at \in {"hashing", "rehashing"} THEN Hashing \cup {r}
                                                         ELSE Hashing \ {r}
BY DEF Hashing, Moves

LEMMA EnteringMoves ==
    ASSUME TypeOK, NEW r \in Request, NEW at \in Stage \cup {"idle"}, Moves(r, at),
           NEW f \in Form
    PROVE  Entering(f)' = IF at = "enter" /\ request[r].form = f THEN Entering(f) \cup {r}
                                                                 ELSE Entering(f) \ {r}
BY DEF Entering, Moves

-----------------------------------------------------------------------------
(* Rows.                                                                   *)

PreAuthsTyped == preauths' \in [Form -> PreAuthRow \cup {Absent}]
TransactionsTyped == transactions' \in [Transaction -> TransactionRow \cup {Absent}]

LEMMA RowTypes ==
    ASSUME TypeOK
    PROVE  /\ \A f \in Form : preauths[f] # Absent <=> preauths[f] \in PreAuthRow
           /\ \A f \in Form : preauths[f].state \in {"open", "consumed", "deleted"} =>
                                preauths[f] # Absent
           /\ \A f \in Form : preauths[f] # Absent =>
                /\ preauths[f].txn \in Transaction /\ preauths[f].attempts \in 0..MaxAttempts
                /\ preauths[f].state \in {"open", "consumed", "deleted"}
           /\ \A t \in Transaction : transactions[t] # Absent <=> transactions[t] \in TransactionRow
           /\ \A t \in Transaction : transactions[t].state \in {"live", "consumed", "expired"} =>
                                       transactions[t] # Absent
BY DEF TypeOK, PreAuthRow, TransactionRow, Absent

\* A form is created with no attempts.
LEMMA BeginRow ==
    ASSUME TypeOK, NEW f \in Form, NEW m \in Mode, NEW t \in Transaction, Begin(f, m, t)
    PROVE  /\ PreAuthsTyped /\ preauths[f] = Absent
           /\ preauths'[f] # Absent /\ preauths'[f].txn = t /\ preauths'[f].attempts = 0
           /\ \A g \in Form \ {f} : preauths'[g] = preauths[g]
<1> DEFINE row == [txn |-> t, expires |-> now + FormTTL, attempts |-> 0, state |-> "open"]
<1>1. row \in PreAuthRow /\ row # Absent /\ row.txn = t /\ row.attempts = 0
  BY LoginFormAssumption DEF PreAuthRow, TypeOK, Absent
<1>2. preauths' = [preauths EXCEPT ![f] = row] /\ preauths[f] = Absent
  BY DEF Begin
<1> HIDE DEF row
<1>3. QED
  BY <1>1, <1>2 DEF TypeOK, PreAuthsTyped

LEMMA ReserveRow ==
    ASSUME TypeOK, NEW f \in Form, preauths[f].state = "open",
           preauths[f].attempts < MaxAttempts,
           preauths' = [preauths EXCEPT ![f].attempts = @ + 1]
    PROVE  /\ PreAuthsTyped /\ preauths[f] # Absent
           /\ preauths'[f] # Absent /\ preauths'[f].txn = preauths[f].txn
           /\ preauths'[f].attempts = preauths[f].attempts + 1
           /\ preauths'[f].state = preauths[f].state
           /\ \A g \in Form \ {f} : preauths'[g] = preauths[g]
<1> DEFINE p == preauths[f]
           row == [p EXCEPT !.attempts = @ + 1]
<1>1. p \in PreAuthRow /\ p # Absent /\ p.attempts < MaxAttempts
  BY RowTypes
<1>2. /\ row \in PreAuthRow /\ row # Absent /\ row.txn = p.txn /\ row.state = p.state
      /\ row.attempts = p.attempts + 1
  <2> HIDE DEF p
  <2>1. QED
    BY <1>1, LoginFormAssumption DEF PreAuthRow, Absent
<1>3. preauths' = [preauths EXCEPT ![f] = row]
  OBVIOUS
<1> HIDE DEF row
<1>4. QED
  BY <1>1, <1>2, <1>3 DEF TypeOK, PreAuthsTyped

LEMMA StateRow ==
    ASSUME TypeOK, NEW f \in Form, preauths[f].state \in {"open", "consumed"},
           NEW state \in {"consumed", "deleted"},
           preauths' = [preauths EXCEPT ![f].state = state]
    PROVE  /\ PreAuthsTyped /\ preauths[f] # Absent
           /\ preauths'[f] # Absent /\ preauths'[f].txn = preauths[f].txn
           /\ preauths'[f].attempts = preauths[f].attempts
           /\ preauths'[f].state = state
           /\ \A g \in Form \ {f} : preauths'[g] = preauths[g]
<1> DEFINE p == preauths[f]
           row == [p EXCEPT !.state = state]
<1>1. p \in PreAuthRow /\ p # Absent
  BY RowTypes
<1>2. /\ row \in PreAuthRow /\ row # Absent /\ row.txn = p.txn /\ row.state = state
      /\ row.attempts = p.attempts
  <2> HIDE DEF p
  <2>1. QED
    BY <1>1 DEF PreAuthRow, Absent
<1>3. preauths' = [preauths EXCEPT ![f] = row]
  OBVIOUS
<1> HIDE DEF row
<1>4. QED
  BY <1>1, <1>2, <1>3 DEF TypeOK, PreAuthsTyped

LEMMA NewTransactionRow ==
    ASSUME TypeOK, NEW t \in Transaction, NEW kind \in Kind, transactions[t] = Absent,
           transactions' = [transactions EXCEPT ![t] = NewTransaction(kind)]
    PROVE  /\ TransactionsTyped
           /\ transactions'[t] # Absent
           /\ \A u \in Transaction \ {t} : transactions'[u] = transactions[u]
<1> DEFINE row == NewTransaction(kind)
<1>1. row \in TransactionRow /\ row # Absent
  BY LoginFormAssumption, SMTT(30) DEF NewTransaction, TransactionRow, TypeOK, Absent
<1> HIDE DEF row
<1>2. transactions' = [transactions EXCEPT ![t] = row]
  BY DEF row
<1>3. QED
  BY <1>1, <1>2 DEF TypeOK, TransactionsTyped

LEMMA TransactionState ==
    ASSUME TypeOK, NEW t \in Transaction, transactions[t].state = "live",
           NEW state \in {"consumed", "expired"},
           transactions' = [transactions EXCEPT ![t].state = state]
    PROVE  /\ TransactionsTyped /\ transactions[t] # Absent
           /\ transactions'[t] # Absent /\ transactions'[t].kind = transactions[t].kind
           /\ transactions'[t].state = state
           /\ \A u \in Transaction \ {t} : transactions'[u] = transactions[u]
<1> DEFINE p == transactions[t]
           row == [p EXCEPT !.state = state]
<1>1. p \in TransactionRow /\ p # Absent
  BY RowTypes
<1>2. row \in TransactionRow /\ row # Absent /\ row.kind = p.kind /\ row.state = state
  <2> HIDE DEF p
  <2>1. QED
    BY <1>1 DEF TransactionRow, Absent
<1>3. transactions' = [transactions EXCEPT ![t] = row]
  OBVIOUS
<1> HIDE DEF row
<1>4. QED
  BY <1>1, <1>2, <1>3 DEF TypeOK, TransactionsTyped

\* What no step undoes.
RowsGrow ==
    /\ PreAuthsTyped /\ TransactionsTyped /\ now' \in 0..MaxTime
    /\ \A f \in Form : preauths[f] # Absent =>
         /\ preauths'[f] # Absent /\ preauths'[f].txn = preauths[f].txn
         /\ preauths'[f].attempts >= preauths[f].attempts
         /\ preauths[f].state \in {"consumed", "deleted"} =>
              preauths'[f].state \in {"consumed", "deleted"}
    /\ \A f \in Form : preauths[f] = Absent /\ preauths'[f] # Absent =>
         transactions'[preauths'[f].txn] # Absent
    /\ \A t \in Transaction : transactions[t] # Absent =>
         /\ transactions'[t] # Absent /\ transactions'[t].kind = transactions[t].kind
         /\ transactions[t].state = "consumed" => transactions'[t].state = "consumed"

LEMMA SameRows ==
    ASSUME TypeOK, UNCHANGED <<now, transactions, preauths>>
    PROVE  RowsGrow
<1>1. PreAuthsTyped /\ TransactionsTyped /\ now' \in 0..MaxTime
  BY DEF TypeOK, PreAuthsTyped, TransactionsTyped
<1>2. \A f \in Form : preauths[f] # Absent => preauths[f].attempts \in Nat
  BY RowTypes, LoginFormAssumption
<1>3. QED
  BY <1>1, <1>2 DEF RowsGrow

LEMMA BeginGrows ==
    ASSUME TypeOK, NEW f \in Form, NEW m \in Mode, NEW t \in Transaction, Begin(f, m, t)
    PROVE  RowsGrow
<1>1. /\ PreAuthsTyped /\ preauths[f] = Absent
      /\ preauths'[f] # Absent /\ preauths'[f].txn = t
      /\ \A g \in Form \ {f} : preauths'[g] = preauths[g]
  BY BeginRow
<1>2. \A g \in Form : preauths[g] # Absent => preauths[g].attempts \in Nat
  BY RowTypes, LoginFormAssumption
<1>3. now' \in 0..MaxTime
  BY DEF Begin, TypeOK
<1>4. /\ TransactionsTyped /\ transactions'[t] # Absent
      /\ \A u \in Transaction : transactions[u] # Absent => transactions'[u] = transactions[u]
  <2>1. CASE /\ transactions[t] = Absent
             /\ transactions' = [transactions EXCEPT ![t] = NewTransaction("local")]
    BY <2>1, NewTransactionRow, Zenon DEF Kind
  <2>2. CASE Resolves(t, now) /\ UNCHANGED transactions
    BY <2>2, RowTypes DEF Resolves, TypeOK, TransactionsTyped
  <2>3. QED
    BY <2>1, <2>2 DEF Begin
<1>5. QED
  BY <1>1, <1>2, <1>3, <1>4 DEF RowsGrow

LEMMA TransactionStateGrows ==
    ASSUME TypeOK, NEW t \in Transaction, transactions[t].state = "live",
           NEW state \in {"consumed", "expired"},
           transactions' = [transactions EXCEPT ![t].state = state]
    PROVE  /\ TransactionsTyped
           /\ \A u \in Transaction : transactions[u] # Absent =>
                /\ transactions'[u] # Absent /\ transactions'[u].kind = transactions[u].kind
                /\ transactions[u].state = "consumed" => transactions'[u].state = "consumed"
BY TransactionState, Zenon

LEMMA NewTransactionGrows ==
    ASSUME TypeOK, NEW t \in Transaction, NEW k \in Kind, CreateVerified(t, k)
    PROVE  RowsGrow
<1>1. /\ TransactionsTyped
      /\ \A u \in Transaction : transactions[u] # Absent => transactions'[u] = transactions[u]
  BY NewTransactionRow, Zenon DEF CreateVerified
<1>2. \A g \in Form : preauths[g] # Absent => preauths[g].attempts \in Nat
  BY RowTypes, LoginFormAssumption, SMTT(30)
<1>3. preauths' = preauths /\ PreAuthsTyped /\ now' \in 0..MaxTime
  BY DEF CreateVerified, TypeOK, PreAuthsTyped
<1>4. QED
  BY <1>1, <1>2, <1>3 DEF RowsGrow

LEMMA TransactionEndGrows ==
    ASSUME TypeOK, NEW t \in Transaction, EndAuthorization(t) \/ ExpireAuthTransactions(t)
    PROVE  RowsGrow
<1>1. \E state \in {"consumed", "expired"} :
         /\ transactions[t].state = "live"
         /\ transactions' = [transactions EXCEPT ![t].state = state]
  BY DEF EndAuthorization, ExpireAuthTransactions, Resolves
<1>2. /\ TransactionsTyped
      /\ \A u \in Transaction : transactions[u] # Absent =>
           /\ transactions'[u] # Absent /\ transactions'[u].kind = transactions[u].kind
           /\ transactions[u].state = "consumed" => transactions'[u].state = "consumed"
  BY <1>1, TransactionStateGrows, Zenon
<1>3. \A g \in Form : preauths[g] # Absent => preauths[g].attempts \in Nat
  BY RowTypes, LoginFormAssumption, SMTT(30)
<1>4. preauths' = preauths /\ PreAuthsTyped /\ now' \in 0..MaxTime
  BY DEF EndAuthorization, ExpireAuthTransactions, TypeOK, PreAuthsTyped
<1>5. QED
  BY <1>2, <1>3, <1>4 DEF RowsGrow

LEMMA DeleteGrows ==
    ASSUME TypeOK, NEW f \in Form, DeleteExpiredPreAuthSessions(f)
    PROVE  RowsGrow
<1>1. /\ preauths[f].state \in {"open", "consumed"}
      /\ preauths' = [preauths EXCEPT ![f].state = "deleted"]
      /\ UNCHANGED <<now, transactions>>
  BY DEF DeleteExpiredPreAuthSessions
<1>2. /\ PreAuthsTyped /\ preauths[f] # Absent
      /\ preauths'[f] # Absent /\ preauths'[f].txn = preauths[f].txn
      /\ preauths'[f].attempts = preauths[f].attempts
      /\ preauths'[f].state = "deleted"
      /\ \A g \in Form \ {f} : preauths'[g] = preauths[g]
  BY <1>1, StateRow, Zenon
<1>3. \A g \in Form : preauths[g] # Absent => preauths[g].attempts \in Nat
  BY RowTypes, LoginFormAssumption
<1>4. TransactionsTyped /\ now' \in 0..MaxTime
  BY <1>1 DEF TypeOK, TransactionsTyped
<1>5. QED
  BY <1>1, <1>2, <1>3, <1>4 DEF RowsGrow

LEMMA CommitRows ==
    ASSUME TypeOK, BoundInv, NEW r \in Request, Commit(r)
    PROVE  LET f == request[r].form
               t == preauths[f].txn
           IN  /\ RowsGrow
               /\ f \in Form /\ preauths[f].state = "open" /\ preauths'[f].state = "consumed"
               /\ \A g \in Form \ {f} : preauths'[g] = preauths[g]
               /\ preauths[f] # Absent /\ t \in Transaction
               /\ transactions[t].kind = "local" =>
                    transactions[t].state = "live" /\ transactions'[t].state = "consumed"
<1> DEFINE f == request[r].form
           t == preauths[f].txn
<1>1. f \in Form /\ preauths[f].state = "open" /\ preauths[f] # Absent /\ t \in Transaction
      /\ preauths' = [preauths EXCEPT ![f].state = "consumed"]
  BY Submitted, RowTypes, Zenon DEF Commit, ConsumesForm
<1>2. /\ PreAuthsTyped
      /\ preauths'[f] # Absent /\ preauths'[f].txn = preauths[f].txn
      /\ preauths'[f].attempts = preauths[f].attempts
      /\ preauths'[f].state = "consumed"
      /\ \A g \in Form \ {f} : preauths'[g] = preauths[g]
  BY <1>1, StateRow, Zenon
<1>3. \A g \in Form : preauths[g] # Absent => preauths[g].attempts \in Nat
  BY RowTypes, LoginFormAssumption
<1>4. /\ TransactionsTyped
      /\ \A u \in Transaction : transactions[u] # Absent =>
           /\ transactions'[u] # Absent /\ transactions'[u].kind = transactions[u].kind
           /\ transactions[u].state = "consumed" => transactions'[u].state = "consumed"
      /\ transactions[t].kind = "local" =>
           transactions[t].state = "live" /\ transactions'[t].state = "consumed"
  <2>1. CASE transactions[t].kind = "local"
    <3>1. /\ transactions[t].state = "live"
          /\ transactions' = [transactions EXCEPT ![t].state = "consumed"]
      BY <2>1, Zenon DEF Commit, ConsumesTransaction, Resolves
    <3>2. QED
      BY <1>1, <3>1, TransactionState, TransactionStateGrows, Zenon
  <2>2. CASE transactions[t].kind # "local"
    <3>1. transactions' = transactions
      BY <2>2, Zenon DEF Commit
    <3>2. QED
      BY <2>2, <3>1, Zenon DEF TypeOK, TransactionsTyped
  <2>3. QED
    BY <2>1, <2>2, Zenon
<1>5. now' \in 0..MaxTime
  BY Zenon DEF Commit, TypeOK
<1>6. RowsGrow
  <2>1. ASSUME NEW g \in Form, preauths[g] # Absent
        PROVE  /\ preauths'[g] # Absent /\ preauths'[g].txn = preauths[g].txn
               /\ preauths'[g].attempts = preauths[g].attempts
               /\ preauths[g].state \in {"consumed", "deleted"} =>
                    preauths'[g].state \in {"consumed", "deleted"}
    BY <1>2, <2>1, Zenon
  <2>2. ASSUME NEW g \in Form, preauths[g] # Absent
        PROVE  preauths'[g].attempts >= preauths[g].attempts
    BY <1>3, <2>1, <2>2
  <2>3. \A g \in Form : preauths[g] = Absent => preauths'[g] = Absent
    BY <1>1, <1>2, Zenon
  <2>4. QED
    BY <1>2, <1>4, <1>5, <2>1, <2>2, <2>3, Zenon DEF RowsGrow
<1>7. QED
  BY <1>1, <1>2, <1>4, <1>6, Zenon

LEMMA ReserveRows ==
    ASSUME TypeOK, NEW r \in Request, ReservePreAuthAttempt(r),
           MayAttempt(preauths[request[r].form], request[r].now)
    PROVE  LET f == request[r].form IN
           /\ RowsGrow /\ f \in Form
           /\ preauths[f] # Absent /\ preauths'[f].attempts = preauths[f].attempts + 1
           /\ \A g \in Form \ {f} : preauths'[g] = preauths[g]
<1> DEFINE f == request[r].form
<1>1. /\ f \in Form /\ preauths[f].state = "open" /\ preauths[f].attempts < MaxAttempts
      /\ preauths' = [preauths EXCEPT ![f].attempts = @ + 1]
      /\ UNCHANGED <<now, transactions>>
  BY Submitted, Zenon DEF ReservePreAuthAttempt, MayAttempt
<1>2. /\ PreAuthsTyped /\ preauths[f] # Absent
      /\ preauths'[f] # Absent /\ preauths'[f].txn = preauths[f].txn
      /\ preauths'[f].attempts = preauths[f].attempts + 1
      /\ preauths'[f].state = preauths[f].state
      /\ \A g \in Form \ {f} : preauths'[g] = preauths[g]
  BY <1>1, ReserveRow, Zenon
<1>3. \A g \in Form : preauths[g] # Absent => preauths[g].attempts \in Nat
  BY RowTypes, LoginFormAssumption
<1>4. TransactionsTyped /\ now' \in 0..MaxTime
  BY <1>1 DEF TypeOK, TransactionsTyped
<1>5. RowsGrow
  <2>1. preauths'[f].attempts >= preauths[f].attempts
    <3>1. preauths[f].attempts \in Nat /\ preauths'[f].attempts = preauths[f].attempts + 1
      BY <1>1, <1>2, <1>3, Zenon
    <3>2. QED
      BY <3>1
  <2>2. ASSUME NEW g \in Form, preauths[g] # Absent
        PROVE  /\ preauths'[g] # Absent /\ preauths'[g].txn = preauths[g].txn
               /\ preauths'[g].attempts >= preauths[g].attempts
               /\ preauths'[g].state = preauths[g].state
    <3>1. CASE g = f
      BY <1>2, <2>1, <3>1, Zenon
    <3>2. CASE g # f
      BY <1>2, <1>3, <2>2, <3>2
    <3>3. QED
      BY <3>1, <3>2
  <2>3. \A g \in Form : preauths[g] = Absent => preauths'[g] = Absent
    BY <1>2, Zenon
  <2> HIDE DEF f
  <2>4. QED
    BY <1>1, <1>2, <1>4, <2>2, <2>3, Zenon DEF RowsGrow
<1>6. QED
  BY <1>1, <1>2, <1>5, Zenon

-----------------------------------------------------------------------------
(* The steps.                                                              *)

\* A step of the forms, the transactions or the clock.
Quiet == RowsGrow /\ UNCHANGED <<request, gate, checks, opened>>

Submits(r) ==
    /\ UNCHANGED <<now, transactions, preauths, gate, checks, opened>>
    /\ request' \in [Request -> Submission \cup {Idle}]
    /\ request[r] = Idle /\ request'[r].at = "reserve"
    /\ request'[r].form \in Form /\ preauths[request'[r].form] # Absent
    /\ \A s \in Request \ {r} : request'[s] = request[s]

Reserves(r) ==
    LET f == request[r].form IN
    /\ request[r].at = "reserve" /\ Moves(r, "enter") /\ RowsGrow /\ f \in Form
    /\ preauths[f] # Absent /\ preauths'[f].attempts = preauths[f].attempts + 1
    /\ \A g \in Form \ {f} : preauths'[g] = preauths[g]
    /\ UNCHANGED <<gate, checks, opened>>

Acquires(r) ==
    /\ request[r].at \in {"enter", "rehash"} /\ request[r].form \in Form
    /\ Moves(r, IF request[r].at = "enter" THEN "hashing" ELSE "rehashing")
    /\ gate < Places /\ gate' = gate + 1
    /\ checks' = IF request[r].at = "enter"
                 THEN [checks EXCEPT ![request[r].form] = @ + 1] ELSE checks
    /\ UNCHANGED <<now, transactions, preauths, opened>>

Releases(r) ==
    /\ request[r].at \in {"hashing", "rehashing"}
    /\ \E at \in {"idle", "rehash", "commit"} : Moves(r, at)
    /\ gate' = gate - 1
    /\ UNCHANGED <<now, transactions, preauths, checks, opened>>

Commits(r) ==
    /\ request[r].at = "commit" /\ Moves(r, "idle") /\ Commit(r)
    /\ UNCHANGED <<gate, checks>>

Stops(r) ==
    /\ request[r].at \in {"reserve", "enter", "rehash", "commit"} /\ Moves(r, "idle")
    /\ UNCHANGED <<now, transactions, preauths, gate, checks, opened>>

LEMMA Steps ==
    ASSUME TypeOK, BoundInv, Next
    PROVE  \/ Quiet \/ Restart
           \/ \E r \in Request : \/ Submits(r) \/ Reserves(r) \/ Acquires(r)
                                 \/ Releases(r) \/ Commits(r) \/ Stops(r)
<1>1. CASE \E t \in Transaction, k \in Kind : CreateVerified(t, k)
  BY <1>1, NewTransactionGrows, Zenon DEF CreateVerified, Quiet, history
<1>2. CASE \E f \in Form, m \in Mode, t \in Transaction : Begin(f, m, t)
  BY <1>2, BeginGrows, Zenon DEF Begin, Quiet, history
<1>3. ASSUME NEW r \in Request, NEW f \in Form, NEW m \in Mode, Submit(r, f, m)
      PROVE  Submits(r)
  <2>1. preauths[f] # Absent
    BY <1>3, RowTypes DEF Submit
  <2>2. UNCHANGED <<now, transactions, preauths, gate, checks, opened>>
    BY <1>3 DEF Submit, history
  <2>3. QED
    BY <1>3, <2>1, <2>2, SubmitMoves DEF Submits
<1>4. ASSUME NEW r \in Request, ReservePreAuthAttempt(r)
      PROVE  Reserves(r) \/ Stops(r)
  <2>1. request[r].at = "reserve" /\ UNCHANGED <<now, transactions, gate, checks, opened>>
    BY <1>4 DEF ReservePreAuthAttempt, history
  <2>2. CASE MayAttempt(preauths[request[r].form], request[r].now)
    <3>1. Moves(r, "enter")
      BY <1>4, <2>1, <2>2, StepMoves, Zenon DEF ReservePreAuthAttempt, Stage
    <3>2. QED
      BY <1>4, <2>1, <2>2, <3>1, ReserveRows, Zenon DEF Reserves
  <2>3. CASE ~MayAttempt(preauths[request[r].form], request[r].now)
    <3>1. End(r) /\ UNCHANGED preauths
      BY <1>4, <2>3 DEF ReservePreAuthAttempt
    <3>2. QED
      BY <2>1, <3>1, EndMoves DEF Stops
  <2>4. QED
    BY <2>2, <2>3
<1>5. ASSUME NEW r \in Request, Acquire(r)
      PROVE  Acquires(r) \/ Stops(r)
  <2>1. /\ request[r].at \in {"enter", "rehash"} /\ request[r].form \in Form
        /\ UNCHANGED <<now, transactions, preauths, opened>>
    BY <1>5, Submitted DEF Acquire
  <2>2. CASE gate < Places
    <3>1. Moves(r, IF request[r].at = "enter" THEN "hashing" ELSE "rehashing")
      BY <1>5, <2>1, <2>2, StepMoves DEF Acquire, Stage
    <3>2. QED
      BY <1>5, <2>1, <2>2, <3>1, Zenon DEF Acquires, Acquire
  <2>3. CASE ~(gate < Places)
    <3>1. End(r) /\ UNCHANGED <<gate, checks>>
      BY <1>5, <2>3 DEF Acquire
    <3>2. QED
      BY <2>1, <3>1, EndMoves DEF Stops
  <2>4. QED
    BY <2>2, <2>3
<1>6. ASSUME NEW r \in Request, NEW o \in {"match", "rehash", "mismatch"}, Release(r, o)
      PROVE  Releases(r)
  <2>1. /\ request[r].at \in {"hashing", "rehashing"} /\ gate' = gate - 1
        /\ UNCHANGED <<now, transactions, preauths, checks, opened>>
        /\ End(r) \/ Step(r, "rehash") \/ Step(r, "commit")
    BY <1>6 DEF Release, history
  <2>2. \E at \in {"idle", "rehash", "commit"} : Moves(r, at)
    BY <2>1, EndMoves, StepMoves DEF Stage
  <2>3. QED
    BY <2>1, <2>2 DEF Releases
<1>7. ASSUME NEW r \in Request, Commit(r) PROVE Commits(r)
  BY <1>7, EndMoves, Zenon DEF Commits, Commit
<1>8. ASSUME NEW r \in Request, Fail(r) PROVE Stops(r)
  BY <1>8, EndMoves DEF Stops, Fail, history
<1>9. CASE \E t \in Transaction : EndAuthorization(t) \/ ExpireAuthTransactions(t)
  BY <1>9, TransactionEndGrows DEF EndAuthorization, ExpireAuthTransactions, Quiet, history
<1>10. CASE \E f \in Form : DeleteExpiredPreAuthSessions(f)
  BY <1>10, DeleteGrows, Zenon DEF DeleteExpiredPreAuthSessions, Quiet, history
<1>11. CASE Tick
  <2>1. /\ now' \in 0..MaxTime
        /\ UNCHANGED <<transactions, preauths, request, gate, checks, opened>>
    BY <1>11, LoginFormAssumption DEF Tick, TypeOK, history
  <2>2. \A g \in Form : preauths[g] # Absent => preauths[g].attempts \in Nat
    BY RowTypes, LoginFormAssumption
  <2>3. PreAuthsTyped /\ TransactionsTyped
    BY <2>1 DEF TypeOK, PreAuthsTyped, TransactionsTyped
  <2>4. QED
    BY <2>1, <2>2, <2>3 DEF Quiet, RowsGrow
<1>12. QED
  BY <1>1, <1>2, <1>3, <1>4, <1>5, <1>6, <1>7, <1>8, <1>9, <1>10, <1>11, Zenon DEF Next

-----------------------------------------------------------------------------
(* Preservation.                                                           *)

LEMMA AlwaysGrow ==
    ASSUME TypeOK, BoundInv, Next
    PROVE  RowsGrow
<1>1. ASSUME NEW r \in Request, Submits(r) \/ Acquires(r) \/ Releases(r) \/ Stops(r)
      PROVE  RowsGrow
  BY <1>1, SameRows DEF Submits, Acquires, Releases, Stops
<1>2. ASSUME NEW r \in Request, Reserves(r) \/ Commits(r) PROVE RowsGrow
  BY <1>2, CommitRows, Zenon DEF Reserves, Commits
<1>3. CASE Restart
  BY <1>3, SameRows DEF Restart
<1>4. CASE Quiet
  BY <1>4 DEF Quiet
<1>5. QED
  BY <1>1, <1>2, <1>3, <1>4, Steps

LEMMA RequestsTyped ==
    ASSUME TypeOK, BoundInv, Next
    PROVE  /\ request' \in [Request -> Submission \cup {Idle}]
           /\ checks' \in [Form -> Nat] /\ opened' \in [Form -> Nat]
           /\ \A r \in Request : request'[r].at # "idle" =>
                /\ request'[r].form \in Form
                /\ preauths[request'[r].form] # Absent
<1>0. /\ checks \in [Form -> Nat] /\ opened \in [Form -> Nat]
      /\ request \in [Request -> Submission \cup {Idle}]
      /\ \A r \in Request : request[r].at # "idle" =>
           request[r].form \in Form /\ preauths[request[r].form] # Absent
  BY Submitted DEF TypeOK, BoundInv
<1>1. CASE Quiet
  BY <1>0, <1>1 DEF Quiet
<1>2. CASE Restart
  BY <1>0, <1>2 DEF Restart, Idle, history
<1>3. ASSUME NEW r \in Request, Submits(r)
      PROVE  /\ request' \in [Request -> Submission \cup {Idle}]
             /\ checks' \in [Form -> Nat] /\ opened' \in [Form -> Nat]
             /\ \A s \in Request : request'[s].at # "idle" =>
                  request'[s].form \in Form /\ preauths[request'[s].form] # Absent
  BY <1>0, <1>3 DEF Submits
<1>4. ASSUME NEW r \in Request, NEW at \in Stage \cup {"idle"}, Moves(r, at), request[r].at # "idle"
      PROVE  /\ request' \in [Request -> Submission \cup {Idle}]
             /\ \A s \in Request : request'[s].at # "idle" =>
                  request'[s].form \in Form /\ preauths[request'[s].form] # Absent
  BY <1>0, <1>4 DEF Moves
<1>5. ASSUME NEW r \in Request,
             Reserves(r) \/ Acquires(r) \/ Releases(r) \/ Commits(r) \/ Stops(r)
      PROVE  /\ \E at \in Stage \cup {"idle"} : Moves(r, at)
             /\ request[r].at # "idle"
  BY <1>5, Zenon DEF Reserves, Acquires, Releases, Commits, Stops, Stage
<1>6. ASSUME NEW r \in Request, Reserves(r) \/ Acquires(r) \/ Releases(r) \/ Stops(r)
      PROVE  checks' \in [Form -> Nat] /\ opened' \in [Form -> Nat]
  BY <1>0, <1>6 DEF Reserves, Acquires, Releases, Stops
<1>7. ASSUME NEW r \in Request, Commits(r)
      PROVE  checks' \in [Form -> Nat] /\ opened' \in [Form -> Nat]
  <2>1. checks' = checks /\ opened' = [opened EXCEPT ![request[r].form] = @ + 1]
    BY <1>7, Zenon DEF Commits, Commit
  <2>2. request[r].form \in Form
    BY <1>7, Submitted, Zenon DEF Commits
  <2>3. QED
    BY <1>0, <2>1, <2>2
<1>8. QED
  BY <1>1, <1>2, <1>3, <1>4, <1>5, <1>6, <1>7, Steps, Zenon

\* A step that opens nothing keeps what is known of the forms that did.
LEMMA OpenKept ==
    ASSUME TypeOK, BoundInv, OpenInv, RowsGrow, NEW f \in Form, opened[f] > 0
    PROVE  /\ preauths'[f] # Absent /\ preauths'[f].txn = preauths[f].txn
           /\ preauths[f].txn \in Transaction
           /\ preauths'[f].state \in {"consumed", "deleted"}
           /\ transactions'[preauths[f].txn].kind = transactions[preauths[f].txn].kind
           /\ transactions[preauths[f].txn].kind = "local" =>
                transactions'[preauths[f].txn].state = "consumed"
<1>1. preauths[f] # Absent
  BY DEF OpenInv
<1>2. preauths[f].txn \in Transaction /\ transactions[preauths[f].txn] # Absent
  BY <1>1, RowTypes DEF BoundInv
<1>3. QED
  BY <1>1, <1>2, Zenon DEF RowsGrow, OpenInv

LEMMA OpenStep ==
    ASSUME TypeOK, BoundInv, OpenInv, Next
    PROVE  OpenInv'
<1>0. RowsGrow /\ \A f \in Form : opened[f] \in Nat
  BY AlwaysGrow DEF TypeOK
<1>1. CASE opened' = opened
  <2>1. ASSUME NEW f \in Form, preauths'[f] = Absent PROVE opened'[f] = 0
    BY <1>0, <1>1, <2>1, Zenon DEF RowsGrow, OpenInv
  <2>2. ASSUME NEW f \in Form, opened'[f] > 0
        PROVE  /\ preauths'[f].state \in {"consumed", "deleted"}
               /\ transactions'[preauths'[f].txn].kind = "local" =>
                    transactions'[preauths'[f].txn].state = "consumed"
    BY <1>0, <1>1, <2>2, OpenKept
  <2>3. ASSUME NEW f \in Form, NEW g \in Form, opened'[f] > 0, opened'[g] > 0,
               preauths'[f].txn = preauths'[g].txn,
               transactions'[preauths'[f].txn].kind = "local"
        PROVE  f = g
    <3>1. /\ preauths'[f].txn = preauths[f].txn /\ preauths'[g].txn = preauths[g].txn
          /\ transactions[preauths[f].txn].kind = "local"
      BY <1>0, <1>1, <2>3, OpenKept
    <3>2. QED
      BY <1>1, <2>3, <3>1, Zenon DEF OpenInv
  <2>4. QED
    BY <1>1, <2>1, <2>2, <2>3, Zenon DEF OpenInv
<1>2. CASE \E r \in Request : Commits(r)
  <2>1. PICK r \in Request : Commits(r)
    BY <1>2
  <2> DEFINE h == request[r].form
             t == preauths[h].txn
  <2>2. /\ h \in Form /\ preauths[h].state = "open" /\ preauths'[h].state = "consumed"
        /\ preauths[h] # Absent /\ t \in Transaction
        /\ transactions[t].kind = "local" =>
             transactions[t].state = "live" /\ transactions'[t].state = "consumed"
    BY <2>1, CommitRows, Zenon DEF Commits
  <2>3. opened' = [opened EXCEPT ![h] = @ + 1]
    BY <2>1, Zenon DEF Commits, Commit
  <2>4. opened[h] = 0
    BY <1>0, <2>2, SMTT(30) DEF OpenInv
  <2>5. opened'[h] = 1 /\ \A f \in Form \ {h} : opened'[f] = opened[f]
    BY <2>2, <2>3, <2>4 DEF TypeOK
  <2>6. /\ preauths'[h] # Absent /\ preauths'[h].txn = t
        /\ transactions'[t].kind = transactions[t].kind
    BY <1>0, <2>2, Zenon DEF RowsGrow, BoundInv
  <2> HIDE DEF h
  <2>7. ASSUME NEW f \in Form, f # h, opened'[f] > 0,
               preauths'[f].txn = t, transactions[t].kind = "local"
        PROVE  FALSE
    <3>1. opened[f] > 0
      BY <2>5, <2>7, Zenon
    <3>2. preauths[f].txn = t
      BY <1>0, <2>7, <3>1, OpenKept, Zenon
    <3>3. transactions[t].state = "consumed"
      BY <2>7, <3>1, <3>2, Zenon DEF OpenInv
    <3>4. QED
      BY <2>2, <2>7, <3>3, Zenon
  <2>8. ASSUME NEW f \in Form
        PROVE  /\ preauths'[f] = Absent => opened'[f] = 0
               /\ opened'[f] <= 1
               /\ opened'[f] > 0 =>
                    /\ preauths'[f].state \in {"consumed", "deleted"}
                    /\ transactions'[preauths'[f].txn].kind = "local" =>
                         transactions'[preauths'[f].txn].state = "consumed"
    <3>1. CASE f = h
      <4>1. /\ opened'[f] = 1 /\ preauths'[f] # Absent /\ preauths'[f].state = "consumed"
            /\ preauths'[f].txn = t
        BY <2>2, <2>5, <2>6, <3>1, Zenon
      <4>2. transactions'[t].kind = "local" => transactions'[t].state = "consumed"
        BY <2>2, <2>6, Zenon
      <4>3. opened'[f] <= 1
        BY <4>1
      <4>4. QED
        BY <4>1, <4>2, <4>3, Zenon
    <3>2. CASE f # h
      <4>1. opened'[f] = opened[f] /\ opened[f] <= 1
        BY <2>5, <3>2 DEF OpenInv
      <4>2. preauths'[f] = Absent => opened[f] = 0
        BY <1>0, Zenon DEF RowsGrow, OpenInv
      <4>3. QED
        BY <1>0, <4>1, <4>2, OpenKept
    <3>3. QED
      BY <3>1, <3>2, Zenon
  <2>9. ASSUME NEW f \in Form, NEW g \in Form, opened'[f] > 0, opened'[g] > 0,
               preauths'[f].txn = preauths'[g].txn,
               transactions'[preauths'[f].txn].kind = "local"
        PROVE  f = g
    <3>1. CASE f = h \/ g = h
      BY <2>2, <2>6, <2>7, <2>9, <3>1, Zenon
    <3>2. CASE f # h /\ g # h
      <4>1. opened[f] > 0 /\ opened[g] > 0
        BY <2>5, <2>9, <3>2
      <4>2. /\ preauths'[f].txn = preauths[f].txn /\ preauths'[g].txn = preauths[g].txn
            /\ transactions[preauths[f].txn].kind = "local"
        BY <1>0, <2>9, <4>1, OpenKept
      <4>3. QED
        BY <2>9, <4>1, <4>2, Zenon DEF OpenInv
    <3>3. QED
      BY <3>1, <3>2
  <2>10. QED
    BY <2>8, <2>9, Zenon DEF OpenInv
<1>3. QED
  BY <1>1, <1>2, Steps, Zenon DEF Quiet, Restart, Submits, Reserves, Acquires, Releases, Stops, history

-----------------------------------------------------------------------------
(* Counting.                                                               *)

INSTANCE FiniteSetTheorems

LEMMA Subsets ==
    ASSUME NEW S, S \subseteq Request
    PROVE  IsFiniteSet(S) /\ Cardinality(S) \in Nat
BY FS_Subset, FS_CardinalityType, LoginFormAssumption

LEMMA OneMore ==
    ASSUME NEW S, NEW T, S \subseteq Request, NEW r \in Request, r \notin S, T = S \cup {r}
    PROVE  Cardinality(T) = Cardinality(S) + 1
BY Subsets, FS_AddElement

LEMMA OneLess ==
    ASSUME NEW S, NEW T, S \subseteq Request, NEW r \in S, T = S \ {r}
    PROVE  Cardinality(T) = Cardinality(S) - 1
BY Subsets, FS_RemoveElement

LEMMA GateStep ==
    ASSUME TypeOK, BoundInv, GateInv, Next
    PROVE  GateInv' /\ gate' \in 0..Places
<1>0. gate \in 0..Places /\ gate = Cardinality(Hashing) /\ Hashing \subseteq Request
  BY DEF TypeOK, GateInv, Hashing
<1>1. CASE Quiet
  <2>1. Hashing' = Hashing
    BY <1>1 DEF Quiet, Hashing
  <2>2. QED
    BY <1>0, <1>1, <2>1 DEF Quiet, GateInv
<1>2. CASE Restart
  <2>1. Hashing' = {} /\ gate' = 0
    BY <1>2 DEF Restart, Hashing, Idle
  <2>2. QED
    BY <2>1, FS_EmptySet, LoginFormAssumption DEF GateInv
<1>3. ASSUME NEW r \in Request, Submits(r) PROVE GateInv' /\ gate' \in 0..Places
  <2>1. Hashing' = Hashing
    BY <1>3, Submitted DEF Submits, Hashing
  <2>2. QED
    BY <1>0, <1>3, <2>1, SMTT(20) DEF Submits, GateInv
<1>4. ASSUME NEW r \in Request, Reserves(r) \/ Commits(r) \/ Stops(r)
      PROVE  GateInv' /\ gate' \in 0..Places
  <2>1. \E at \in {"enter", "idle"} : Moves(r, at)
    BY <1>4, Zenon DEF Reserves, Commits, Stops
  <2>2. Hashing' = Hashing \ {r}
    BY <2>1, HashingMoves DEF Stage
  <2>3. r \notin Hashing /\ gate' = gate
    BY <1>4, Zenon DEF Reserves, Commits, Stops, Hashing
  <2>4. Hashing' = Hashing
    BY <2>2, <2>3
  <2>5. QED
    BY <1>0, <2>3, <2>4 DEF GateInv
<1>5. ASSUME NEW r \in Request, Acquires(r) PROVE GateInv' /\ gate' \in 0..Places
  <2>1. \E at \in {"hashing", "rehashing"} : Moves(r, at)
    BY <1>5, Zenon DEF Acquires
  <2>2. Hashing' = Hashing \cup {r} /\ r \notin Hashing
    BY <1>5, <2>1, HashingMoves, Zenon DEF Stage, Acquires, Hashing
  <2>3. Cardinality(Hashing') = Cardinality(Hashing) + 1
    BY <1>0, <2>2, OneMore
  <2>4. gate' = gate + 1 /\ gate < Places
    BY <1>5 DEF Acquires
  <2>5. GateInv'
    BY <1>0, <2>3, <2>4 DEF GateInv
  <2>6. QED
    BY <1>0, <2>4, <2>5, LoginFormAssumption, SMTT(20)
<1>6. ASSUME NEW r \in Request, Releases(r) PROVE GateInv' /\ gate' \in 0..Places
  <2>1. Hashing' = Hashing \ {r} /\ r \in Hashing
    BY <1>6, HashingMoves, Zenon DEF Stage, Releases, Hashing
  <2>2. Cardinality(Hashing') = Cardinality(Hashing) - 1 /\ Cardinality(Hashing') \in Nat
    BY <1>0, <2>1, OneLess, Subsets
  <2>3. gate' = gate - 1
    BY <1>6 DEF Releases
  <2>4. GateInv'
    BY <1>0, <2>2, <2>3 DEF GateInv
  <2>5. QED
    BY <1>0, <2>2, <2>3, <2>4, LoginFormAssumption DEF GateInv
<1>7. QED
  BY <1>1, <1>2, <1>3, <1>4, <1>5, <1>6, Steps

LEMMA BoundStep ==
    ASSUME TypeOK, BoundInv, GateInv, Next
    PROVE  TypeOK' /\ BoundInv'
<1>1. RowsGrow
  BY AlwaysGrow
<1>2. TypeOK'
  BY <1>1, RequestsTyped, GateStep, Zenon DEF TypeOK, RowsGrow, PreAuthsTyped, TransactionsTyped
<1>3. ASSUME NEW r \in Request, request'[r].at # "idle"
      PROVE  preauths'[request'[r].form] # Absent
  BY <1>1, <1>3, RequestsTyped, Zenon DEF RowsGrow
<1>4. ASSUME NEW f \in Form, preauths'[f] # Absent
      PROVE  transactions'[preauths'[f].txn] # Absent
  <2>1. CASE preauths[f] = Absent
    BY <1>1, <1>4, <2>1, SMTT(20) DEF RowsGrow
  <2>2. CASE preauths[f] # Absent
    BY <1>1, <1>4, <2>2, RowTypes, Zenon DEF RowsGrow, BoundInv
  <2>3. QED
    BY <2>1, <2>2
<1>5. QED
  BY <1>2, <1>3, <1>4, Zenon DEF BoundInv

\* The part of BudgetInv about one form, for a count n of submissions entering.
LEMMA BudgetKept ==
    ASSUME TypeOK, BoundInv, BudgetInv, RowsGrow, NEW f \in Form,
           checks'[f] = checks[f], Cardinality(Entering(f)') \in Nat,
           Cardinality(Entering(f)') <= Cardinality(Entering(f)),
           PreAuthsTyped
    PROVE  /\ preauths'[f] = Absent => checks'[f] = 0
           /\ preauths'[f] # Absent =>
                checks'[f] + Cardinality(Entering(f)') <= preauths'[f].attempts
<1>0. Cardinality(Entering(f)) \in Nat /\ checks[f] \in Nat
  BY Subsets, Zenon DEF Entering, TypeOK
<1>1. CASE preauths[f] # Absent
  <2>1. /\ preauths'[f] # Absent /\ preauths'[f].attempts >= preauths[f].attempts
        /\ checks[f] + Cardinality(Entering(f)) <= preauths[f].attempts
    BY <1>1, Zenon DEF RowsGrow, BudgetInv
  <2>2. preauths[f].attempts \in Nat /\ preauths'[f].attempts \in Nat
    BY <1>1, <2>1, RowTypes, LoginFormAssumption, SMTT(30) DEF PreAuthsTyped, PreAuthRow
  <2>3. QED
    BY <1>0, <2>1, <2>2
<1>2. CASE preauths[f] = Absent
  <2>1. checks[f] = 0
    BY <1>2 DEF BudgetInv
  <2>2. Entering(f) = {}
    BY <1>2, Zenon DEF Entering, BoundInv
  <2>3. Cardinality(Entering(f)') = 0
    BY <1>0, <2>2, FS_EmptySet
  <2>4. preauths'[f] # Absent => preauths'[f].attempts \in Nat
    BY LoginFormAssumption DEF PreAuthsTyped, PreAuthRow
  <2>5. QED
    BY <2>1, <2>3, <2>4
<1>3. QED
  BY <1>1, <1>2, Zenon

LEMMA SmallerEntering ==
    ASSUME NEW S, NEW T, S \subseteq T, T \subseteq Request
    PROVE  Cardinality(S) \in Nat /\ Cardinality(S) <= Cardinality(T)
BY Subsets, FS_Subset

LEMMA BudgetStep ==
    ASSUME TypeOK, BoundInv, BudgetInv, Next
    PROVE  BudgetInv'
<1>0. RowsGrow /\ PreAuthsTyped /\ \A f \in Form : Entering(f) \subseteq Request
  BY AlwaysGrow, Zenon DEF Entering, RowsGrow
<1>1. SUFFICES ASSUME NEW f \in Form
               PROVE  /\ preauths'[f] = Absent => checks'[f] = 0
                      /\ preauths'[f] # Absent =>
                           checks'[f] + Cardinality(Entering(f)') <= preauths'[f].attempts
  BY DEF BudgetInv
<1>2. ASSUME checks'[f] = checks[f], Entering(f)' \subseteq Entering(f)
      PROVE  /\ preauths'[f] = Absent => checks'[f] = 0
             /\ preauths'[f] # Absent =>
                  checks'[f] + Cardinality(Entering(f)') <= preauths'[f].attempts
  BY <1>0, <1>2, SmallerEntering, BudgetKept, SMTT(20)
<1>3. CASE Quiet
  <2>1. checks'[f] = checks[f] /\ Entering(f)' \subseteq Entering(f)
    BY <1>3 DEF Quiet, Entering
  <2>2. QED
    BY <1>2, <2>1, Zenon
<1>4. CASE Restart
  <2>1. checks'[f] = checks[f] /\ Entering(f)' \subseteq Entering(f)
    BY <1>4 DEF Restart, Entering, Idle, history
  <2>2. QED
    BY <1>2, <2>1, Zenon
<1>5. CASE \E r \in Request : Submits(r)
  <2>1. checks'[f] = checks[f] /\ Entering(f)' \subseteq Entering(f)
    BY <1>5 DEF Submits, Entering
  <2>2. QED
    BY <1>2, <2>1, Zenon
<1>6. CASE \E r \in Request : Releases(r) \/ Commits(r) \/ Stops(r)
  <2>1. PICK r \in Request : Releases(r) \/ Commits(r) \/ Stops(r)
    BY <1>6
  <2>2. checks'[f] = checks[f] /\ \E at \in {"idle", "rehash", "commit"} : Moves(r, at)
    BY <2>1 DEF Releases, Commits, Stops
  <2>3. Entering(f)' \subseteq Entering(f)
    BY <2>2, EnteringMoves DEF Stage
  <2>4. QED
    BY <1>2, <2>2, <2>3, Zenon
<1>7. CASE \E r \in Request : Reserves(r)
  <2>1. PICK r \in Request : Reserves(r)
    BY <1>7
  <2>2. /\ checks'[f] = checks[f] /\ Moves(r, "enter") /\ r \notin Entering(f)
        /\ Entering(f)' = IF request[r].form = f THEN Entering(f) \cup {r}
                                                 ELSE Entering(f) \ {r}
    BY <2>1, EnteringMoves, Zenon DEF Reserves, Stage, Entering
  <2>3. CASE request[r].form # f
    BY <1>2, <2>2, <2>3, Zenon
  <2>4. CASE request[r].form = f
    <3>1. Cardinality(Entering(f)') = Cardinality(Entering(f)) + 1
      BY <1>0, <2>2, <2>4, OneMore
    <3>2. preauths[f] # Absent /\ preauths'[f].attempts = preauths[f].attempts + 1
          /\ preauths'[f] # Absent
      BY <1>0, <2>1, <2>4, Zenon DEF Reserves, RowsGrow
    <3>3. checks[f] + Cardinality(Entering(f)) <= preauths[f].attempts
      BY <3>2, SMTT(20) DEF BudgetInv
    <3>4. checks[f] \in Nat /\ Cardinality(Entering(f)) \in Nat /\ preauths[f].attempts \in Nat
      BY <1>0, <3>2, Subsets, RowTypes, LoginFormAssumption, SMTT(20) DEF TypeOK
    <3>5. QED
      BY <2>2, <3>1, <3>2, <3>3, <3>4, SMTT(20)
  <2>5. QED
    BY <2>3, <2>4
<1>8. CASE \E r \in Request : Acquires(r)
  <2>1. PICK r \in Request : Acquires(r)
    BY <1>8
  <2>2. /\ preauths' = preauths
        /\ \E at \in {"hashing", "rehashing"} : Moves(r, at)
        /\ checks' = IF request[r].at = "enter"
                     THEN [checks EXCEPT ![request[r].form] = @ + 1] ELSE checks
    BY <2>1 DEF Acquires
  <2>3. Entering(f)' = Entering(f) \ {r}
    BY <2>2, EnteringMoves DEF Stage
  <2>4. CASE r \in Entering(f)
    <3>1. Cardinality(Entering(f)') = Cardinality(Entering(f)) - 1
      BY <1>0, <2>3, <2>4, OneLess
    <3>2. checks'[f] = checks[f] + 1
      BY <2>2, <2>4 DEF Entering, TypeOK
    <3>3. preauths[f] # Absent
      BY <2>4 DEF BoundInv, Entering
    <3>4. checks[f] + Cardinality(Entering(f)) <= preauths[f].attempts
      BY <3>3 DEF BudgetInv
    <3>5. checks[f] \in Nat /\ Cardinality(Entering(f)) \in Nat
      BY <1>0, Subsets DEF TypeOK
    <3>6. QED
      BY <2>2, <3>1, <3>2, <3>3, <3>4, <3>5
  <2>5. CASE r \notin Entering(f)
    <3>1. checks'[f] = checks[f]
      BY <2>2, <2>5 DEF Entering, TypeOK
    <3>2. QED
      BY <1>2, <2>3, <3>1
  <2>6. QED
    BY <2>4, <2>5, Zenon
<1>9. QED
  BY <1>3, <1>4, <1>5, <1>6, <1>7, <1>8, Steps, Zenon

-----------------------------------------------------------------------------
(* Theorems.                                                               *)

LEMMA FormInit == Init => FormInv
<1> SUFFICES ASSUME Init PROVE FormInv
  OBVIOUS
<1>1. TypeOK
  BY LoginFormAssumption DEF Init, TypeOK
<1>2. \A r \in Request : request[r].at = "idle"
  BY DEF Init, Idle
<1>3. BoundInv /\ BudgetInv /\ OpenInv
  BY <1>2 DEF Init, BoundInv, BudgetInv, OpenInv
<1>4. Hashing = {}
  BY <1>2 DEF Hashing
<1>5. GateInv
  BY <1>4, FS_EmptySet DEF GateInv, Init
<1>6. QED
  BY <1>1, <1>3, <1>5 DEF FormInv

LEMMA FormStep == FormInv /\ [Next]_vars => FormInv'
<1> SUFFICES ASSUME FormInv, [Next]_vars PROVE FormInv'
  OBVIOUS
<1>1. CASE Next
  BY <1>1, BoundStep, GateStep, BudgetStep, OpenStep DEF FormInv
<1>2. CASE UNCHANGED vars
  <2>1. UNCHANGED <<now, transactions, preauths, request, gate, checks, opened>>
    BY <1>2 DEF vars
  <2>2. Hashing' = Hashing /\ \A f \in Form : Entering(f)' = Entering(f)
    BY <2>1 DEF Hashing, Entering
  <2>3. TypeOK' /\ BoundInv' /\ OpenInv'
    BY <2>1, Zenon DEF FormInv, TypeOK, BoundInv, OpenInv
  <2>4. GateInv' /\ BudgetInv'
    BY <2>1, <2>2, Zenon DEF FormInv, GateInv, BudgetInv
  <2>5. QED
    BY <2>3, <2>4 DEF FormInv
<1>3. QED
  BY <1>1, <1>2

\* The inductive invariant.  Its second conjunct says that the places of the
\* gate in use are the submissions that hash, whatever becomes of them
\* (acquire and the deferred release).
THEOREM FormInvariant == Spec => []FormInv
BY FormInit, FormStep, PTL DEF Spec

\* The attempt budget of a form bounds the password checks made for it, however
\* many submissions run at once (ReservePreAuthAttempt).
THEOREM AttemptBudgetHolds == Spec => []AttemptBudget
<1>1. FormInv => AttemptBudget
  <2>1. SUFFICES ASSUME FormInv, NEW f \in Form PROVE checks[f] <= MaxAttempts
    BY DEF AttemptBudget
  <2>2. TypeOK /\ BudgetInv /\ Entering(f) \subseteq Request
    BY <2>1 DEF FormInv, Entering
  <2>3. Cardinality(Entering(f)) \in Nat /\ checks[f] \in Nat
    BY <2>2, Subsets DEF TypeOK
  <2>4. CASE preauths[f] = Absent
    BY <2>1, <2>2, <2>4, LoginFormAssumption DEF BudgetInv
  <2>5. CASE preauths[f] # Absent
    <3>1. preauths[f].attempts \in 0..MaxAttempts
      BY <2>1, <2>2, <2>5, RowTypes
    <3>2. checks[f] + Cardinality(Entering(f)) <= preauths[f].attempts
      BY <2>1, <2>2, <2>5 DEF BudgetInv
    <3>3. QED
      BY <2>3, <3>1, <3>2, LoginFormAssumption
  <2>6. QED
    BY <2>4, <2>5
<1>2. QED
  BY <1>1, FormInvariant, PTL

\* A form opens one session at most, and so does a local transaction shown in
\* several forms; one the cleanup loop has marked expired opens none
\* (ConsumePreAuthSession, ConsumeAuthTransaction).
THEOREM OpensOnceHolds == Spec => []OpensOnce
<1>1. FormInv => OpensOnce
  <2>1. SUFFICES ASSUME FormInv PROVE OpensOnce
    OBVIOUS
  <2>2. TypeOK /\ OpenInv
    BY <2>1 DEF FormInv
  <2>3. ASSUME NEW t \in Transaction, transactions[t].kind = "local"
        PROVE  /\ Cardinality(OpenedBy(t)) <= 1
               /\ transactions[t].state = "expired" => OpenedBy(t) = {}
    <3>1. \A f, g \in OpenedBy(t) : f = g
      BY <2>2, <2>3 DEF OpenedBy, OpenInv
    <3>2. transactions[t].state = "expired" => OpenedBy(t) = {}
      BY <2>2, <2>3 DEF OpenedBy, OpenInv
    <3>3. CASE OpenedBy(t) = {}
      BY <3>2, <3>3, FS_EmptySet
    <3>4. CASE OpenedBy(t) # {}
      <4>1. PICK f \in OpenedBy(t) : TRUE
        BY <3>4
      <4>2. OpenedBy(t) = {f}
        BY <3>1, <4>1
      <4>3. Cardinality(OpenedBy(t)) = 1
        BY <4>2, FS_Singleton
      <4>4. QED
        BY <3>2, <4>3
    <3>5. QED
      BY <3>3, <3>4
  <2>4. QED
    BY <2>2, <2>3, Zenon DEF OpensOnce, OpenInv
<1>2. QED
  BY <1>1, FormInvariant, PTL
=============================================================================
