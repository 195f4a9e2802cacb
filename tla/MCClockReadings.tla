--------------------------- MODULE MCClockReadings ---------------------------
(***************************************************************************)
(* The parts that apply old readings of the clock to shared state, for TLC: *)
(* the rate limiter and the activity of a session.  allow, allowClient and  *)
(* the session share nothing but the clock, so their interleavings show     *)
(* nothing that they do not show apart: a behaviour is one of allow, one of *)
(* allowClient or one of the session.                                       *)
(***************************************************************************)
EXTENDS RateLimiter, SessionActivity, TLC

VARIABLE part        \* what the behaviour is about

MCInit ==
    /\ Init /\ SessionInit
    /\ \/ part = "allow" /\ watched \in Address \cup {Whole}
       \/ part = "allowClient" /\ watched \in Client
       \/ part = "session" /\ watched = Whole

MCNext ==
    /\ UNCHANGED part
    /\ \/ /\ \/ part = "allow" /\ CallAllow
             \/ part = "allowClient" /\ CallAllowClient
             \/ part # "session" /\ Tick
          /\ UNCHANGED <<row, jar, page, request, issued, active, quiet>>
       \/ /\ part = "session" /\ SessionNext
          /\ UNCHANGED <<global, clients, authenticated, nextSweep, nextAuthSweep, watched,
                         spent, drops>>

MCSpec == MCInit /\ [][MCNext]_<<part, vars, sessionVars>>

\* The tabs are interchangeable.
Symmetry == Permutations(Tab)
=============================================================================
