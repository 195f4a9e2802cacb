------------------------------- MODULE OneShot -------------------------------
(***************************************************************************)
(* What the server promises of a transaction that a browser carries through *)
(* several requests: it is opened once, decided at most once, and its       *)
(* decision has its effect in the very step in which it becomes known, once *)
(* and only if it is one of the decisions that have an effect.  Afterwards  *)
(* the row may be forgotten, and the effect stays what it was.              *)
(*                                                                          *)
(* AuthorizeFlow and LogoutTransaction implement it, with concurrent        *)
(* requests, unlocked reads and later commits in place of Decide.           *)
(***************************************************************************)
EXTENDS Naturals

CONSTANTS
    Item,        \* the transactions
    Verdict,     \* how one may be decided
    Granting     \* the verdicts that have an effect

VARIABLES
    verdict,     \* "absent", "open", a verdict, or "forgotten"
    effects      \* how often the effect of the transaction was brought about

Init ==
    /\ verdict = [i \in Item |-> "absent"]
    /\ effects = [i \in Item |-> 0]

Open(i) ==
    /\ verdict[i] = "absent"
    /\ verdict' = [verdict EXCEPT ![i] = "open"]
    /\ UNCHANGED effects

Decide(i, v) ==
    /\ verdict[i] = "open"
    /\ verdict' = [verdict EXCEPT ![i] = v]
    /\ effects' = IF v \in Granting THEN [effects EXCEPT ![i] = @ + 1] ELSE effects

Forget(old) ==
    /\ \A i \in old : verdict[i] \notin {"absent", "forgotten"}
    /\ verdict' = [i \in Item |-> IF i \in old THEN "forgotten" ELSE verdict[i]]
    /\ UNCHANGED effects

Next ==
    /\ verdict' # verdict
    /\ \/ \E i \in Item : Open(i) \/ \E v \in Verdict : Decide(i, v)
       \/ \E old \in SUBSET Item : Forget(old)

Spec == Init /\ [][Next]_<<verdict, effects>>
=============================================================================
