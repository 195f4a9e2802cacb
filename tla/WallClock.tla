------------------------------ MODULE WallClock ------------------------------
(***************************************************************************)
(* The wall clock of RateLimiter and SessionActivity.  Both apply a reading *)
(* to shared state some time after it was taken.                            *)
(***************************************************************************)
CONSTANT MaxLag     \* how far a reading may be behind the clock when it is applied
VARIABLE now
=============================================================================
