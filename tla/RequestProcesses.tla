-------------------------- MODULE RequestProcesses --------------------------
(***************************************************************************)
(* The concurrent requests of SessionIsolation and ClientRegistry.  Both   *)
(* split database transactions at the statements where another request can *)
(* come in between, and both rest on row locks.                            *)
(***************************************************************************)
CONSTANTS
    Process,       \* requests in flight
    None           \* no row, no value, nobody
=============================================================================
