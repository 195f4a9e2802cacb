-------------------------- MODULE MCClientRegistry --------------------------
(* The instance of ClientRegistry that TLC checks.                         *)
EXTENDS ClientRegistry, TLC

Symmetry ==
    Permutations(Process) \cup Permutations(Secret)
=============================================================================
