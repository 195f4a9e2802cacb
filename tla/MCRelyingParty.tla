--------------------------- MODULE MCRelyingParty ---------------------------
EXTENDS RelyingParty, TLC

Symmetry == Permutations(Request)
=============================================================================
