------------------------ MODULE MCLogoutTransaction ------------------------
EXTENDS LogoutTransaction, TLC

Symmetry == Permutations(Session) \cup Permutations(Txn) \cup Permutations(Request)
            \cup Permutations(User)
=============================================================================
