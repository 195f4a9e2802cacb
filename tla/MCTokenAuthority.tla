-------------------------- MODULE MCTokenAuthority --------------------------
EXTENDS TokenAuthority, FiniteSets, TLC

Symmetry == Permutations(User) \cup Permutations(Session)
            \cup Permutations(Code) \cup Permutations(Family)
            \cup Permutations(Access)

Rows(table) == Cardinality({k \in DOMAIN table : table[k] # NoRow})

\* To keep the instance small: with two users and two codes, nothing expires.
FewRows ==
    \/ now = 0
    \/ Rows(codes) <= 1
    \/ Cardinality({u \in User : users[u] # "none"}) <= 1
=============================================================================
