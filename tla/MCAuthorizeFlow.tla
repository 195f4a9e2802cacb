--------------------------- MODULE MCAuthorizeFlow ---------------------------
EXTENDS AuthorizeFlow, TLC

Symmetry == Permutations(User) \cup Permutations(Session) \cup Permutations(Request)

\* Every prompt, two of them together, and max_age both as "since the request"
\* and as an age.
MCAsked == {[prompts |-> {}, maxAge |-> 0],
            [prompts |-> {"login", "consent"}, maxAge |-> None],
            [prompts |-> {"create"}, maxAge |-> None],
            [prompts |-> {"none"}, maxAge |-> 1]}
=============================================================================
