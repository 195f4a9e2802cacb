----------------------------- MODULE MCAccounts -----------------------------
EXTENDS Accounts

\* Updates of one field at a time.
AdminPatches ==
    {[NoPatch EXCEPT !.status = s] : s \in Status}
    \cup {[NoPatch EXCEPT !.role = r] : r \in Role}
    \cup {[NoPatch EXCEPT !.username = i] : i \in Username}
    \cup {[NoPatch EXCEPT !.email = i] : i \in Email}
=============================================================================
