----------------------------- MODULE MCAccounts -----------------------------
(***************************************************************************)
(* Small instances of Accounts for TLC.                                    *)
(***************************************************************************)
EXTENDS Accounts, TLC

\* Tokens, and requests, differ in nothing but what happens to them.
Interchangeable == Permutations(Jti) \cup Permutations(Req)

\* The account comes first: from the admin command, which gives it one password and
\* one role, or by a registration, while anything else may arrive.
AccountFirst ==
    \A u \in User :
        /\ started = 0 => row[u].pw = NoRow.pw /\ row[u].role = NoRow.role
        /\ ~row[u].here => now = 1 /\ (started = 0 \/ \E r \in Req : req[r].kind = "register")

\* A ban is a matter of PostgreSQL, an outage one of Redis: not both at once.
OneStore == \A u \in User : row[u].ban.on => storeUp
=============================================================================
