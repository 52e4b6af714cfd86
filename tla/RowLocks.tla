------------------------------ MODULE RowLocks ------------------------------
(***************************************************************************)
(* Row locks as the statements of the repositories take them, at the       *)
(* isolation level they run at (READ COMMITTED): what a request holds      *)
(* until its transaction ends, whom it waits for, and when the database    *)
(* breaks a deadlock by failing one of the statements.                     *)
(*                                                                         *)
(* A statement asks for its locks in stages: those of its own rows, those  *)
(* of the rows its foreign keys refer to, those of the rows its triggers   *)
(* update.  Within a stage the order is that of a scan, hence any.         *)
(***************************************************************************)
EXTENDS Naturals, Sequences

CONSTANT Req        \* the requests, each with a connection of its own

VARIABLE held       \* the locks each of them holds

\* Modes: "key" is taken by a foreign key on the row it refers to, "update" by
\* an UPDATE of other columns and by an insert on its place in a unique index,
\* "delete" by DELETE and by SELECT ... FOR UPDATE.
Lock(table, key, mode) == [row |-> <<table, key>>, mode |-> mode]

Conflicting(m, n) == "delete" \in {m, n} \/ (m = "update" /\ n = "update")

\* Request s holds something that keeps the lock l from being granted.
Denies(s, l) == \E h \in held[s] : h.row = l.row /\ Conflicting(h.mode, l.mode)

\* What request r waits for or may take next: of `needs`, its stages, those of the
\* first that is not complete.
Missing(r, needs) ==
    UNION {UNION {stages[i] \ held[r] :
                     i \in {n \in DOMAIN stages : \A k \in 1..(n - 1) : stages[k] \subseteq held[r]}} :
              stages \in {needs}}

\* Mutant of Take: a lock is granted whoever holds the row.
TakeAnyway(r, needs) ==
    \E l \in Missing(r, needs) : held' = [held EXCEPT ![r] = @ \cup {l}]

\* One more lock, when nobody holds one that conflicts.
Take(r, needs) ==
    \E l \in Missing(r, needs) :
        /\ \A s \in Req \ {r} : ~Denies(s, l)
        /\ held' = [held EXCEPT ![r] = @ \cup {l}]

\* The end of a transaction, committed or rolled back.
Release(r) == held' = [held EXCEPT ![r] = {}]

\* Everyone in S waits for someone in S; `needs` has the stages of each request.
Stuck(S, needs) ==
    S # {} /\ \A r \in S : \E s \in S \ {r}, l \in Missing(r, needs[r]) : Denies(s, l)

\* Request r is on a cycle of waiting requests: the smallest sets of requests
\* that are stuck are the cycles.
Deadlocked(r, needs) ==
    /\ held[r] # {}
    /\ \E S \in SUBSET Req : /\ r \in S
                             /\ Stuck(S, needs)
                             /\ \A T \in SUBSET S : Stuck(T, needs) => T = S

\* No two requests hold conflicting locks.
Exclusive ==
    \A r, s \in Req : r # s => \A l \in held[r] : ~Denies(s, l)
=============================================================================
