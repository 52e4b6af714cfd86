---------------------------- MODULE RateLimiter ----------------------------
(***************************************************************************)
(* The fixed-window request limit: one counter in Redis for each rule,     *)
(* caller and window, counted up and given its expiry by one pipeline,     *)
(* which may break at any place.  The rule is only ever "streaming" or     *)
(* "user_api" here; the caller is an address, because on these routes the  *)
(* limiter runs before the authenticator.                                  *)
(***************************************************************************)
EXTENDS Clock

CONSTANTS Address, Rule,
          Budget,       \* of each rule: Requests and BurstSize
          RateWindow    \* in ticks

ASSUME RateAssumption ==
    /\ Budget \in [Rule -> Nat]
    /\ RateWindow \in Nat \ {0}

VARIABLES counter,      \* ratelimit:<rule>:<key>:<window>, with its expiry
          admitted,     \* history: requests counted and let through within their window
          leaked        \* history: counters created by a pipeline that broke
                        \* before EXPIRE and not counted up since

limiter == <<counter, admitted, leaked>>

WindowOf(t) == t \div RateWindow

Counter == Rule \X Address \X {WindowOf(t) : t \in Time}

NoCounter == [n |-> 0, expires |-> Never]

LimiterInit ==
    /\ counter = [k \in Counter |-> NoCounter]
    /\ admitted = [k \in Counter |-> 0]
    /\ leaked = {}

\* Mutant of Incr: the expiry is only set when the counter is new.
IncrExpireOnce(k) ==
    /\ counter' = [counter EXCEPT ![k] =
          [n |-> @.n + 1, expires |-> IF @.n = 0 THEN now + RateWindow ELSE @.expires]]
    /\ leaked' = leaked \ {k}

\* INCR and EXPIRE, on every request.
Incr(k) ==
    /\ counter' = [counter EXCEPT ![k] = [n |-> @.n + 1, expires |-> now + RateWindow]]
    /\ leaked' = leaked \ {k}

\* The pipeline breaks after INCR.
IncrBreaks(k) ==
    /\ counter' = [counter EXCEPT ![k].n = @ + 1]
    /\ leaked' = IF counter[k].n = 0 THEN leaked \cup {k} ELSE leaked

\* Does the request that counts k up next stay within the limit?
Allowed(k) == counter[k].n + 1 <= Budget[k[1]]

\* RateLimiter.Allow, with a decision.
Allow(k) ==
    /\ Incr(k)
    /\ admitted' = IF Allowed(k) /\ k[3] = WindowOf(now)
                   THEN [admitted EXCEPT ![k] = @ + 1] ELSE admitted

\* RateLimiter.Allow, with an error; the middleware lets the request through.
AllowFails(k) ==
    /\ Incr(k) \/ IncrBreaks(k) \/ UNCHANGED <<counter, leaked>>
    /\ UNCHANGED admitted

\* Redis drops what has expired.
LimiterTick ==
    /\ counter' = [k \in Counter |-> 
          IF counter[k].expires # Never /\ now + 1 >= counter[k].expires THEN NoCounter ELSE counter[k]]
    /\ UNCHANGED <<admitted, leaked>>

LimiterTypeOK ==
    /\ counter \in [Counter -> [n : Nat, expires : Nat \cup {Never}]]
    /\ admitted \in [Counter -> Nat]
    /\ leaked \subseteq Counter

\* Within its window a counter admits no more than the budget, whatever breaks,
\* and a counter lives on for ever only when the last pipeline that worked on it
\* broke before EXPIRE.  It is no bound on what the API lets through: a request
\* whose check fails passes uncounted, and one that is checked after its window
\* has ended is not charged to it.
WithinBudget ==
    /\ \A k \in Counter : admitted[k] <= Budget[k[1]]
    /\ \A k \in Counter : counter[k].n > 0 /\ counter[k].expires = Never => k \in leaked
=============================================================================
