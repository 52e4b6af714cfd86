------------------------------ MODULE Sessions ------------------------------
(***************************************************************************)
(* Stateless tokens and the denylist that revokes them: the JWTs that      *)
(* TokenService signs, the two kinds of Redis entries SessionService       *)
(* writes, and the checks that every authenticated request and every       *)
(* refresh make.  Who mints and who revokes is left to Accounts, which     *)
(* extends this module; here the operations come in any order.             *)
(*                                                                         *)
(* Time is counted in the milliseconds of the iat_ms claim.  An entry of   *)
(* Redis with a time to live is the time at which it disappears.           *)
(***************************************************************************)
EXTENDS Integers, Roles

CONSTANTS
    User,
    Jti,         \* identities of the tokens that may ever be minted
    Role,        \* the roles in use, among AllRoles
    AccessTTL,   \* cfg.Auth.AccessTokenTTL
    RefreshTTL,  \* cfg.Auth.RefreshTokenTTL
    FailOpen,    \* cfg.Auth.RevocationFailOpen
    StoreFails,  \* may Redis become unreachable?
    MaxTime      \* bound on the clock, for TLC

ASSUME SessionAssumption ==
    /\ AccessTTL \in Nat \ {0} /\ RefreshTTL \in Nat \ {0}
    /\ AccessTTL <= RefreshTTL
    /\ User # {} /\ Role # {} /\ Role \subseteq AllRoles
    /\ FailOpen \in BOOLEAN /\ StoreFails \in BOOLEAN
    /\ MaxTime \in Nat

VARIABLES
    now,
    issued,   \* the jtis minted so far
    tok,      \* the claims of each of them
    denied,   \* auth:revoked:jti:<jti>; 0 when never written
    marker,   \* auth:revoked:user:ms:<user>
    storeUp,  \* does Redis answer?
    dead,     \* history: tokens a revocation that reported success covered
    revived   \* history: those of them that an older marker has uncovered again

redis == <<denied, marker>>
history == <<dead, revived>>
svars == <<now, issued, tok, denied, marker, storeUp, history>>

\* SessionService.maxTokenTTL, as app.go constructs the service.
MarkerTTL == AccessTTL

-----------------------------------------------------------------------------
(* Tokens *)

TokenType == {"access", "refresh"}

Token == [user : User, type : TokenType, role : Role, iat : Nat, exp : Nat]

\* Mutant of Claims: the expiry is not counted from now.
ClaimsShort(u, type, role, ttl) ==
    [user |-> u, type |-> type, role |-> role, iat |-> now, exp |-> ttl - now]

\* The claims sign() puts in a token of user u.
Claims(u, type, role, ttl) ==
    [user |-> u, type |-> type, role |-> role, iat |-> now, exp |-> now + ttl]

TTL(type) == IF type = "access" THEN AccessTTL ELSE RefreshTTL

\* ValidateToken: a signature of ours, not yet expired.
Valid(j) == j \in issued /\ now < tok[j].exp

\* ValidateAccessToken and ValidateRefreshToken
ValidAs(j, type) == Valid(j) /\ tok[j].type = type

\* IsRevoked, when Redis answers.
IsRevoked(j) ==
    \/ now < denied[j]
    \/ LET m == marker[tok[j].user]
       IN  now < m.until /\ tok[j].iat < m.cutoff

\* checkRevocation: the middleware may be told to let requests through while
\* Redis is unreachable; Refresh may not.
Unrevoked(j) == IF storeUp THEN ~IsRevoked(j) ELSE FailOpen

\* principalFromRequest: the token authenticates a request.
Accepted(j) == ValidAs(j, "access") /\ Unrevoked(j)

\* RequirePermission, behind RequireAuth.
Permitted(j, permission) == Accepted(j) /\ HasPermission(tok[j].role, permission)

-----------------------------------------------------------------------------
(* Operations *)

\* GenerateToken and GenerateRefreshToken
Sign(j, u, type, role) ==
    /\ j \notin issued
    /\ issued' = issued \cup {j}
    /\ tok' = [tok EXCEPT ![j] = Claims(u, type, role, TTL(type))]
    /\ UNCHANGED <<now, redis, storeUp, history>>

\* Mutant of RevokeToken: the entry gets a full lifetime of its own.
RevokeTokenLong(j) ==
    /\ storeUp /\ Valid(j)
    /\ denied' = [denied EXCEPT ![j] = now + RefreshTTL]
    /\ dead' = dead \cup {j} /\ revived' = revived \ {j}
    /\ UNCHANGED <<now, issued, tok, marker, storeUp>>

\* RevokeToken: the entry lives exactly as long as the token would have.
RevokeToken(j) ==
    /\ storeUp /\ Valid(j)
    /\ denied' = [denied EXCEPT ![j] = tok[j].exp]
    /\ dead' = dead \cup {j} /\ revived' = revived \ {j}
    /\ UNCHANGED <<now, issued, tok, marker, storeUp>>

\* The tokens of u issued up to a time, and those that the marker there is covers
\* and one with an older cutoff does not.
IssuedUpTo(u, at) == {j \in issued : tok[j].user = u /\ tok[j].iat <= at}
Uncovered(u, at) ==
    {j \in dead : /\ tok[j].user = u /\ at < tok[j].iat /\ tok[j].iat < marker[u].cutoff
                  /\ denied[j] = 0}

\* Mutant of RevokeAllUserSessions: tokens of the current millisecond slip through.
RevokeAllButNewest(u, at) ==
    /\ storeUp
    /\ marker' = [marker EXCEPT ![u] = [cutoff |-> at, until |-> now + MarkerTTL]]
    /\ dead' = dead \cup IssuedUpTo(u, at)
    /\ revived' = (revived \ IssuedUpTo(u, at)) \cup Uncovered(u, at)
    /\ UNCHANGED <<now, issued, tok, denied, storeUp>>

\* RevokeAllUserSessions, the SET, after a cutoff computed at time `at`: one
\* millisecond ahead, to cover tokens minted within the current one.  Whatever
\* marker there is gets overwritten, one with a later cutoff too.
RevokeAllUserSessions(u, at) ==
    /\ storeUp
    /\ marker' = [marker EXCEPT ![u] = [cutoff |-> at + 1, until |-> now + MarkerTTL]]
    /\ dead' = dead \cup IssuedUpTo(u, at)
    /\ revived' = (revived \ IssuedUpTo(u, at)) \cup Uncovered(u, at)
    /\ UNCHANGED <<now, issued, tok, denied, storeUp>>

Tick ==
    /\ now < MaxTime
    /\ now' = now + 1
    /\ UNCHANGED <<issued, tok, redis, storeUp, history>>

\* Redis becomes unreachable, or reachable again; it keeps what it holds.
Outage ==
    /\ StoreFails
    /\ storeUp' = ~storeUp
    /\ UNCHANGED <<now, issued, tok, redis, history>>

-----------------------------------------------------------------------------

NoToken == [user |-> CHOOSE u \in User : TRUE, type |-> "access",
            role |-> CHOOSE r \in Role : TRUE, iat |-> 0, exp |-> 0]

SessionsInit ==
    /\ now = 1
    /\ issued = {}
    /\ tok = [j \in Jti |-> NoToken]
    /\ denied = [j \in Jti |-> 0]
    /\ marker = [u \in User |-> [cutoff |-> 0, until |-> 0]]
    /\ storeUp = TRUE
    /\ dead = {} /\ revived = {}

SessionsNext ==
    \/ \E j \in Jti, u \in User, type \in TokenType, role \in Role : Sign(j, u, type, role)
    \/ \E j \in Jti : RevokeToken(j)
    \/ \E u \in User, at \in 0..now : RevokeAllUserSessions(u, at)
    \/ Tick
    \/ Outage

SessionsSpec == SessionsInit /\ [][SessionsNext]_svars

-----------------------------------------------------------------------------
(* Properties *)

SessionsTypeOK ==
    /\ now \in Nat
    /\ issued \subseteq Jti
    /\ tok \in [Jti -> Token]
    /\ denied \in [Jti -> Nat]
    /\ marker \in [User -> [cutoff : Nat, until : Nat]]
    /\ storeUp \in BOOLEAN
    /\ dead \subseteq issued /\ revived \subseteq dead

\* The token neither authenticates a request nor buys a new access token, as long
\* as Redis answers or the middleware fails closed.
Useless(j) ==
    storeUp \/ ~FailOpen =>
        ~Accepted(j) /\ ~(ValidAs(j, "refresh") /\ storeUp /\ ~IsRevoked(j))

\* "Once maxTokenTTL has passed, every token the marker could deny has already expired
\* on its own": what a logout, a logout-all or a new password has revoked stays useless
\* until it expires by itself.
DeadStaysDead == \A j \in dead : Useless(j)

\* A refresh token that only the marker of its user denied, which has expired first.
Forgotten(j) ==
    /\ tok[j].type = "refresh" /\ denied[j] = 0
    /\ marker[tok[j].user].until <= now

\* What there is of that in the code.  A revoked access token stays useless, although
\* its entries expire one after the other, and so does whatever was logged out by
\* itself; a refresh token that a logout-all or a new password revoked, as long as the
\* marker lives.  The one exception: two revocations of one user whose SETs land in
\* the wrong order bring back what was issued between their cutoffs.
RevokedStayUseless == \A j \in dead \ revived : Forgotten(j) \/ Useless(j)

\* "Every entry carries a TTL no longer than the tokens it denies": no entry for
\* a single token outlives the token.
EntriesDieWithTokens == \A j \in Jti : now < denied[j] => Valid(j)
=============================================================================
