--------------------------- MODULE SessionsProofs ---------------------------
(***************************************************************************)
(* Proofs about Sessions: what a revocation covered stays useless, but for *)
(* refresh tokens that outlive the logout-everywhere marker and tokens     *)
(* that a marker with an older cutoff has uncovered.                       *)
(*                                                                         *)
(* RevokedStayUseless is not inductive: it says nothing of tokens while    *)
(* they are refused, nor of the entries that will expire next.  `Covered`  *)
(* does: each of the tokens has an entry, its own, which lives as long as  *)
(* the token, or its user's marker, which lives as long as an access       *)
(* token.  A later logout-everywhere overwrites the marker, so the step    *)
(* needs to know that no token was issued in the future and none outlives  *)
(* the lifetime of its type: `Lifetimes`.                                  *)
(***************************************************************************)
EXTENDS Sessions, TLAPS

Lifetimes ==
    \A j \in issued : tok[j].iat <= now /\ tok[j].exp <= tok[j].iat + TTL(tok[j].type)

\* The entry of a single token is the token's own expiry.
Entries == \A j \in Jti : denied[j] > 0 => j \in issued /\ denied[j] = tok[j].exp

\* The marker of its user denies the token for as long as an access token lives.
Marked(j) ==
    /\ tok[j].iat < marker[tok[j].user].cutoff
    /\ tok[j].type = "access" => tok[j].exp <= marker[tok[j].user].until

Covered == \A j \in dead \ revived : denied[j] = tok[j].exp \/ Marked(j)

SessionsInv == SessionsTypeOK /\ Lifetimes /\ Entries /\ Covered

-----------------------------------------------------------------------------
(* Type correctness *)

LEMMA ClaimsType ==
    ASSUME SessionAssumption, SessionsTypeOK,
           NEW u \in User, NEW type \in TokenType, NEW role \in Role
    PROVE  /\ Claims(u, type, role, TTL(type)) \in Token
           /\ Claims(u, type, role, TTL(type)).iat = now
           /\ Claims(u, type, role, TTL(type)).type = type
           /\ Claims(u, type, role, TTL(type)).exp = now + TTL(type)
  <1>1. TTL(type) \in Nat
    BY DEF SessionAssumption, TTL
  <1>2. now \in Nat /\ now + TTL(type) \in Nat
    BY <1>1 DEF SessionsTypeOK
  <1> QED  BY <1>1, <1>2, SessionAssumption DEF SessionAssumption, Claims, Token

LEMMA NoTokenType ==
    ASSUME SessionAssumption
    PROVE  NoToken \in Token
  <1>1. (CHOOSE u \in User : TRUE) \in User  BY DEF SessionAssumption
  <1>2. (CHOOSE r \in Role : TRUE) \in Role  BY DEF SessionAssumption
  <1> QED  BY <1>1, <1>2 DEF NoToken, Token, TokenType

LEMMA InitInv ==
    ASSUME SessionAssumption, SessionsInit
    PROVE  SessionsInv
  <1>1. SessionsTypeOK
    BY NoTokenType DEF SessionsInit, SessionsTypeOK
  <1> QED  BY <1>1 DEF SessionsInit, SessionsInv, Lifetimes, Entries, Covered

\* Whatever the cutoff is.
LEMMA RevokeAllType ==
    ASSUME SessionAssumption, SessionsTypeOK, NEW u \in User, NEW at \in Nat,
           RevokeAllUserSessions(u, at)
    PROVE  SessionsTypeOK'
  <1> USE DEF SessionsTypeOK
  <1>1. at + 1 \in Nat /\ now + MarkerTTL \in Nat  BY DEF SessionAssumption, MarkerTTL
  <1>2. IssuedUpTo(u, at) \subseteq issued /\ Uncovered(u, at) \subseteq dead
    BY DEF IssuedUpTo, Uncovered
  <1> QED  BY <1>1, <1>2 DEF RevokeAllUserSessions

LEMMA StepType ==
    ASSUME SessionAssumption, SessionsTypeOK, [SessionsNext]_svars
    PROVE  SessionsTypeOK'
  <1> USE DEF SessionsTypeOK
  <1>1. CASE UNCHANGED svars
    BY <1>1 DEF svars, redis, history
  <1>2. ASSUME NEW j \in Jti, NEW u \in User, NEW type \in TokenType, NEW role \in Role,
               Sign(j, u, type, role)
        PROVE  SessionsTypeOK'
    BY <1>2, ClaimsType DEF Sign, redis, history
  <1>3. ASSUME NEW j \in Jti, RevokeToken(j)
        PROVE  SessionsTypeOK'
    <2>1. tok[j].exp \in Nat  BY DEF Token
    <2>2. j \in issued  BY <1>3 DEF RevokeToken, Valid
    <2> QED  BY <1>3, <2>1, <2>2 DEF RevokeToken
  <1>4. ASSUME NEW u \in User, NEW at \in 0..now, RevokeAllUserSessions(u, at)
        PROVE  SessionsTypeOK'
    BY <1>4, RevokeAllType
  <1>5. CASE Tick
    BY <1>5 DEF Tick, redis, history
  <1>6. CASE Outage
    BY <1>6 DEF Outage, redis, history
  <1> QED  BY <1>1, <1>2, <1>3, <1>4, <1>5, <1>6 DEF SessionsNext

-----------------------------------------------------------------------------
(* The entries outlive what they deny *)

LEMMA StepLifetimes ==
    ASSUME SessionAssumption, SessionsInv, [SessionsNext]_svars
    PROVE  Lifetimes'
  <1> USE DEF SessionsInv, Lifetimes
  <1>1. CASE UNCHANGED svars
    BY <1>1 DEF svars, redis, history
  <1>2. ASSUME NEW j \in Jti, NEW u \in User, NEW type \in TokenType, NEW role \in Role,
               Sign(j, u, type, role)
        PROVE  Lifetimes'
    <2> SUFFICES ASSUME NEW i \in issued'
                 PROVE  tok'[i].iat <= now' /\ tok'[i].exp <= tok'[i].iat + TTL(tok'[i].type)
      OBVIOUS
    <2>1. now' = now /\ now \in Nat  BY <1>2 DEF Sign, SessionsTypeOK
    <2>2. CASE i = j
      <3>1. tok'[i] = Claims(u, type, role, TTL(type))
        BY <1>2, <2>2 DEF Sign, SessionsTypeOK
      <3>2. TTL(type) \in Nat  BY DEF SessionAssumption, TTL
      <3> QED  BY <2>1, <3>1, <3>2, ClaimsType
    <2>3. CASE i # j
      <3>1. i \in issued /\ tok'[i] = tok[i]
        BY <1>2, <2>3 DEF Sign, SessionsTypeOK
      <3> QED  BY <2>1, <3>1
    <2> QED  BY <2>2, <2>3
  <1>3. ASSUME NEW j \in Jti, RevokeToken(j)
        PROVE  Lifetimes'
    BY <1>3 DEF RevokeToken
  <1>4. ASSUME NEW u \in User, NEW at \in 0..now, RevokeAllUserSessions(u, at)
        PROVE  Lifetimes'
    BY <1>4 DEF RevokeAllUserSessions
  <1>5. CASE Tick
    <2>1. issued' = issued /\ tok' = tok /\ now' = now + 1  BY <1>5 DEF Tick
    <2>2. now \in Nat /\ \A j \in issued : tok[j].iat \in Nat
      BY DEF SessionsTypeOK, Token
    <2> QED  BY <2>1, <2>2
  <1>6. CASE Outage
    BY <1>6 DEF Outage
  <1> QED  BY <1>1, <1>2, <1>3, <1>4, <1>5, <1>6 DEF SessionsNext

LEMMA StepEntries ==
    ASSUME SessionAssumption, SessionsTypeOK, Entries, [SessionsNext]_svars
    PROVE  Entries'
  <1> USE DEF Entries
  <1>1. CASE UNCHANGED svars
    BY <1>1 DEF svars, redis, history
  <1>2. ASSUME NEW j \in Jti, NEW u \in User, NEW type \in TokenType, NEW role \in Role,
               Sign(j, u, type, role)
        PROVE  Entries'
    <2>1. \A i \in issued : i # j /\ tok'[i] = tok[i]
      BY <1>2 DEF Sign, SessionsTypeOK
    <2> QED  BY <1>2, <2>1 DEF Sign, redis, history
  <1>3. ASSUME NEW j \in Jti, RevokeToken(j)
        PROVE  Entries'
    <2>1. j \in issued /\ denied'[j] = tok[j].exp
      BY <1>3 DEF RevokeToken, Valid, SessionsTypeOK
    <2>2. \A i \in Jti : i # j => denied'[i] = denied[i]
      BY <1>3 DEF RevokeToken, SessionsTypeOK
    <2> QED  BY <1>3, <2>1, <2>2 DEF RevokeToken
  <1>4. ASSUME NEW u \in User, NEW at \in 0..now, RevokeAllUserSessions(u, at)
        PROVE  Entries'
    BY <1>4 DEF RevokeAllUserSessions
  <1>5. CASE Tick
    BY <1>5 DEF Tick, redis, history
  <1>6. CASE Outage
    BY <1>6 DEF Outage, redis, history
  <1> QED  BY <1>1, <1>2, <1>3, <1>4, <1>5, <1>6 DEF SessionsNext

\* The marker always lives as long as an access token issued before it is written.
LEMMA StepCovered ==
    ASSUME SessionAssumption, SessionsInv, [SessionsNext]_svars
    PROVE  Covered'
  <1> USE DEF SessionsInv, Covered, Marked
  <1>1. CASE UNCHANGED svars
    BY <1>1 DEF svars, redis, history
  <1>2. ASSUME NEW j \in Jti, NEW u \in User, NEW type \in TokenType, NEW role \in Role,
               Sign(j, u, type, role)
        PROVE  Covered'
    <2>1. \A i \in dead : i # j /\ tok'[i] = tok[i]
      BY <1>2 DEF Sign, SessionsTypeOK
    <2> QED  BY <1>2, <2>1 DEF Sign, redis, history
  <1>3. ASSUME NEW j \in Jti, RevokeToken(j)
        PROVE  Covered'
    <2>1. denied'[j] = tok[j].exp
      BY <1>3 DEF RevokeToken, Valid, SessionsTypeOK
    <2>2. \A i \in Jti : i # j => denied'[i] = denied[i]
      BY <1>3 DEF RevokeToken, SessionsTypeOK
    <2>3. dead \subseteq Jti  BY DEF SessionsTypeOK
    <2>4. dead' \ revived' \subseteq (dead \ revived) \cup {j}
      BY <1>3 DEF RevokeToken
    <2>5. UNCHANGED <<tok, marker>>  BY <1>3 DEF RevokeToken
    <2> QED  BY <2>1, <2>2, <2>3, <2>4, <2>5
  <1>4. ASSUME NEW u \in User, NEW at \in 0..now, RevokeAllUserSessions(u, at)
        PROVE  Covered'
    <2>1. /\ UNCHANGED <<now, issued, tok, denied>>
          /\ marker' = [marker EXCEPT ![u] = [cutoff |-> at + 1, until |-> now + AccessTTL]]
          /\ dead' = dead \cup IssuedUpTo(u, at)
          /\ revived' = (revived \ IssuedUpTo(u, at)) \cup Uncovered(u, at)
      BY <1>4 DEF RevokeAllUserSessions, MarkerTTL
    <2> SUFFICES ASSUME NEW j \in dead' \ revived'
                 PROVE  denied[j] = tok[j].exp \/ Marked(j)'
      BY <2>1
    <2>2. j \in issued
      BY <2>1 DEF SessionsTypeOK, IssuedUpTo
    <2>3. /\ tok[j] \in Token /\ now \in Nat /\ AccessTTL \in Nat /\ j \in Jti
          /\ marker[u].cutoff \in Nat /\ denied[j] \in Nat
      BY <2>2 DEF SessionsTypeOK, SessionAssumption
    <2>4. /\ tok[j].iat <= now /\ tok[j].exp <= tok[j].iat + TTL(tok[j].type)
          /\ tok[j].iat \in Nat /\ tok[j].exp \in Nat
      BY <2>2, <2>3 DEF Lifetimes, Token
    <2>5. CASE tok[j].user # u
      <3>1. j \in dead \ revived  BY <2>1, <2>5 DEF IssuedUpTo, Uncovered
      <3>2. marker'[tok[j].user] = marker[tok[j].user]
        BY <2>1, <2>5 DEF SessionsTypeOK
      <3> QED  BY <2>1, <3>1, <3>2
    <2>6. CASE tok[j].user = u /\ tok[j].iat <= at
      <3>1. marker'[tok[j].user] = [cutoff |-> at + 1, until |-> now + AccessTTL]
        BY <2>1, <2>6 DEF SessionsTypeOK
      <3>2. tok[j].iat < at + 1  BY <2>4, <2>6
      <3>3. tok[j].type = "access" => tok[j].exp <= now + AccessTTL
        BY <2>3, <2>4 DEF TTL
      <3> QED  BY <2>1, <3>1, <3>2, <3>3
    <2>7. CASE tok[j].user = u /\ at < tok[j].iat
      <3>1. j \in dead /\ j \notin revived /\ j \notin Uncovered(u, at)
        <4>1. j \notin IssuedUpTo(u, at)  BY <2>4, <2>7 DEF IssuedUpTo
        <4> QED  BY <2>1, <4>1
      <3>2. denied[j] = tok[j].exp \/ tok[j].iat < marker[u].cutoff
        BY <2>7, <3>1
      <3>3. tok[j].iat < marker[u].cutoff => denied[j] # 0
        BY <2>7, <3>1 DEF Uncovered
      <3>4. denied[j] # 0 => denied[j] = tok[j].exp
        BY <2>3 DEF Entries
      <3> QED  BY <3>2, <3>3, <3>4
    <2> QED  BY <2>4, <2>5, <2>6, <2>7
  <1>5. CASE Tick
    BY <1>5 DEF Tick, redis, history
  <1>6. CASE Outage
    BY <1>6 DEF Outage, redis, history
  <1> QED  BY <1>1, <1>2, <1>3, <1>4, <1>5, <1>6 DEF SessionsNext

LEMMA CoveredIsRefused ==
    ASSUME SessionsInv
    PROVE  RevokedStayUseless
  <1> SUFFICES ASSUME NEW j \in dead \ revived, ~Forgotten(j)
               PROVE  Useless(j)
    BY DEF RevokedStayUseless
  <1>1. Valid(j) => IsRevoked(j)
    <2> SUFFICES ASSUME now < tok[j].exp  PROVE IsRevoked(j)
      BY DEF Valid
    <2>1. /\ j \in Jti /\ tok[j].exp \in Nat /\ now \in Nat /\ tok[j].user \in User
          /\ tok[j].type \in TokenType /\ denied[j] \in Nat
      BY DEF SessionsInv, SessionsTypeOK, Token
    <2>2. CASE denied[j] = tok[j].exp
      BY <2>2 DEF IsRevoked
    <2>3. CASE denied[j] # tok[j].exp /\ Marked(j)
      <3>1. marker[tok[j].user].until \in Nat
        BY <2>1 DEF SessionsInv, SessionsTypeOK
      <3>2. denied[j] = 0
        BY <2>1, <2>3 DEF SessionsInv, Entries
      <3>3. now < marker[tok[j].user].until
        BY <2>1, <2>3, <3>1, <3>2 DEF Marked, Forgotten, TokenType
      <3> QED  BY <2>3, <3>3 DEF IsRevoked, Marked
    <2> QED  BY <2>2, <2>3 DEF SessionsInv, Covered
  <1>2. storeUp \/ ~FailOpen => (Valid(j) => ~Unrevoked(j))
    BY <1>1 DEF Unrevoked
  <1> QED  BY <1>1, <1>2 DEF Accepted, ValidAs, Useless

-----------------------------------------------------------------------------

LEMMA Invariance == SessionsSpec => []SessionsInv
  <1>1. SessionsInit => SessionsInv
    BY InitInv, SessionAssumption
  <1>2. SessionsInv /\ [SessionsNext]_svars => SessionsInv'
    BY StepType, StepLifetimes, StepEntries, StepCovered, SessionAssumption DEF SessionsInv
  <1> QED  BY <1>1, <1>2, PTL DEF SessionsSpec

\* What was revoked stays useless, for every number of tokens, both lifetimes and every
\* order of logins, revocations and outages: an access token always, a refresh token
\* logged out by itself always, one that a logout-all or a new password revoked as long
\* as the marker lives.  Excepted are the tokens that a revocation whose SET came late
\* has uncovered.  Nothing is assumed of the marker's lifetime but what app.go passes.
THEOREM RevocationHolds == SessionsSpec => []RevokedStayUseless
  <1>1. SessionsInv => RevokedStayUseless
    BY CoveredIsRefused
  <1> QED  BY <1>1, Invariance, PTL

\* The denylist does not grow without bound: the entry of a single token, written
\* by a logout, disappears from Redis no later than the token expires.  This
\* needs nothing of the marker.
THEOREM EntriesExpire == SessionsSpec => []EntriesDieWithTokens
  <1> DEFINE Inv == SessionsTypeOK /\ Entries
  <1>1. SessionsInit => Inv
    BY InitInv, SessionAssumption DEF SessionsInv
  <1>2. Inv /\ [SessionsNext]_svars => Inv'
    BY StepType, StepEntries, SessionAssumption DEF SessionsInv
  <1>3. Inv => EntriesDieWithTokens
    <2> SUFFICES ASSUME Inv, NEW j \in Jti, now < denied[j]  PROVE Valid(j)
      BY DEF EntriesDieWithTokens
    <2>1. denied[j] \in Nat /\ now \in Nat  BY DEF SessionsTypeOK
    <2>2. denied[j] > 0  BY <2>1
    <2> QED  BY <2>2 DEF Entries, Valid
  <1> QED  BY <1>1, <1>2, <1>3, PTL DEF SessionsSpec
=============================================================================
