--------------------------- MODULE PlaylistCache ---------------------------
(***************************************************************************)
(* The playlists of a video in the two cache levels: a map in each API     *)
(* process (LocalCache), Redis behind them (CacheService).  A copy knows   *)
(* which version of the playlists it is and when it was read from the      *)
(* store.                                                                  *)
(***************************************************************************)
EXTENDS Clock, FiniteSets

CONSTANTS Api, Key,     \* API processes; master and variant playlists
          LocalMax,     \* entries of a LocalCache
          LocalTTL, PlaylistTTL

ASSUME CacheAssumption ==
    /\ LocalMax \in Nat \ {0}
    /\ LocalTTL \in Nat \ {0} /\ PlaylistTTL \in Nat \ {0} /\ LocalTTL <= PlaylistTTL
    /\ IsFiniteSet(Key)

VARIABLES local,        \* of each API process
          redis         \* playlist:<video>:<key>

caches == <<local, redis>>

\* `late`: stored by a request that was under way when the cache was cleared.
Content == [v : Nat, at : Time, late : BOOLEAN]
Copy == [v : Nat, at : Time, late : BOOLEAN, expires : Nat]

NoCopy == [v |-> 0, at |-> 0, late |-> FALSE, expires |-> 0]

Until(content, expires) ==
    [v |-> content.v, at |-> content.at, late |-> content.late, expires |-> expires]

CacheInit ==
    /\ local = [i \in Api |-> [k \in Key |-> NoCopy]]
    /\ redis = [k \in Key |-> NoCopy]

Held(i) == {k \in Key : local[i][k] # NoCopy}

\* cacheItem.expired
Expired(copy) == now > copy.expires

\* Mutant of Victims: one entry more than the limit is let in.
VictimsLate(i, k) ==
    IF local[i][k] # NoCopy \/ Cardinality(Held(i)) <= LocalMax THEN {{}}
    ELSE {{x} : x \in Held(i)}

\* evictOldestLocked: what makes room for k, the entry closest to expiry.
Victims(i, k) ==
    IF local[i][k] # NoCopy \/ Cardinality(Held(i)) < LocalMax THEN {{}}
    ELSE {{x} : x \in {x \in Held(i) : \A y \in Held(i) : local[i][x].expires <= local[i][y].expires}}

\* LocalCache.Set
LocalSet(i, k, copy) ==
    \E victims \in Victims(i, k) :
        local' = [local EXCEPT ![i] = [x \in Key |->
            IF x = k THEN copy ELSE IF x \in victims THEN NoCopy ELSE local[i][x]]]

\* LocalCache.Delete, of whatever is there by now.
LocalDelete(i, k) == local' = [local EXCEPT ![i][k] = NoCopy]

\* Mutant of Refill: a copy from Redis is kept as long as one from the store.
RefillLong(i, k, content) == LocalSet(i, k, Until(content, now + PlaylistTTL))

\* A copy from Redis, or one just stored there, is kept for a minute.
Refill(i, k, content) == LocalSet(i, k, Until(content, now + LocalTTL))

RedisSet(k, content) == redis' = [redis EXCEPT ![k] = Until(content, now + PlaylistTTL)]

\* The playlists Redis has: SCAN playlist:<video>:*
Cached == {k \in Key : redis[k] # NoCopy}

RedisDel(keys) == redis' = [k \in Key |-> IF k \in keys THEN NoCopy ELSE redis[k]]

\* LocalCache.cleanup: once a minute, everything that has expired.
Sweep(i) ==
    local' = [local EXCEPT ![i] = [k \in Key |-> IF Expired(local[i][k]) THEN NoCopy ELSE local[i][k]]]

\* Redis drops what has expired.
CacheTick ==
    /\ redis' = [k \in Key |-> IF now + 1 >= redis[k].expires THEN NoCopy ELSE redis[k]]
    /\ UNCHANGED local

\* An API process starts again with an empty map.
LocalLost(i) == local' = [local EXCEPT ![i] = [k \in Key |-> NoCopy]]

CacheTypeOK ==
    /\ local \in [Api -> [Key -> Copy]]
    /\ redis \in [Key -> Copy]
    /\ \A i \in Api : Cardinality(Held(i)) <= LocalMax
=============================================================================
