----------------------------- MODULE Delivery ------------------------------
(***************************************************************************)
(* What players ask of the API processes for one video: playlists, through *)
(* two cache levels, and views, counted once per window; and the clearing  *)
(* of the cache by a moderator.  Every request passes the rate limiter.    *)
(* Commands to Redis and PostgreSQL are steps of their own, and any of     *)
(* them may fail with or without having been carried out.                  *)
(***************************************************************************)
EXTENDS RateLimiter, PlaylistCache, ViewTracker, FiniteSets

CONSTANTS Req,
          Patience,     \* bound on the ticks a request takes
          MaxEvents,    \* bound on the requests and the faults of a behaviour
          MaxVersions   \* bound on the versions of the playlists

ASSUME DeliveryAssumption ==
    /\ {"streaming", "user_api"} \subseteq Rule
    /\ Patience \in Nat /\ MaxEvents \in Nat /\ MaxVersions \in Nat

VARIABLES row,          \* the video: "hidden" (no HLS or not visible), "open", "gone"
          stored,       \* the version of its playlists in the store; 0: none
          req,          \* the requests in progress
          events,       \* requests started and faults met
          floor,        \* history: the version in the store when the last
                        \* clearing of the cache began
          cleared       \* history: when it ended; Never: never

vars == <<now, limiter, caches, views, row, stored, req, events, floor, cleared>>

-----------------------------------------------------------------------------
(* Requests *)

Step == {"idle", "limit",                                    \* RateLimitWithLogger
         "row", "local", "drop", "redis", "store", "put", "fill", \* playlists
         "claim", "record", "unclaim",                       \* views
         "scan", "del"}                                      \* ClearPlaylistCache

None == "none"

Nothing == [v |-> 0, at |-> 0, late |-> FALSE]

Request == [step : Step, next : Step, api : Api \cup {None}, rule : Rule \cup {None},
            address : Address \cup {None}, viewer : Viewer \cup {None}, key : Key \cup {None},
            begun : Time, at : Time, content : Content, keys : SUBSET Key, late : BOOLEAN]

Idle == [step |-> "idle", next |-> "idle", api |-> None, rule |-> None, address |-> None,
         viewer |-> None, key |-> None, begun |-> 0, at |-> 0, content |-> Nothing,
         keys |-> {}, late |-> FALSE]

Ask(i, a, rule, next) ==
    [Idle EXCEPT !.step = "limit", !.next = next, !.api = i, !.rule = rule, !.address = a, !.begun = now]

\* Which of the free names a request gets makes no difference.
Start(r, q) ==
    /\ \E s \in Req : req[s] = Idle
    /\ r = CHOOSE s \in Req : req[s] = Idle
    /\ events < MaxEvents /\ events' = events + 1
    /\ req' = [req EXCEPT ![r] = q]
    /\ UNCHANGED <<now, limiter, caches, views, row, stored, floor, cleared>>

At(r, step) == req[r].step = step

Becomes(r, q) == req' = [req EXCEPT ![r] = q]

Goto(r, step) == Becomes(r, [req[r] EXCEPT !.step = step])

End(r) == Becomes(r, Idle)

Fault == events < MaxEvents /\ events' = events + 1

history == <<floor, cleared>>
video == <<row, stored>>

\* ServeMasterPlaylist, ServeQualityPlaylist
StartPlaylist(r, i, a, k) == Start(r, [Ask(i, a, "streaming", "row") EXCEPT !.key = k])

\* ViewHandler.RecordView
StartView(r, i, a, c) == Start(r, [Ask(i, a, "user_api", "claim") EXCEPT !.viewer = c])

\* ClearPlaylistCache; the admin routes have no limit.
StartClear(r, i) == Start(r, [Ask(i, None, None, "idle") EXCEPT !.step = "scan"])

\* RateLimitWithLogger: refused, or passed on; passed on too when Redis fails.
\* The window was computed when the request came in.  The driver may repeat a
\* pipeline that failed, which counts the request again.
Limit(r) ==
    /\ At(r, "limit")
    /\ LET q == req[r]
           k == <<q.rule, q.address, WindowOf(q.begun)>>
       IN  \/ /\ Allow(k)
              /\ IF Allowed(k) THEN Goto(r, q.next) ELSE End(r)
              /\ UNCHANGED events
           \/ /\ AllowFails(k)
              /\ Goto(r, q.next) \/ UNCHANGED req
              /\ Fault
    /\ UNCHANGED <<now, caches, views, video, history>>

-----------------------------------------------------------------------------
(* Playlists *)

\* The row is read and must be there, visible and marked hls_ready.
RowCheck(r) ==
    /\ At(r, "row")
    /\ IF row = "open" THEN Goto(r, "local") ELSE End(r)
    /\ UNCHANGED <<now, limiter, caches, views, video, events, history>>

\* LocalCache.Get looks under the read lock and drops what has expired later.
LocalGet(r) ==
    /\ At(r, "local")
    /\ LET copy == local[req[r].api][req[r].key] IN
       IF copy = NoCopy THEN Goto(r, "redis")
       ELSE IF Expired(copy) THEN Goto(r, "drop") ELSE End(r)
    /\ UNCHANGED <<now, limiter, caches, views, video, events, history>>

LocalDrop(r) ==
    /\ At(r, "drop")
    /\ LocalDelete(req[r].api, req[r].key)
    /\ Goto(r, "redis")
    /\ UNCHANGED <<now, limiter, redis, views, video, events, history>>

\* GET: a hit is served and kept locally, a miss or an error goes to the store.
RedisGet(r) ==
    /\ At(r, "redis")
    /\ LET q == req[r]
           copy == redis[q.key]
       IN  \/ /\ copy # NoCopy
              /\ Becomes(r, [q EXCEPT !.step = "fill",
                    !.content = [v |-> copy.v, at |-> copy.at, late |-> copy.late]])
              /\ UNCHANGED events
           \/ /\ copy = NoCopy
              /\ Goto(r, "store")
              /\ UNCHANGED events
           \/ Goto(r, "store") /\ Fault
    /\ UNCHANGED <<now, limiter, caches, views, video, history>>

\* readObject; a playlist that is not there is an error.
StoreRead(r) ==
    /\ At(r, "store")
    /\ IF stored = 0 THEN End(r)
       ELSE Becomes(r, [req[r] EXCEPT !.step = "put",
                           !.content = [v |-> stored, at |-> now, late |-> req[r].late]])
    /\ UNCHANGED <<now, limiter, caches, views, video, events, history>>

\* CacheService.Set: Redis first; if that fails nothing is kept locally.
RedisPut(r) ==
    /\ At(r, "put")
    /\ \/ RedisSet(req[r].key, req[r].content) /\ Goto(r, "fill") /\ UNCHANGED events
       \/ /\ RedisSet(req[r].key, req[r].content) \/ UNCHANGED redis
          /\ End(r)
          /\ Fault
    /\ UNCHANGED <<now, limiter, local, views, video, history>>

LocalFill(r) ==
    /\ At(r, "fill")
    /\ Refill(req[r].api, req[r].key, req[r].content)
    /\ End(r)
    /\ UNCHANGED <<now, limiter, redis, views, video, events, history>>

\* ClearPlaylistCache, DeletePattern: SCAN and DEL.  Whoever is under way then
\* may still store what it has read before.
LateComers(r) ==
    [s \in Req |-> IF s # r /\ req[s] # Idle
                   THEN [req[s] EXCEPT !.late = TRUE, !.content.late = TRUE] ELSE req[s]]

Scan(r) ==
    /\ At(r, "scan")
    /\ \/ /\ req' = [LateComers(r) EXCEPT ![r] = [@ EXCEPT !.step = "del", !.keys = Cached,
                                                        !.content.v = stored]]
          /\ UNCHANGED events
       \/ End(r) /\ Fault
    /\ UNCHANGED <<now, limiter, caches, views, video, history>>

Del(r) ==
    /\ At(r, "del")
    /\ \/ /\ RedisDel(req[r].keys)
          /\ req' = [LateComers(r) EXCEPT ![r] = Idle]
          /\ floor' = req[r].content.v
          /\ cleared' = now
          /\ UNCHANGED events
       \/ /\ RedisDel(req[r].keys) \/ UNCHANGED redis
          /\ End(r)
          /\ Fault
          /\ UNCHANGED history
    /\ UNCHANGED <<now, limiter, local, views, video>>

-----------------------------------------------------------------------------
(* Views *)

\* SET NX EX.  A view already claimed is not counted; one that cannot be claimed
\* because Redis fails is.  When only the reply is lost, the driver may repeat the
\* command: it then finds the request's own claim, and the view is not counted.
Claim(r) ==
    /\ At(r, "claim")
    /\ LET q == [req[r] EXCEPT !.step = "record", !.at = now]
           c == q.viewer
       IN  \/ /\ Fresh(c)
              /\ SetClaim(c) /\ Becomes(r, q)
              /\ UNCHANGED <<orphaned, trouble, events>>
           \/ /\ ~Fresh(c)
              /\ End(r)
              /\ UNCHANGED <<claim, orphaned, trouble, events>>
           \/ /\ \/ Fresh(c) /\ SetClaim(c)
                 \/ UNCHANGED claim
              /\ Becomes(r, q)
              /\ Trouble(c) /\ Fault
              /\ UNCHANGED orphaned
           \/ /\ Fresh(c) /\ SetClaim(c)
              /\ End(r)
              /\ Orphan({c}) /\ Trouble(c) /\ Fault
    /\ UNCHANGED <<now, limiter, caches, viewed, video, history>>

\* Mutant of Record: the claim is kept when the view could not be recorded.
RecordKeepsClaim(r) ==
    /\ At(r, "record")
    /\ LET q == req[r] IN
       \/ /\ row # "gone"
          /\ CountView(q.viewer, q.at)
          /\ End(r)
          /\ UNCHANGED <<trouble, events>>
       \/ row = "gone" /\ End(r) /\ UNCHANGED <<viewed, trouble, events>>
       \/ UNCHANGED viewed /\ End(r) /\ Trouble(q.viewer) /\ Fault
    /\ UNCHANGED <<now, limiter, caches, claim, orphaned, video, history>>

\* RecordView, one transaction; the foreign key fails when the video has gone,
\* and a commit may succeed unnoticed.
Record(r) ==
    /\ At(r, "record")
    /\ LET q == req[r] IN
       \/ /\ row # "gone"
          /\ CountView(q.viewer, q.at)
          /\ End(r)
          /\ UNCHANGED <<trouble, events>>
       \/ /\ row = "gone"
          /\ Goto(r, "unclaim")
          /\ UNCHANGED <<viewed, trouble, events>>
       \/ /\ \/ row # "gone" /\ CountView(q.viewer, q.at)
             \/ UNCHANGED viewed
          /\ Goto(r, "unclaim")
          /\ Trouble(q.viewer) /\ Fault
    /\ UNCHANGED <<now, limiter, caches, claim, orphaned, video, history>>

\* The claim is given back, best effort.
Unclaim(r) ==
    /\ At(r, "unclaim")
    /\ LET c == req[r].viewer IN
       \/ DelClaim(c) /\ UNCHANGED <<trouble, events>>
       \/ UNCHANGED claim /\ Orphan({c}) /\ Trouble(c) /\ Fault
    /\ End(r)
    /\ UNCHANGED <<now, limiter, caches, viewed, video, history>>

-----------------------------------------------------------------------------
(* The rest of the system *)

\* The worker publishes the video; an attempt repeated after hls_ready was set
\* writes the playlists again.
Publish ==
    /\ row \in {"hidden", "open"} /\ stored < MaxVersions
    /\ row' = "open" /\ stored' = stored + 1
    /\ UNCHANGED <<now, limiter, caches, views, req, events, history>>

\* VideoHandler.DeleteVideo: the row, then the files.
DeleteRow ==
    /\ row = "open" /\ row' = "gone"
    /\ UNCHANGED <<now, limiter, caches, views, stored, req, events, history>>

RemoveFiles ==
    /\ row = "gone" /\ stored # 0
    /\ stored' = 0
    /\ UNCHANGED <<now, limiter, caches, views, row, req, events, history>>

CleanUp(i) ==
    /\ \E k \in Key : local[i][k] # NoCopy /\ Expired(local[i][k])
    /\ Sweep(i)
    /\ UNCHANGED <<now, limiter, redis, views, video, req, events, history>>

\* An API process dies with its requests and its map, and is started again.
Crash(i) ==
    LET mine == {r \in Req : req[r].api = i} IN
    /\ \E r \in mine : TRUE
    /\ LocalLost(i)
    /\ req' = [r \in Req |-> IF r \in mine THEN Idle ELSE req[r]]
    /\ Orphan({req[r].viewer : r \in {r \in mine : req[r].step \in {"record", "unclaim"}}})
    /\ Fault
    /\ UNCHANGED <<now, limiter, redis, claim, viewed, trouble, video, history>>

Tick ==
    /\ now < MaxTime
    /\ \A r \in Req : req[r] = Idle \/ now - req[r].begun < Patience
    /\ now' = now + 1
    /\ LimiterTick /\ CacheTick /\ ViewsTick
    /\ UNCHANGED <<video, req, events, history>>

-----------------------------------------------------------------------------

Init ==
    /\ now = 0
    /\ LimiterInit /\ CacheInit /\ ViewsInit
    /\ row = "hidden" /\ stored = 0
    /\ req = [r \in Req |-> Idle]
    /\ events = 0
    /\ floor = 0 /\ cleared = Never

Arrive(r) ==
    \E i \in Api :
        \/ \E a \in Address, k \in Key : StartPlaylist(r, i, a, k)
        \/ \E a \in Address, c \in Viewer : StartView(r, i, a, c)
        \/ StartClear(r, i)

Proceed(r) ==
    \/ Limit(r)
    \/ RowCheck(r) \/ LocalGet(r) \/ LocalDrop(r) \/ RedisGet(r) \/ StoreRead(r) \/ RedisPut(r) \/ LocalFill(r)
    \/ Claim(r) \/ Record(r) \/ Unclaim(r)
    \/ Scan(r) \/ Del(r)

Environment == Publish \/ DeleteRow \/ RemoveFiles \/ (\E i \in Api : CleanUp(i) \/ Crash(i)) \/ Tick

Next == (\E r \in Req : Arrive(r) \/ Proceed(r)) \/ Environment

Spec == Init /\ [][Next]_vars

-----------------------------------------------------------------------------
(* Properties *)

TypeOK ==
    /\ now \in Time
    /\ LimiterTypeOK /\ CacheTypeOK /\ ViewsTypeOK
    /\ row \in {"hidden", "open", "gone"} /\ stored \in 0..MaxVersions
    /\ req \in [Req -> Request]
    /\ events \in 0..MaxEvents
    /\ floor \in Nat /\ cleared \in Time \cup {Never}

\* A player never gets a playlist that has left the store longer ago than the
\* two levels keep a copy one after the other, plus the time of the two
\* requests that handed it on: refilling from Redis does not keep it alive.
CopiesAgeOut ==
    /\ \A k \in Key : redis[k] # NoCopy => redis[k].expires <= redis[k].at + Patience + PlaylistTTL
    /\ \A i \in Api, k \in Key : local[i][k] # NoCopy =>
          local[i][k].expires < local[i][k].at + 2 * Patience + PlaylistTTL + LocalTTL

\* Once the cache has been cleared, what was in it survives only in the API
\* processes, for at most a minute; anything else that is older than the
\* clearing was stored by a request then under way.
ClearSticks ==
    cleared # Never =>
        \A k \in Key :
            /\ redis[k] # NoCopy /\ redis[k].v < floor => redis[k].late
            /\ \A i \in Api :
                  local[i][k] # NoCopy /\ local[i][k].v < floor =>
                      local[i][k].late \/ local[i][k].expires <= cleared + LocalTTL

\* The rows of the views that c began in the window that opens at t: the n-th of
\* those begun at s.
ViewsIn(c, t) ==
    UNION {{s} \X (1..viewed[c][s]) : s \in {u \in Time : t <= u /\ u < t + ViewWindow}}

\* A viewer's views within one window count once, plus at most once for every
\* command that failed on the viewer's behalf.
ViewsAreDistinct ==
    \A c \in Viewer, t \in Time : Cardinality(ViewsIn(c, t)) <= 1 + trouble[c]

\* A view is a repeat of something, unless a fault made it one: a claim stands for
\* a view that was counted or is being counted, except after a DEL that failed, the
\* death of the process that was counting, or a SETNX whose reply was lost and which
\* the driver repeated (nobody gives such a claim back: it lasts its window).
ClaimsAreBacked ==
    \A c \in Viewer : claim[c] # 0 =>
        \/ c \in orphaned
        \/ viewed[c][claim[c] - ViewWindow] > 0
        \/ \E r \in Req : req[r].viewer = c /\ req[r].step \in {"record", "unclaim"}
=============================================================================
