--------------------------- MODULE DeliveryProofs ---------------------------
(***************************************************************************)
(* Proofs about Delivery, for any number of API processes, players,        *)
(* playlists, requests and failures.  Five of its six properties are       *)
(* consequences of DeliveryInv, which says what they leave out; the sixth, *)
(* ViewsAreDistinct, has an invariant of its own at the end, Spaced.       *)
(*   - `Timely`: how old what a request carries can be; `Alive`: Redis     *)
(*     holds nothing past its expiry (for CopiesAgeOut);                   *)
(*   - `Budgeted`: nothing is let through before its window and a counter  *)
(*     that expires outlives its window (for WithinBudget);                *)
(*   - `Backed`: when each claim was made (for ClaimsAreBacked);           *)
(*   - `Scanned`, `Carried`: what requests still carry while and after the *)
(*     cache is cleared, `Young`: how long local copies last (for          *)
(*     ClearSticks).                                                       *)
(***************************************************************************)
EXTENDS Delivery, FiniteSetTheorems, TLAPS

PlaylistStep == {"row", "local", "drop", "redis", "store", "put", "fill"}
ViewStep == {"claim", "record", "unclaim"}

\* What a request asks for is there when a step uses it.
Shape(q) ==
    /\ q.step = "limit" =>
          /\ q.rule \in Rule /\ q.address \in Address
          /\ q.next \in {"row", "claim"}
          /\ q.next = "row" => q.api \in Api /\ q.key \in Key
          /\ q.next = "claim" => q.viewer \in Viewer
    /\ q.step \in PlaylistStep => q.api \in Api /\ q.key \in Key
    /\ q.step \in ViewStep => q.viewer \in Viewer

Timely(q) ==
    /\ q.step # "idle" => q.begun <= now /\ now <= q.begun + Patience
    /\ q.step = "put" => q.begun <= q.content.at
    /\ q.step = "fill" => q.begun < q.content.at + Patience + PlaylistTTL

Good(q) == q \in Request /\ Shape(q) /\ Timely(q)

Requests == req \in [Req -> Request] /\ \A r \in Req : Good(req[r])

Alive == \A k \in Key : redis[k] # NoCopy => now < redis[k].expires

CacheInv == CacheTypeOK /\ Alive /\ CopiesAgeOut

Counting(r, c) == req[r].viewer = c /\ req[r].step \in {"record", "unclaim"}

Backed ==
    \A c \in Viewer : claim[c] # 0 =>
        \/ c \in orphaned
        \/ \E t \in Time :
              /\ claim[c] = t + ViewWindow
              /\ \/ viewed[c][t] > 0
                 \/ \E r \in Req : Counting(r, c) /\ req[r].at = t

Rest ==
    /\ now \in Time
    /\ row \in {"hidden", "open", "gone"} /\ stored \in 0..MaxVersions
    /\ events \in 0..MaxEvents
    /\ floor \in Nat /\ cleared \in Time \cup {Never}

Assumptions == ClockAssumption /\ RateAssumption /\ CacheAssumption /\ ViewAssumption /\ DeliveryAssumption

LEMMA Assumed == Assumptions
  BY ClockAssumption, RateAssumption, CacheAssumption, ViewAssumption, DeliveryAssumption DEF Assumptions

-----------------------------------------------------------------------------
(* Requests *)

LEMMA IdleGood ==
    ASSUME Assumptions, now \in Time
    PROVE  Idle \in Request /\ Good(Idle)
  <1>1. 0 \in Time /\ Nothing \in Content
    BY DEF Assumptions, ClockAssumption, Time, Nothing, Content
  <1>2. Idle \in Request
    BY <1>1 DEF Idle, Request, Step
  <1> QED  BY <1>2 DEF Idle, Good, Shape, Timely, PlaylistStep, ViewStep

\* A request that goes on becomes what is good.
LEMMA BecomesGood ==
    ASSUME Requests, UNCHANGED now, NEW r \in Req, NEW q, Good(q), Becomes(r, q)
    PROVE  Requests'
  <1> USE DEF Requests, Becomes
  <1>1. req' \in [Req -> Request]
    BY DEF Good
  <1>2. ASSUME NEW s \in Req  PROVE Good(req'[s])
    <2>1. CASE s = r  BY <2>1
    <2>2. CASE s # r  BY <2>2
    <2> QED  BY <2>1, <2>2
  <1>3. \A s \in Req : Good(req[s])'
    BY <1>2 DEF Good, Shape, Timely
  <1> QED  BY <1>1, <1>3

\* One that ends is idle.
LEMMA EndGood ==
    ASSUME Assumptions, Rest, Requests, UNCHANGED now, NEW r \in Req, End(r)
    PROVE  Requests'
  BY IdleGood, BecomesGood DEF Rest, End

\* A step that changes nothing but the place of a request.
LEMMA GotoGood ==
    ASSUME Requests, UNCHANGED now, NEW r \in Req, NEW step \in Step, Goto(r, step),
           req[r].step # "idle", step \notin {"limit", "put", "fill"},
           step \in PlaylistStep => req[r].api \in Api /\ req[r].key \in Key,
           step \in ViewStep => req[r].viewer \in Viewer
    PROVE  Requests'
  <1> DEFINE q == [req[r] EXCEPT !.step = step]
  <1>1. Good(req[r])  BY DEF Requests
  <1>2. q \in Request  BY <1>1 DEF Good, Request
  <1>3. /\ q.step = step /\ q.begun = req[r].begun /\ q.api = req[r].api
        /\ q.key = req[r].key /\ q.viewer = req[r].viewer
    BY <1>1 DEF Good, Request
  <1>4. Shape(q)  BY <1>3 DEF Shape
  <1>5. Timely(q)  BY <1>1, <1>3 DEF Good, Timely
  <1>6. Good(q)  BY <1>2, <1>4, <1>5 DEF Good
  <1>7. Becomes(r, q)  BY DEF Goto
  <1> QED  BY <1>6, <1>7, BecomesGood

\* A new request.
LEMMA StartGood ==
    ASSUME Requests, NEW r \in Req, NEW q, Good(q), Start(r, q)
    PROVE  Requests'
  <1>1. Becomes(r, q) /\ UNCHANGED now  BY DEF Start, Becomes
  <1> QED  BY <1>1, BecomesGood

\* What every request starts from.
LEMMA AskFields ==
    ASSUME Assumptions, now \in Time, NEW i \in Api, NEW a \in Address \cup {None},
           NEW rule \in Rule \cup {None}, NEW next \in Step
    PROVE  LET q == Ask(i, a, rule, next) IN
           /\ q \in Request /\ q.step = "limit" /\ q.next = next /\ q.rule = rule
           /\ q.address = a /\ q.api = i /\ q.begun = now
  <1>1. Idle \in Request  BY IdleGood
  <1>2. "limit" \in Step  BY DEF Step
  <1> QED  BY <1>1, <1>2 DEF Ask, Request

\* Requests come in.
LEMMA ArriveGood ==
    ASSUME Assumptions, Rest, Requests, NEW r \in Req, Arrive(r)
    PROVE  Requests' /\ \E q : Becomes(r, q) /\ q.step \in {"limit", "scan"}
  <1>1. Idle \in Request /\ now \in Time  BY IdleGood DEF Rest
  <1>2. now <= now /\ now <= now + Patience
    BY <1>1 DEF Assumptions, DeliveryAssumption, ClockAssumption, Time
  <1>3. PICK i \in Api :
           \/ \E a \in Address, k \in Key : StartPlaylist(r, i, a, k)
           \/ \E a \in Address, c \in Viewer : StartView(r, i, a, c)
           \/ StartClear(r, i)
    BY DEF Arrive
  <1>4. ASSUME NEW a \in Address, NEW k \in Key, StartPlaylist(r, i, a, k)
        PROVE  Requests' /\ \E q : Becomes(r, q) /\ q.step \in {"limit", "scan"}
    <2> DEFINE q == [Ask(i, a, "streaming", "row") EXCEPT !.key = k]
    <2>0. LET p == Ask(i, a, "streaming", "row") IN
          /\ p \in Request /\ p.step = "limit" /\ p.next = "row" /\ p.rule = "streaming"
          /\ p.address = a /\ p.api = i /\ p.begun = now
      BY <1>1, AskFields DEF Step, Assumptions, DeliveryAssumption
    <2>1. /\ q \in Request /\ q.step = "limit" /\ q.next = "row" /\ q.rule = "streaming"
          /\ q.address = a /\ q.api = i /\ q.key = k /\ q.begun = now
      BY <1>1, <2>0 DEF Request
    <2> HIDE DEF q
    <2>2. Good(q)
      BY <2>1, <1>2 DEF Good, Shape, Timely, PlaylistStep, ViewStep, Assumptions, DeliveryAssumption
    <2>3. Start(r, q)  BY <1>4 DEF StartPlaylist, q
    <2>4. Becomes(r, q)  BY <2>3 DEF Start, Becomes
    <2> QED  BY <2>1, <2>2, <2>3, <2>4, StartGood
  <1>5. ASSUME NEW a \in Address, NEW c \in Viewer, StartView(r, i, a, c)
        PROVE  Requests' /\ \E q : Becomes(r, q) /\ q.step \in {"limit", "scan"}
    <2> DEFINE q == [Ask(i, a, "user_api", "claim") EXCEPT !.viewer = c]
    <2>0. LET p == Ask(i, a, "user_api", "claim") IN
          /\ p \in Request /\ p.step = "limit" /\ p.next = "claim" /\ p.rule = "user_api"
          /\ p.address = a /\ p.api = i /\ p.begun = now
      BY <1>1, AskFields DEF Step, Assumptions, DeliveryAssumption
    <2>1. /\ q \in Request /\ q.step = "limit" /\ q.next = "claim" /\ q.rule = "user_api"
          /\ q.address = a /\ q.viewer = c /\ q.begun = now
      BY <1>1, <2>0 DEF Request
    <2> HIDE DEF q
    <2>2. Good(q)
      BY <2>1, <1>2 DEF Good, Shape, Timely, PlaylistStep, ViewStep, Assumptions, DeliveryAssumption
    <2>3. Start(r, q)  BY <1>5 DEF StartView, q
    <2>4. Becomes(r, q)  BY <2>3 DEF Start, Becomes
    <2> QED  BY <2>1, <2>2, <2>3, <2>4, StartGood
  <1>6. ASSUME StartClear(r, i)
        PROVE  Requests' /\ \E q : Becomes(r, q) /\ q.step \in {"limit", "scan"}
    <2> DEFINE q == [Ask(i, None, None, "idle") EXCEPT !.step = "scan"]
    <2>0. LET p == Ask(i, None, None, "idle") IN
          /\ p \in Request /\ p.step = "limit" /\ p.next = "idle" /\ p.rule = None
          /\ p.address = None /\ p.api = i /\ p.begun = now
      <3>1. "idle" \in Step /\ None \in Rule \cup {None} /\ None \in Address \cup {None}
        BY DEF Step
      <3> QED  BY <1>1, <3>1, AskFields
    <2>1. q \in Request /\ q.step = "scan" /\ q.begun = now
      BY <1>1, <2>0 DEF Request, Step
    <2> HIDE DEF q
    <2>2. Good(q)
      BY <2>1, <1>2 DEF Good, Shape, Timely, PlaylistStep, ViewStep
    <2>3. Start(r, q)  BY <1>6 DEF StartClear, q
    <2>4. Becomes(r, q)  BY <2>3 DEF Start, Becomes
    <2> QED  BY <2>1, <2>2, <2>3, <2>4, StartGood
  <1> QED  BY <1>3, <1>4, <1>5, <1>6

LEMMA LimitGood ==
    ASSUME Assumptions, Rest, Requests, NEW r \in Req, Limit(r)
    PROVE  Requests'
  <1>1. UNCHANGED now /\ req[r].step = "limit" /\ Shape(req[r])
    BY DEF Limit, At, Requests, Good
  <1>2. CASE End(r)  BY <1>1, <1>2, EndGood
  <1>3. CASE Goto(r, req[r].next)
    BY <1>1, <1>3, GotoGood DEF Shape, Step, PlaylistStep, ViewStep
  <1>4. CASE UNCHANGED req
    BY <1>1, <1>4 DEF Requests, Good, Shape, Timely
  <1> QED  BY <1>2, <1>3, <1>4 DEF Limit

\* A request that stays as it is.
LEMMA StaysPut ==
    ASSUME Requests, UNCHANGED req, NEW r \in Req
    PROVE  Becomes(r, req[r])
  BY DEF Requests, Becomes

\* A playlist read from Redis or from the store is good to be kept.
LEMMA ReadGood ==
    ASSUME Assumptions, Rest, Requests, CacheInv, NEW r \in Req, RedisGet(r) \/ StoreRead(r)
    PROVE  Requests'
  <1> DEFINE old == req[r]
  <1>1. /\ UNCHANGED now /\ old.step \in {"redis", "store"} /\ Good(old)
        /\ old.step # "idle" /\ old.step \in PlaylistStep
    BY DEF RedisGet, StoreRead, At, Requests, PlaylistStep
  <1>2. old.api \in Api /\ old.key \in Key /\ old.begun <= now /\ now <= old.begun + Patience
    BY <1>1 DEF Good, Shape, Timely
  <1>3. CASE End(r)  BY <1>1, <1>3, EndGood
  <1>4. CASE Goto(r, "store")
    BY <1>1, <1>2, <1>4, GotoGood DEF Step, PlaylistStep, ViewStep
  <1>5. ASSUME NEW step \in {"put", "fill"}, NEW content \in Content,
               step = "put" => old.begun <= content.at,
               step = "fill" => old.begun < content.at + Patience + PlaylistTTL,
               Becomes(r, [old EXCEPT !.step = step, !.content = content])
        PROVE  Requests'
    <2> DEFINE q == [old EXCEPT !.step = step, !.content = content]
    <2>1. /\ q \in Request /\ q.step = step /\ q.content = content /\ q.begun = old.begun
          /\ q.api = old.api /\ q.key = old.key
      BY <1>1 DEF Good, Request, Step
    <2>2. Good(q)
      BY <2>1, <1>2, <1>5 DEF Good, Shape, Timely, PlaylistStep, ViewStep
    <2> QED  BY <2>2, <1>1, <1>5, BecomesGood
  <1>6. ASSUME redis[old.key] # NoCopy,
               Becomes(r, [old EXCEPT !.step = "fill", !.content =
                   [v |-> redis[old.key].v, at |-> redis[old.key].at, late |-> redis[old.key].late]])
        PROVE  Requests'
    <2> DEFINE copy == redis[old.key]
               content == [v |-> copy.v, at |-> copy.at, late |-> copy.late]
    <2>1. copy \in Copy  BY <1>2 DEF CacheInv, CacheTypeOK
    <2>2. content \in Content /\ content.at = copy.at
      BY <2>1 DEF Copy, Content
    <2>3. now < copy.expires /\ copy.expires <= copy.at + Patience + PlaylistTTL
      BY <1>2, <1>6 DEF CacheInv, Alive, CopiesAgeOut
    <2>4. old.begun < content.at + Patience + PlaylistTTL
      BY <1>2, <2>1, <2>2, <2>3, <1>1
         DEF Good, Request, Time, Copy, Rest, Assumptions, DeliveryAssumption, CacheAssumption, ClockAssumption
    <2> QED  BY <1>5, <1>6, <2>2, <2>4
  <1>7. ASSUME Becomes(r, [old EXCEPT !.step = "put",
                   !.content = [v |-> stored, at |-> now, late |-> old.late]])
        PROVE  Requests'
    <2> DEFINE content == [v |-> stored, at |-> now, late |-> old.late]
    <2>1. content \in Content /\ content.at = now
      BY <1>1 DEF Content, Rest, Good, Request, Assumptions, DeliveryAssumption
    <2> QED  BY <1>2, <1>5, <1>7, <2>1
  <1>8. CASE RedisGet(r)  BY <1>4, <1>6, <1>8 DEF RedisGet
  <1>9. CASE StoreRead(r)  BY <1>3, <1>7, <1>9 DEF StoreRead
  <1> QED  BY <1>8, <1>9

\* What was put into Redis is good to be kept locally.
LEMMA PutGood ==
    ASSUME Assumptions, Rest, Requests, NEW r \in Req, RedisPut(r)
    PROVE  Requests'
  <1> DEFINE old == req[r]
             q == [old EXCEPT !.step = "fill"]
  <1>1. UNCHANGED now /\ old.step = "put" /\ Good(old)
    BY DEF RedisPut, At, Requests
  <1>2. CASE End(r)  BY <1>1, <1>2, EndGood
  <1>3. CASE Goto(r, "fill")
    <2>1. /\ q \in Request /\ q.step = "fill" /\ q.content = old.content /\ q.begun = old.begun
          /\ q.api = old.api /\ q.key = old.key
      BY <1>1 DEF Good, Request, Step
    <2>2. old.api \in Api /\ old.key \in Key /\ old.begun <= now /\ now <= old.begun + Patience
      BY <1>1 DEF Good, Shape, Timely, PlaylistStep
    <2>3. old.begun <= old.content.at /\ old.begun \in Int /\ old.content.at \in Int
      BY <1>1 DEF Good, Request, Content, Timely, Time
    <2>4. q.begun < q.content.at + Patience + PlaylistTTL
      BY <2>1, <2>3 DEF Assumptions, DeliveryAssumption, CacheAssumption
    <2> HIDE DEF q
    <2>5. Good(q)
      BY <2>1, <2>2, <2>4 DEF Good, Shape, Timely, PlaylistStep, ViewStep
    <2> QED  BY <2>5, <1>1, <1>3, BecomesGood DEF Goto, q
  <1> QED  BY <1>2, <1>3 DEF RedisPut

\* The steps that go on or end without carrying anything new.
LEMMA PlainGood ==
    ASSUME Assumptions, Rest, Requests, NEW r \in Req,
           RowCheck(r) \/ LocalGet(r) \/ LocalDrop(r) \/ LocalFill(r) \/ Unclaim(r)
    PROVE  Requests'
  <1>1. UNCHANGED now /\ Shape(req[r])
    BY DEF RowCheck, LocalGet, LocalDrop, LocalFill, Unclaim, Requests, Good
  <1>2. CASE End(r)  BY <1>1, <1>2, EndGood
  <1>3. ASSUME NEW step \in {"local", "drop", "redis"}, Goto(r, step),
               req[r].step \in PlaylistStep
        PROVE  Requests'
    BY <1>1, <1>3, GotoGood DEF Shape, Step, PlaylistStep, ViewStep
  <1>4. CASE RowCheck(r)
    BY <1>2, <1>3, <1>4 DEF RowCheck, At, PlaylistStep
  <1>5. CASE LocalGet(r)
    BY <1>2, <1>3, <1>5 DEF LocalGet, At, PlaylistStep
  <1>6. CASE LocalDrop(r)
    BY <1>3, <1>6 DEF LocalDrop, At, PlaylistStep
  <1>7. CASE LocalFill(r) \/ Unclaim(r)
    BY <1>2, <1>7 DEF LocalFill, Unclaim
  <1> QED  BY <1>4, <1>5, <1>6, <1>7

LEMMA ClaimGood ==
    ASSUME Assumptions, Rest, Requests, NEW r \in Req, Claim(r)
    PROVE  Requests'
  <1> DEFINE old == req[r]
             q == [old EXCEPT !.step = "record", !.at = now]
  <1>1. UNCHANGED now /\ old.step = "claim" /\ Good(old) /\ now \in Time
    BY DEF Claim, At, Requests, Rest
  <1>2. CASE End(r)  BY <1>1, <1>2, EndGood
  <1>3. CASE Becomes(r, q)
    <2>1. q \in Request /\ q.step = "record" /\ q.begun = old.begun /\ q.viewer = old.viewer
      BY <1>1 DEF Good, Request, Step
    <2>2. old.viewer \in Viewer /\ old.begun <= now /\ now <= old.begun + Patience
      BY <1>1 DEF Good, Shape, Timely, ViewStep
    <2> HIDE DEF q
    <2>3. Good(q)
      BY <2>1, <2>2 DEF Good, Shape, Timely, PlaylistStep, ViewStep
    <2> QED  BY <2>3, <1>1, <1>3, BecomesGood
  <1> QED  BY <1>2, <1>3 DEF Claim

LEMMA RecordGood ==
    ASSUME Assumptions, Rest, Requests, NEW r \in Req, Record(r)
    PROVE  Requests'
  <1>1. UNCHANGED now /\ req[r].step = "record" /\ Shape(req[r])
    BY DEF Record, At, Requests, Good
  <1>2. CASE End(r)  BY <1>1, <1>2, EndGood
  <1>3. CASE Goto(r, "unclaim")
    BY <1>1, <1>3, GotoGood DEF Shape, Step, PlaylistStep, ViewStep
  <1> QED  BY <1>2, <1>3 DEF Record

\* Being late changes nothing about a request that matters here.
LEMMA LateGood ==
    ASSUME Requests, NEW r \in Req, NEW s \in Req
    PROVE  LateComers(r)[s] \in Request /\ Good(LateComers(r)[s])
  <1> DEFINE old == req[s]
             q == [old EXCEPT !.late = TRUE, !.content.late = TRUE]
  <1>1. Good(old)  BY DEF Requests
  <1>2. /\ q \in Request /\ q.step = old.step /\ q.begun = old.begun /\ q.api = old.api
        /\ q.key = old.key /\ q.rule = old.rule /\ q.address = old.address
        /\ q.next = old.next /\ q.viewer = old.viewer /\ q.content.at = old.content.at
    BY <1>1 DEF Good, Request, Content
  <1> HIDE DEF q
  <1>3. Good(q)
    BY <1>1, <1>2 DEF Good, Shape, Timely
  <1>4. LateComers(r)[s] = q \/ LateComers(r)[s] = old
    BY DEF LateComers, q
  <1> QED  BY <1>1, <1>3, <1>4 DEF Good

\* The clearing goes on or ends, and everybody else is late.
LEMMA ClearGood ==
    ASSUME Assumptions, Rest, Requests, NEW r \in Req, Scan(r) \/ Del(r)
    PROVE  Requests'
  <1>1. UNCHANGED now /\ Good(req[r]) /\ req[r].step \in {"scan", "del"}
    BY DEF Scan, Del, At, Requests
  <1>2. CASE End(r)  BY <1>1, <1>2, EndGood
  <1>3. ASSUME NEW q \in Request, Good(q), req' = [LateComers(r) EXCEPT ![r] = q]
        PROVE  Requests'
    <2>1. DOMAIN LateComers(r) = Req /\ LateComers(r) \in [Req -> Request]
      BY LateGood DEF LateComers
    <2>2. req' \in [Req -> Request]
      BY <1>3, <2>1
    <2>3. ASSUME NEW s \in Req  PROVE Good(req'[s])
      BY <1>3, <2>1, LateGood
    <2>4. \A s \in Req : Good(req[s])'
      BY <2>3, <1>1 DEF Good, Shape, Timely
    <2> QED  BY <2>2, <2>4 DEF Requests
  <1>4. ASSUME req' = [LateComers(r) EXCEPT ![r] = [@ EXCEPT !.step = "del", !.keys = Cached,
                                                           !.content.v = stored]],
               req[r].step = "scan"
        PROVE  Requests'
    <2> DEFINE q == [req[r] EXCEPT !.step = "del", !.keys = Cached, !.content.v = stored]
    <2>1. LateComers(r)[r] = req[r]  BY DEF LateComers
    <2>2. stored \in Nat /\ Cached \in SUBSET Key
      BY DEF Rest, Cached, Assumptions, DeliveryAssumption
    <2>3. q \in Request /\ q.step = "del" /\ q.begun = req[r].begun
      BY <1>1, <2>2 DEF Good, Request, Content, Step
    <2>4. req[r].begun <= now /\ now <= req[r].begun + Patience
      BY <1>1, <1>4 DEF Good, Timely
    <2>5. req' = [LateComers(r) EXCEPT ![r] = q]
      BY <1>4, <2>1 DEF LateComers
    <2> HIDE DEF q
    <2>6. Good(q)
      BY <2>3, <2>4 DEF Good, Shape, Timely, PlaylistStep, ViewStep
    <2> QED  BY <2>3, <2>5, <2>6, <1>3
  <1>5. CASE Scan(r)  BY <1>2, <1>4, <1>5 DEF Scan, At
  <1>6. CASE Del(r)
    <2>1. Idle \in Request /\ Good(Idle)  BY IdleGood DEF Rest
    <2> QED  BY <1>2, <1>3, <1>6, <2>1 DEF Del
  <1> QED  BY <1>5, <1>6

LEMMA CrashGood ==
    ASSUME Assumptions, Rest, Requests, NEW i \in Api, Crash(i)
    PROVE  Requests'
  <1>1. UNCHANGED now /\ Idle \in Request /\ Good(Idle)
    BY IdleGood DEF Crash, Rest
  <1>2. \A s \in Req : req'[s] = Idle \/ req'[s] = req[s]
    BY DEF Crash
  <1>3. req' \in [Req -> Request]
    BY <1>1 DEF Crash, Requests
  <1>4. \A s \in Req : Good(req'[s])
    BY <1>1, <1>2 DEF Requests
  <1> QED  BY <1>1, <1>3, <1>4 DEF Requests, Good, Shape, Timely

\* Nobody takes longer than Patience.
LEMMA TickGood ==
    ASSUME Assumptions, Rest, Requests, Tick
    PROVE  Requests'
  <1>1. req' = req /\ now' = now + 1 /\ now \in Nat
    BY DEF Tick, Rest, Time
  <1>2. ASSUME NEW s \in Req  PROVE Good(req[s])'
    <2>1. Good(req[s])  BY DEF Requests
    <2>2. CASE req[s] = Idle
      BY <1>1, <2>1, <2>2 DEF Good, Shape, Timely, Idle
    <2>3. CASE now - req[s].begun < Patience
      <3>1. req[s].begun \in Nat  BY <2>1 DEF Good, Request, Time
      <3>2. req[s].step # "idle" => req[s].begun <= now + 1 /\ now + 1 <= req[s].begun + Patience
        BY <1>1, <2>1, <2>3, <3>1 DEF Good, Timely, Assumptions, DeliveryAssumption
      <3> QED  BY <1>1, <2>1, <3>2 DEF Good, Shape, Timely
    <2> QED  BY <2>2, <2>3 DEF Tick
  <1> QED  BY <1>1, <1>2 DEF Requests

-----------------------------------------------------------------------------
(* Caches *)

LEMMA CopyType ==
    ASSUME Assumptions
    PROVE  /\ NoCopy \in Copy
           /\ \A content \in Content, expires \in Nat :
                 /\ Until(content, expires) \in Copy
                 /\ Until(content, expires).at = content.at
                 /\ Until(content, expires).expires = expires
  BY DEF NoCopy, Copy, Until, Content, Time, Assumptions, ClockAssumption

LEMMA HeldFinite ==
    ASSUME Assumptions, NEW i \in Api
    PROVE  IsFiniteSet(Held(i)) /\ Cardinality(Held(i)) \in Nat
  <1>1. Held(i) \subseteq Key  BY DEF Held
  <1> QED  BY <1>1, FS_Subset, FS_CardinalityType DEF Assumptions, CacheAssumption

\* A local cache that gets nothing new stays within its limit.
LEMMA ShrinkingFits ==
    ASSUME Assumptions, CacheTypeOK, NEW i \in Api, Held(i)' \subseteq Held(i)
    PROVE  Cardinality(Held(i)') <= LocalMax
  <1>1. Cardinality(Held(i)') <= Cardinality(Held(i)) /\ Cardinality(Held(i)') \in Nat
    BY HeldFinite, FS_Subset, FS_CardinalityType
  <1>2. Cardinality(Held(i)) <= LocalMax  BY DEF CacheTypeOK
  <1> QED  BY <1>1, <1>2, HeldFinite DEF Assumptions, CacheAssumption

\* Eviction makes room before an entry is added, and only adding needs it.
LEMMA LocalSetFits ==
    ASSUME Assumptions, CacheTypeOK, NEW i \in Api, NEW k \in Key, NEW copy \in Copy,
           LocalSet(i, k, copy)
    PROVE  /\ local' \in [Api -> [Key -> Copy]]
           /\ \A j \in Api : Cardinality(Held(j)') <= LocalMax
           /\ \A j \in Api, x \in Key :
                 local'[j][x] = local[j][x] \/ local'[j][x] = NoCopy \/ local'[j][x] = copy
  <1>1. PICK victims \in Victims(i, k) :
           local' = [local EXCEPT ![i] = [x \in Key |->
               IF x = k THEN copy ELSE IF x \in victims THEN NoCopy ELSE local[i][x]]]
    BY DEF LocalSet
  <1>2. local \in [Api -> [Key -> Copy]] /\ NoCopy \in Copy
    BY CopyType DEF CacheTypeOK
  <1>3. local' \in [Api -> [Key -> Copy]]
    BY <1>1, <1>2
  <1>4. \A j \in Api, x \in Key :
           local'[j][x] = local[j][x] \/ local'[j][x] = NoCopy \/ local'[j][x] = copy
    BY <1>1, <1>2
  <1>5. ASSUME NEW j \in Api, j # i  PROVE Cardinality(Held(j)') <= LocalMax
    BY <1>1, <1>2, <1>5, ShrinkingFits DEF Held
  <1>6. Cardinality(Held(i)') <= LocalMax
    <2>1. Held(i)' \subseteq (Held(i) \ victims) \cup {k}
      BY <1>1, <1>2 DEF Held
    <2>2. IsFiniteSet(Held(i)) /\ Cardinality(Held(i)) \in Nat /\ Cardinality(Held(i)) <= LocalMax
      BY HeldFinite DEF CacheTypeOK
    <2>3. LocalMax \in Nat /\ LocalMax > 0  BY DEF Assumptions, CacheAssumption
    <2>4. CASE k \in Held(i)
      BY <2>1, <2>4, ShrinkingFits
    <2>5. CASE k \notin Held(i) /\ Cardinality(Held(i)) < LocalMax
      <3>1. Held(i)' \subseteq Held(i) \cup {k}  BY <2>1
      <3>2. /\ IsFiniteSet(Held(i) \cup {k})
            /\ Cardinality(Held(i) \cup {k}) = Cardinality(Held(i)) + 1
        BY <2>2, <2>5, FS_AddElement
      <3>3. /\ Cardinality(Held(i)') <= Cardinality(Held(i) \cup {k})
            /\ Cardinality(Held(i)') \in Nat
        BY <3>1, <3>2, FS_Subset, FS_CardinalityType
      <3> QED  BY <2>2, <2>3, <2>5, <3>2, <3>3
    <2>6. CASE k \notin Held(i) /\ ~(Cardinality(Held(i)) < LocalMax)
      <3>1. local[i][k] = NoCopy  BY <2>6 DEF Held
      <3>2. PICK x \in Held(i) : victims = {x}
        BY <1>1, <2>6, <3>1 DEF Victims
      <3>3. /\ IsFiniteSet(Held(i) \ {x})
            /\ Cardinality(Held(i) \ {x}) = Cardinality(Held(i)) - 1
        BY <2>2, <3>2, FS_RemoveElement
      <3>4. /\ IsFiniteSet((Held(i) \ {x}) \cup {k})
            /\ Cardinality((Held(i) \ {x}) \cup {k}) = Cardinality(Held(i))
        <4>1. k \notin Held(i) \ {x}  BY <2>6
        <4>2. /\ IsFiniteSet((Held(i) \ {x}) \cup {k})
              /\ Cardinality((Held(i) \ {x}) \cup {k}) = Cardinality(Held(i) \ {x}) + 1
          BY <3>3, <4>1, FS_AddElement
        <4> QED  BY <2>2, <3>3, <4>2
      <3>5. /\ Cardinality(Held(i)') <= Cardinality((Held(i) \ {x}) \cup {k})
            /\ Cardinality(Held(i)') \in Nat
        BY <2>1, <3>2, <3>4, FS_Subset, FS_CardinalityType
      <3> QED  BY <2>2, <2>3, <3>4, <3>5
    <2> QED  BY <2>4, <2>5, <2>6
  <1> QED  BY <1>3, <1>4, <1>5, <1>6

\* Fewer copies are no worse.
LEMMA DropKeepsCache ==
    ASSUME Assumptions, CacheInv, UNCHANGED now,
           local' \in [Api -> [Key -> Copy]], redis' \in [Key -> Copy],
           \A i \in Api, k \in Key : local'[i][k] = local[i][k] \/ local'[i][k] = NoCopy,
           \A k \in Key : redis'[k] = redis[k] \/ redis'[k] = NoCopy
    PROVE  CacheInv'
  <1>1. ASSUME NEW i \in Api  PROVE Cardinality(Held(i)') <= LocalMax
    <2>1. Held(i)' \subseteq Held(i)  BY DEF Held
    <2> QED  BY <2>1, ShrinkingFits DEF CacheInv
  <1>2. CacheTypeOK'  BY <1>1 DEF CacheTypeOK
  <1>3. Alive'  BY DEF CacheInv, Alive
  <1>4. CopiesAgeOut'  BY DEF CacheInv, CopiesAgeOut
  <1> QED  BY <1>2, <1>3, <1>4 DEF CacheInv

LEMMA RedisPutCache ==
    ASSUME Assumptions, Rest, Requests, CacheInv, NEW r \in Req, RedisPut(r)
    PROVE  CacheInv'
  <1> DEFINE q == req[r]
             copy == Until(q.content, now + PlaylistTTL)
  <1>1. /\ UNCHANGED <<now, local>> /\ Good(q) /\ q.step = "put" /\ q.key \in Key
        /\ q.content \in Content /\ q.content.at \in Nat /\ q.begun \in Nat /\ now \in Nat
    BY DEF RedisPut, At, Requests, Rest, Good, Shape, PlaylistStep, Request, Content, Time
  <1>2. CASE redis' = redis
    BY <1>1, <1>2, DropKeepsCache DEF CacheInv, CacheTypeOK
  <1>3. CASE redis' = [redis EXCEPT ![q.key] = copy]
    <2>1. now + PlaylistTTL \in Nat /\ now < now + PlaylistTTL
      BY <1>1 DEF Assumptions, CacheAssumption
    <2>2. copy \in Copy /\ copy.at = q.content.at /\ copy.expires = now + PlaylistTTL
      BY <1>1, <2>1, CopyType
    <2>3. q.begun <= q.content.at /\ now <= q.begun + Patience
      BY <1>1 DEF Good, Timely
    <2>4. copy.expires <= copy.at + Patience + PlaylistTTL
      BY <1>1, <2>2, <2>3 DEF Assumptions, CacheAssumption, DeliveryAssumption
    <2> HIDE DEF copy
    <2>5. CacheTypeOK'
      BY <1>1, <1>3, <2>2 DEF CacheInv, CacheTypeOK, Held
    <2>6. Alive'
      BY <1>1, <1>3, <2>1, <2>2 DEF CacheInv, CacheTypeOK, Alive
    <2>7. CopiesAgeOut'
      BY <1>1, <1>3, <2>4 DEF CacheInv, CacheTypeOK, CopiesAgeOut
    <2> QED  BY <2>5, <2>6, <2>7 DEF CacheInv
  <1> QED  BY <1>2, <1>3 DEF RedisPut, RedisSet

LEMMA LocalFillCache ==
    ASSUME Assumptions, Rest, Requests, CacheInv, NEW r \in Req, LocalFill(r)
    PROVE  CacheInv'
  <1> DEFINE q == req[r]
             copy == Until(q.content, now + LocalTTL)
  <1>1. /\ UNCHANGED <<now, redis>> /\ Good(q) /\ q.step = "fill" /\ q.key \in Key /\ q.api \in Api
        /\ q.content \in Content /\ q.content.at \in Nat /\ q.begun \in Nat /\ now \in Nat
    BY DEF LocalFill, At, Requests, Rest, Good, Shape, PlaylistStep, Request, Content, Time
  <1>2. now + LocalTTL \in Nat
    BY <1>1 DEF Assumptions, CacheAssumption
  <1>3. copy \in Copy /\ copy.at = q.content.at /\ copy.expires = now + LocalTTL
    BY <1>1, <1>2, CopyType
  <1>4. q.begun < q.content.at + Patience + PlaylistTTL /\ now <= q.begun + Patience
    BY <1>1 DEF Good, Timely
  <1>5. copy.expires < copy.at + 2 * Patience + PlaylistTTL + LocalTTL
    BY <1>1, <1>3, <1>4 DEF Assumptions, CacheAssumption, DeliveryAssumption
  <1> HIDE DEF copy
  <1>6. LocalSet(q.api, q.key, copy)
    BY DEF LocalFill, Refill, copy
  <1>7. /\ local' \in [Api -> [Key -> Copy]]
        /\ \A j \in Api : Cardinality(Held(j)') <= LocalMax
        /\ \A j \in Api, x \in Key :
              local'[j][x] = local[j][x] \/ local'[j][x] = NoCopy \/ local'[j][x] = copy
    BY <1>1, <1>3, <1>6, LocalSetFits DEF CacheInv
  <1>8. CacheTypeOK'  BY <1>1, <1>7 DEF CacheInv, CacheTypeOK
  <1>9. Alive'  BY <1>1 DEF CacheInv, Alive
  <1>10. CopiesAgeOut'
    BY <1>1, <1>5, <1>7 DEF CacheInv, CopiesAgeOut
  <1> QED  BY <1>8, <1>9, <1>10 DEF CacheInv

LEMMA TickCache ==
    ASSUME Assumptions, Rest, CacheInv, Tick
    PROVE  CacheInv'
  <1>1. /\ now' = now + 1 /\ now \in Nat /\ local' = local
        /\ redis' = [k \in Key |-> IF now + 1 >= redis[k].expires THEN NoCopy ELSE redis[k]]
    BY DEF Tick, CacheTick, Rest, Time
  <1>2. NoCopy \in Copy  BY CopyType
  <1>3. CacheTypeOK'
    BY <1>1, <1>2 DEF CacheInv, CacheTypeOK, Held
  <1>4. ASSUME NEW k \in Key, redis'[k] # NoCopy
        PROVE  redis'[k] = redis[k] /\ now' < redis'[k].expires
    <2>1. redis[k].expires \in Nat  BY DEF CacheInv, CacheTypeOK, Copy
    <2> QED  BY <1>1, <1>4, <2>1
  <1>5. Alive'  BY <1>4 DEF Alive
  <1>6. CopiesAgeOut'
    BY <1>1, <1>4 DEF CacheInv, CopiesAgeOut
  <1> QED  BY <1>3, <1>5, <1>6 DEF CacheInv

\* Everything else leaves the caches alone or drops copies.
LEMMA OtherCache ==
    ASSUME Assumptions, CacheInv,
           \/ \E r \in Req :
                 \/ Arrive(r) \/ Limit(r) \/ RowCheck(r) \/ LocalGet(r) \/ LocalDrop(r) \/ RedisGet(r)
                 \/ StoreRead(r) \/ Claim(r) \/ Record(r) \/ Unclaim(r) \/ Scan(r) \/ Del(r)
           \/ Publish \/ DeleteRow \/ RemoveFiles
           \/ \E i \in Api : CleanUp(i) \/ Crash(i)
           \/ UNCHANGED vars
    PROVE  CacheInv'
  <1>1. /\ local \in [Api -> [Key -> Copy]] /\ redis \in [Key -> Copy] /\ NoCopy \in Copy
    BY CopyType DEF CacheInv, CacheTypeOK
  <1>2. CASE UNCHANGED <<now, local, redis>>
    BY <1>1, <1>2, DropKeepsCache
  <1>3. ASSUME NEW r \in Req, LocalDrop(r)  PROVE CacheInv'
    BY <1>1, <1>3, DropKeepsCache DEF LocalDrop, LocalDelete
  <1>4. ASSUME NEW r \in Req, Del(r)  PROVE CacheInv'
    BY <1>1, <1>4, DropKeepsCache DEF Del, RedisDel
  <1>5. ASSUME NEW i \in Api, CleanUp(i)  PROVE CacheInv'
    BY <1>1, <1>5, DropKeepsCache DEF CleanUp, Sweep
  <1>6. ASSUME NEW i \in Api, Crash(i)  PROVE CacheInv'
    BY <1>1, <1>6, DropKeepsCache DEF Crash, LocalLost
  <1>7. ASSUME NEW r \in Req, Arrive(r)  PROVE UNCHANGED <<now, local, redis>>
    BY <1>7 DEF Arrive, StartPlaylist, StartView, StartClear, Start, caches
  <1>8. ASSUME NEW r \in Req,
               \/ Limit(r) \/ RowCheck(r) \/ LocalGet(r) \/ RedisGet(r)
               \/ StoreRead(r) \/ Claim(r) \/ Record(r) \/ Unclaim(r) \/ Scan(r)
        PROVE  UNCHANGED <<now, local, redis>>
    BY <1>8 DEF Limit, RowCheck, LocalGet, RedisGet, StoreRead, Claim, Record, Unclaim, Scan, caches
  <1>9. ASSUME Publish \/ DeleteRow \/ RemoveFiles \/ UNCHANGED vars
        PROVE  UNCHANGED <<now, local, redis>>
    BY <1>9 DEF Publish, DeleteRow, RemoveFiles, vars, caches
  <1> QED  BY <1>2, <1>3, <1>4, <1>5, <1>6, <1>7, <1>8, <1>9

-----------------------------------------------------------------------------
(* Limiter *)

LEMMA LimitLimiter ==
    ASSUME Assumptions, Rest, Requests, LimiterTypeOK, NEW r \in Req, Limit(r)
    PROVE  LimiterTypeOK'
  <1> DEFINE q == req[r]
             k == <<q.rule, q.address, WindowOf(q.begun)>>
  <1>1. q.rule \in Rule /\ q.address \in Address /\ q.begun \in Time
    BY DEF Limit, At, Requests, Good, Shape, Request
  <1>2. k \in Counter  BY <1>1 DEF Counter
  <1>3. now + RateWindow \in Nat /\ now \in Nat
    BY DEF Rest, Time, Assumptions, RateAssumption
  <1>4. Allow(k) \/ AllowFails(k)  BY DEF Limit
  <1> HIDE DEF k
  <1>5. counter[k].n \in Nat /\ counter[k].n + 1 \in Nat /\ admitted[k] \in Nat
    BY <1>2 DEF LimiterTypeOK
  <1>6. CASE Incr(k)
    BY <1>2, <1>3, <1>4, <1>5, <1>6 DEF Incr, Allow, AllowFails, LimiterTypeOK
  <1>7. CASE IncrBreaks(k) /\ UNCHANGED admitted
    BY <1>2, <1>5, <1>7 DEF IncrBreaks, LimiterTypeOK
  <1>8. CASE UNCHANGED limiter
    BY <1>8 DEF limiter, LimiterTypeOK
  <1> QED  BY <1>4, <1>6, <1>7, <1>8 DEF Allow, AllowFails, limiter

LEMMA OtherLimiter ==
    ASSUME LimiterTypeOK, UNCHANGED limiter \/ LimiterTick
    PROVE  LimiterTypeOK'
  <1>1. CASE UNCHANGED limiter  BY <1>1 DEF limiter, LimiterTypeOK
  <1>2. CASE LimiterTick
    BY <1>2 DEF LimiterTick, LimiterTypeOK, NoCounter
  <1> QED  BY <1>1, <1>2

LEMMA Division ==
    ASSUME NEW a \in Nat, NEW d \in Nat \ {0}
    PROVE  /\ a \div d \in Nat /\ a % d \in 0..(d - 1)
           /\ a = d * (a \div d) + (a % d)
  BY SMTT(30)

LEMMA DivisionOrder ==
    ASSUME NEW d \in Nat \ {0}, NEW p \in Nat, NEW q \in Nat, NEW r \in 0..(d - 1), NEW s \in 0..(d - 1),
           d * p + r <= d * q + s
    PROVE  p <= q
  <1>1. SUFFICES ASSUME p >= q + 1 PROVE FALSE
    OBVIOUS
  <1>2. d * p >= d * (q + 1)  BY <1>1, SMTT(30)
  <1>3. d * (q + 1) = d * q + d  BY SMTT(30)
  <1>4. d * p \in Nat /\ d * q \in Nat  BY SMTT(30)
  <1> QED  BY <1>1, <1>2, <1>3, <1>4

\* Windows follow one another.
LEMMA WindowOrder ==
    ASSUME Assumptions, NEW t \in Nat, NEW u \in Nat, t <= u
    PROVE  WindowOf(t) \in Nat /\ WindowOf(t) <= WindowOf(u)
  <1> DEFINE d == RateWindow
  <1>1. d \in Nat \ {0}  BY DEF Assumptions, RateAssumption
  <1>2. /\ t \div d \in Nat /\ t % d \in 0..(d - 1) /\ t = d * (t \div d) + (t % d)
        /\ u \div d \in Nat /\ u % d \in 0..(d - 1) /\ u = d * (u \div d) + (u % d)
    BY <1>1, Division
  <1> HIDE DEF d
  <1>3. t \div d <= u \div d
    <2>1. d * (t \div d) + (t % d) <= d * (u \div d) + (u % d)  BY <1>2
    <2> QED  BY <1>1, <1>2, <2>1, DivisionOrder
  <1> QED  BY <1>2, <1>3 DEF WindowOf, d

\* A counter given its expiry now outlives its window.
LEMMA WindowEnds ==
    ASSUME Assumptions, NEW t \in Nat
    PROVE  WindowOf(t) < WindowOf(t + RateWindow)
  <1> DEFINE d == RateWindow
             u == t + d
  <1>1. d \in Nat \ {0}  BY DEF Assumptions, RateAssumption
  <1>2. u \in Nat  BY <1>1
  <1>3. /\ t \div d \in Nat /\ t % d \in 0..(d - 1) /\ t = d * (t \div d) + (t % d)
        /\ u \div d \in Nat /\ u % d \in 0..(d - 1) /\ u = d * (u \div d) + (u % d)
    BY <1>1, <1>2, Division
  <1> HIDE DEF d
  <1>4. (t \div d) + 1 <= u \div d
    <2>1. d * ((t \div d) + 1) = d * (t \div d) + d
      BY <1>1, <1>3, SMTT(30)
    <2>2. d * (t \div d) \in Nat
      BY <1>1, <1>3, SMTT(30)
    <2>3. d * ((t \div d) + 1) + (t % d) = t + d
      BY <1>1, <1>3, <2>1, <2>2
    <2>4. d * ((t \div d) + 1) + (t % d) <= d * (u \div d) + (u % d)
      BY <1>1, <1>2, <1>3, <2>3
    <2>5. (t \div d) + 1 \in Nat  BY <1>3
    <2> HIDE DEF u
    <2> QED  BY <1>1, <1>3, <2>4, <2>5, DivisionOrder
  <1> QED  BY <1>3, <1>4 DEF WindowOf, d, u

\* How far a counter and what it has let through can be apart: nothing is let
\* through before its window, and a counter that expires outlives its window.
Budgeted ==
    \A k \in Counter :
        /\ admitted[k] <= Budget[k[1]]
        /\ k[3] = WindowOf(now) => admitted[k] <= counter[k].n
        /\ WindowOf(now) < k[3] => admitted[k] = 0
        /\ counter[k].expires # Never => k[3] < WindowOf(counter[k].expires)
        /\ counter[k].n > 0 /\ counter[k].expires = Never => k \in leaked

LimiterInv == LimiterTypeOK /\ Budgeted

LEMMA CounterType ==
    ASSUME Assumptions, NEW k \in Counter
    PROVE  k[1] \in Rule /\ k[3] \in Nat /\ Budget[k[1]] \in Nat
  <1>1. PICK rule \in Rule, a \in Address, t \in Time : k = <<rule, a, WindowOf(t)>>
    BY DEF Counter
  <1>2. WindowOf(t) \in Nat
    BY WindowOrder DEF Time
  <1> QED  BY <1>1, <1>2 DEF Assumptions, RateAssumption

LEMMA LimitBudget ==
    ASSUME Assumptions, Rest, Requests, LimiterInv, NEW r \in Req, Limit(r)
    PROVE  Budgeted'
  <1> DEFINE q == req[r]
             k == <<q.rule, q.address, WindowOf(q.begun)>>
  <1>1. /\ q.rule \in Rule /\ q.address \in Address /\ q.begun \in Time /\ q.begun <= now
        /\ UNCHANGED now /\ now \in Nat
    BY DEF Limit, At, Requests, Good, Shape, Timely, Request, Rest, Time
  <1>2. k \in Counter /\ k[3] = WindowOf(q.begun)  BY <1>1 DEF Counter
  <1>3. /\ now + RateWindow \in Nat /\ now + RateWindow # Never
        /\ WindowOf(now) \in Nat /\ k[3] <= WindowOf(now) /\ WindowOf(now) < WindowOf(now + RateWindow)
        /\ WindowOf(now + RateWindow) \in Nat /\ k[3] \in Nat
    <2>1. now + RateWindow \in Nat  BY <1>1 DEF Assumptions, RateAssumption
    <2>2. WindowOf(q.begun) <= WindowOf(now) /\ WindowOf(now) \in Nat
      BY <1>1, WindowOrder DEF Time
    <2>3. WindowOf(now) < WindowOf(now + RateWindow)
      BY <1>1, WindowEnds
    <2>4. WindowOf(now + RateWindow) \in Nat
      BY <2>1, WindowOrder
    <2> QED  BY <1>2, <2>1, <2>2, <2>3, <2>4, CounterType DEF Never
  <1>4. k[3] < WindowOf(now + RateWindow)
    BY <1>3
  <1>5. /\ counter[k].n \in Nat /\ admitted[k] \in Nat /\ Budget[k[1]] \in Nat
        /\ counter \in [Counter -> [n : Nat, expires : Nat \cup {Never}]]
        /\ admitted \in [Counter -> Nat]
    BY <1>2, CounterType DEF LimiterInv, LimiterTypeOK
  <1>6. Allow(k) \/ AllowFails(k)  BY DEF Limit
  <1> HIDE DEF k
  <1>7. ASSUME NEW x \in Counter
        PROVE  /\ admitted'[x] <= Budget[x[1]]
               /\ x[3] = WindowOf(now) => admitted'[x] <= counter'[x].n
               /\ WindowOf(now) < x[3] => admitted'[x] = 0
               /\ counter'[x].expires # Never => x[3] < WindowOf(counter'[x].expires)
               /\ counter'[x].n > 0 /\ counter'[x].expires = Never => x \in leaked'
    <2>1. /\ admitted[x] <= Budget[x[1]]
          /\ x[3] = WindowOf(now) => admitted[x] <= counter[x].n
          /\ WindowOf(now) < x[3] => admitted[x] = 0
          /\ counter[x].expires # Never => x[3] < WindowOf(counter[x].expires)
          /\ counter[x].n > 0 /\ counter[x].expires = Never => x \in leaked
      BY DEF LimiterInv, Budgeted
    <2>2. CASE x # k
      <3>1. counter'[x] = counter[x] /\ admitted'[x] = admitted[x] /\ (x \in leaked => x \in leaked')
        BY <1>2, <1>5, <1>6, <2>2 DEF Allow, AllowFails, Incr, IncrBreaks
      <3> QED  BY <2>1, <3>1
    <2>3. CASE x = k /\ Allow(k)
      <3>1. counter'[k].n = counter[k].n + 1 /\ counter'[k].expires = now + RateWindow
        BY <1>2, <1>5, <2>3 DEF Allow, Incr
      <3>2. \/ admitted'[k] = admitted[k]
            \/ /\ admitted'[k] = admitted[k] + 1
               /\ k[3] = WindowOf(now) /\ counter[k].n + 1 <= Budget[k[1]]
        BY <1>2, <1>5, <2>3 DEF Allow, Allowed
      <3> QED  BY <1>3, <1>4, <1>5, <2>1, <2>3, <3>1, <3>2
    <2>4. CASE x = k /\ AllowFails(k)
      <3>1. admitted'[k] = admitted[k]  BY <2>4 DEF AllowFails
      <3>2. CASE Incr(k)
        <4>1. counter'[k].n = counter[k].n + 1 /\ counter'[k].expires = now + RateWindow
          BY <1>2, <1>5, <3>2 DEF Incr
        <4> QED  BY <1>3, <1>4, <1>5, <2>1, <2>4, <3>1, <4>1
      <3>3. CASE IncrBreaks(k)
        <4>1. counter'[k].n = counter[k].n + 1 /\ counter'[k].expires = counter[k].expires
          BY <1>2, <1>5, <3>3 DEF IncrBreaks
        <4>2. k \in leaked \/ counter[k].n = 0 => k \in leaked'
          BY <3>3 DEF IncrBreaks
        <4> QED  BY <1>3, <1>5, <2>1, <2>4, <3>1, <4>1, <4>2
      <3>4. CASE UNCHANGED <<counter, leaked>>
        BY <2>1, <2>4, <3>1, <3>4
      <3> QED  BY <2>4, <3>2, <3>3, <3>4 DEF AllowFails
    <2> QED  BY <1>6, <2>2, <2>3, <2>4
  <1> QED  BY <1>1, <1>7 DEF Budgeted

LEMMA TickBudget ==
    ASSUME Assumptions, Rest, LimiterInv, Tick
    PROVE  Budgeted'
  <1>1. /\ now' = now + 1 /\ now \in Nat /\ UNCHANGED <<admitted, leaked>>
        /\ counter' = [k \in Counter |->
              IF counter[k].expires # Never /\ now + 1 >= counter[k].expires THEN NoCounter ELSE counter[k]]
    BY DEF Tick, LimiterTick, Rest, Time
  <1>2. WindowOf(now) \in Nat /\ WindowOf(now) <= WindowOf(now + 1) /\ WindowOf(now + 1) \in Nat
    BY <1>1, WindowOrder
  <1>3. ASSUME NEW x \in Counter
        PROVE  /\ admitted[x] <= Budget[x[1]]
               /\ x[3] = WindowOf(now + 1) => admitted[x] <= counter'[x].n
               /\ WindowOf(now + 1) < x[3] => admitted[x] = 0
               /\ counter'[x].expires # Never => x[3] < WindowOf(counter'[x].expires)
               /\ counter'[x].n > 0 /\ counter'[x].expires = Never => x \in leaked
    <2>1. /\ admitted[x] <= Budget[x[1]]
          /\ x[3] = WindowOf(now) => admitted[x] <= counter[x].n
          /\ WindowOf(now) < x[3] => admitted[x] = 0
          /\ counter[x].expires # Never => x[3] < WindowOf(counter[x].expires)
          /\ counter[x].n > 0 /\ counter[x].expires = Never => x \in leaked
      BY DEF LimiterInv, Budgeted
    <2>2. /\ counter[x].n \in Nat /\ admitted[x] \in Nat /\ x[3] \in Nat
          /\ counter[x].expires \in Nat \cup {Never}
      BY CounterType DEF LimiterInv, LimiterTypeOK
    <2>3. WindowOf(now + 1) < x[3] => admitted[x] = 0
      BY <1>2, <2>1, <2>2
    <2>4. CASE counter'[x] = counter[x]
      <3>1. x[3] = WindowOf(now + 1) => admitted[x] <= counter[x].n
        BY <1>2, <2>1, <2>2
      <3> QED  BY <2>1, <2>3, <2>4, <3>1
    <2>5. CASE counter[x].expires # Never /\ now + 1 >= counter[x].expires
      <3>1. counter[x].expires \in Nat  BY <2>2, <2>5
      <3>2. WindowOf(counter[x].expires) <= WindowOf(now + 1) /\ WindowOf(counter[x].expires) \in Nat
        BY <1>1, <2>5, <3>1, WindowOrder
      <3>3. x[3] < WindowOf(now + 1)
        BY <1>2, <2>1, <2>2, <2>5, <3>2
      <3>4. counter'[x].n = 0 /\ counter'[x].expires = Never
        BY <1>1, <2>5 DEF NoCounter
      <3> QED  BY <1>2, <2>1, <2>2, <2>3, <3>3, <3>4
    <2> QED  BY <1>1, <2>4, <2>5
  <1> QED  BY <1>1, <1>3 DEF Budgeted

-----------------------------------------------------------------------------
(* Views *)

ViewsInv == ViewsTypeOK /\ Backed

\* What backs the claims of one viewer, as it is after a step.
BackedFor(c) ==
    claim[c] # 0 =>
        \/ c \in orphaned
        \/ \E t \in Time :
              /\ claim[c] = t + ViewWindow
              /\ \/ viewed[c][t] > 0
                 \/ \E r \in Req : Counting(r, c) /\ req[r].at = t

\* A step that leaves views alone keeps every request that is counting.
LEMMA QuietViews ==
    ASSUME ViewsInv, UNCHANGED views,
           \A s \in Req : req[s].step \in {"record", "unclaim"} =>
               /\ req'[s].step \in {"record", "unclaim"}
               /\ req'[s].viewer = req[s].viewer /\ req'[s].at = req[s].at
    PROVE  ViewsInv'
  <1>1. ViewsTypeOK'  BY DEF ViewsInv, ViewsTypeOK, views
  <1>2. \A s \in Req, c \in Viewer :
           Counting(s, c) => Counting(s, c)' /\ req'[s].at = req[s].at
    BY DEF Counting
  <1>3. Backed'
    BY <1>2 DEF ViewsInv, Backed, views
  <1> QED  BY <1>1, <1>3 DEF ViewsInv

LEMMA OtherViews ==
    ASSUME Assumptions, Requests, ViewsInv,
           \/ \E r \in Req :
                 \/ Arrive(r) \/ Limit(r) \/ RowCheck(r) \/ LocalGet(r) \/ LocalDrop(r) \/ RedisGet(r)
                 \/ StoreRead(r) \/ RedisPut(r) \/ LocalFill(r) \/ Scan(r) \/ Del(r)
           \/ Publish \/ DeleteRow \/ RemoveFiles
           \/ \E i \in Api : CleanUp(i)
           \/ UNCHANGED vars
    PROVE  ViewsInv'
  <1>1. CASE UNCHANGED <<views, req>>
    BY <1>1, QuietViews
  <1>2. ASSUME UNCHANGED views, NEW r \in Req, req[r].step \notin {"record", "unclaim"},
               NEW q, Becomes(r, q)
        PROVE  ViewsInv'
    BY <1>2, QuietViews DEF Becomes, Requests
  <1>3. ASSUME NEW r \in Req, Arrive(r)  PROVE ViewsInv'
    <2>1. UNCHANGED views /\ req[r] = Idle
      BY <1>3 DEF Arrive, StartPlaylist, StartView, StartClear, Start
    <2>2. \E q : Becomes(r, q)
      BY <1>3 DEF Arrive, StartPlaylist, StartView, StartClear, Start, Becomes
    <2> QED  BY <2>1, <2>2, <1>2 DEF Idle
  <1>4. ASSUME NEW r \in Req,
               \/ Limit(r) \/ RowCheck(r) \/ LocalGet(r) \/ LocalDrop(r) \/ RedisGet(r)
               \/ StoreRead(r) \/ RedisPut(r) \/ LocalFill(r)
        PROVE  ViewsInv'
    <2>1. UNCHANGED views /\ req[r].step \notin {"record", "unclaim"}
      BY <1>4 DEF Limit, RowCheck, LocalGet, LocalDrop, RedisGet, StoreRead, RedisPut, LocalFill, At
    <2>2. \E q : Becomes(r, q)
      BY <1>4, StaysPut DEF Limit, RowCheck, LocalGet, LocalDrop, RedisGet, StoreRead, RedisPut, LocalFill, Goto, End
    <2> QED  BY <2>1, <2>2, <1>2
  <1>5. ASSUME NEW r \in Req, Scan(r) \/ Del(r)  PROVE ViewsInv'
    <2>1. UNCHANGED views /\ req[r].step \notin {"record", "unclaim"}
      BY <1>5 DEF Scan, Del, At
    <2>2. CASE End(r)  BY <2>1, <2>2, <1>2 DEF End
    <2>3. CASE \E q : req' = [LateComers(r) EXCEPT ![r] = q]
      <3>1. \A s \in Req : req[s] \in Request  BY DEF Requests
      <3>2. \A s \in Req : s # r => req'[s] = LateComers(r)[s]
        BY <2>3 DEF LateComers
      <3>3. \A s \in Req : /\ LateComers(r)[s].step = req[s].step
                           /\ LateComers(r)[s].viewer = req[s].viewer
                           /\ LateComers(r)[s].at = req[s].at
        BY <3>1 DEF LateComers, Request
      <3> QED  BY <2>1, <3>2, <3>3, QuietViews
    <2> QED  BY <1>5, <2>2, <2>3 DEF Scan, Del
  <1>6. CASE Publish \/ DeleteRow \/ RemoveFiles \/ (\E i \in Api : CleanUp(i)) \/ UNCHANGED vars
    BY <1>1, <1>6 DEF Publish, DeleteRow, RemoveFiles, CleanUp, vars
  <1> QED  BY <1>3, <1>4, <1>5, <1>6

LEMMA ClaimViews ==
    ASSUME Assumptions, Rest, Requests, ViewsInv, NEW r \in Req, Claim(r)
    PROVE  ViewsInv'
  <1> DEFINE c == req[r].viewer
             q == [req[r] EXCEPT !.step = "record", !.at = now]
  <1>1. /\ req[r].step = "claim" /\ c \in Viewer /\ UNCHANGED <<now, viewed>> /\ now \in Time
        /\ req[r] \in Request
    BY DEF Claim, At, Requests, Good, Shape, ViewStep, Rest
  <1>2. /\ UNCHANGED orphaned \/ Orphan({c})
        /\ Trouble(c) \/ UNCHANGED trouble
    BY DEF Claim
  <1>3. \/ UNCHANGED claim /\ (End(r) \/ Becomes(r, q))
        \/ SetClaim(c) /\ Becomes(r, q)
        \/ SetClaim(c) /\ End(r) /\ Orphan({c})
    BY DEF Claim
  <1>4. now + ViewWindow \in Nat
    BY <1>1 DEF Time, Assumptions, ViewAssumption
  <1>5. ViewsTypeOK'
    BY <1>1, <1>2, <1>3, <1>4 DEF ViewsInv, ViewsTypeOK, SetClaim, Trouble, Orphan
  <1>6. \A s \in Req, d \in Viewer : Counting(s, d) => Counting(s, d)' /\ req'[s] = req[s]
    BY <1>1, <1>3 DEF Counting, End, Becomes, Requests
  <1>7. ASSUME NEW d \in Viewer  PROVE BackedFor(d)'
    <2>1. BackedFor(d)  BY DEF ViewsInv, Backed, BackedFor
    <2>2. CASE claim'[d] = claim[d]
      BY <2>1, <2>2, <1>1, <1>2, <1>6 DEF BackedFor, Orphan
    <2>3. CASE claim'[d] # claim[d] /\ d \in orphaned'
      BY <2>3 DEF BackedFor
    <2>4. CASE claim'[d] # claim[d] /\ d \notin orphaned'
      <3>1. d = c /\ SetClaim(c) /\ Becomes(r, q) /\ claim'[d] = now + ViewWindow
        BY <1>1, <1>3, <2>4 DEF SetClaim, Orphan, ViewsInv, ViewsTypeOK
      <3>2. req'[r] = q  BY <3>1 DEF Becomes, Requests
      <3>3. q.step = "record" /\ q.at = now /\ q.viewer = c
        BY <1>1 DEF Request
      <3> HIDE DEF q
      <3>4. Counting(r, d)' /\ req'[r].at = now
        BY <3>1, <3>2, <3>3 DEF Counting
      <3> QED  BY <1>1, <3>1, <3>4 DEF BackedFor
    <2> QED  BY <2>2, <2>3, <2>4
  <1>8. Backed'  BY <1>7 DEF Backed, BackedFor
  <1> QED  BY <1>5, <1>8 DEF ViewsInv

LEMMA CountedView ==
    ASSUME ViewsTypeOK, NEW c \in Viewer, NEW t \in Time, CountView(c, t)
    PROVE  /\ viewed' \in [Viewer -> [Time -> Nat]]
           /\ viewed'[c][t] > 0
           /\ \A d \in Viewer, u \in Time : viewed[d][u] > 0 => viewed'[d][u] > 0
  <1> DEFINE counts == [viewed[c] EXCEPT ![t] = @ + 1]
  <1>1. viewed \in [Viewer -> [Time -> Nat]] /\ viewed[c] \in [Time -> Nat]
    BY DEF ViewsTypeOK
  <1>2. viewed[c][t] \in Nat /\ viewed[c][t] + 1 \in Nat /\ viewed[c][t] + 1 > 0
    BY <1>1
  <1>3. counts \in [Time -> Nat] /\ counts[t] > 0 /\ \A u \in Time : u # t => counts[u] = viewed[c][u]
    BY <1>1, <1>2
  <1>4. viewed' = [viewed EXCEPT ![c] = counts]
    BY <1>1 DEF CountView
  <1> HIDE DEF counts
  <1> QED  BY <1>1, <1>3, <1>4

LEMMA RecordViews ==
    ASSUME Assumptions, Rest, Requests, ViewsInv, NEW r \in Req, Record(r)
    PROVE  ViewsInv'
  <1> DEFINE c == req[r].viewer
             t0 == req[r].at
  <1>1. /\ req[r].step = "record" /\ c \in Viewer /\ UNCHANGED <<now, claim, orphaned>>
        /\ t0 \in Time /\ req[r] \in Request
    BY DEF Record, At, Requests, Good, Shape, ViewStep, Request
  <1>2. Trouble(c) \/ UNCHANGED trouble
    BY DEF Record
  <1>3. CountView(c, t0) \/ UNCHANGED viewed
    BY DEF Record
  <1>4. Goto(r, "unclaim") \/ (End(r) /\ CountView(c, t0))
    BY DEF Record
  <1>5. ViewsTypeOK'
    BY <1>1, <1>2, <1>3, CountedView DEF ViewsInv, ViewsTypeOK, Trouble
  <1>6. \A d \in Viewer, t \in Time : viewed[d][t] > 0 => viewed'[d][t] > 0
    BY <1>1, <1>3, CountedView DEF ViewsInv
  <1>7. CASE Goto(r, "unclaim")
    <2>1. \A s \in Req, d \in Viewer :
             Counting(s, d) => Counting(s, d)' /\ req'[s].at = req[s].at
      BY <1>1, <1>7 DEF Counting, Goto, Becomes, Requests, Request
    <2>2. Backed'
      BY <1>1, <1>6, <2>1 DEF ViewsInv, Backed
    <2> QED  BY <1>5, <2>2 DEF ViewsInv
  <1>8. CASE End(r) /\ CountView(c, t0)
    <2>1. \A s \in Req, d \in Viewer :
             s # r /\ Counting(s, d) => Counting(s, d)' /\ req'[s] = req[s]
      BY <1>8 DEF Counting, End, Becomes, Requests
    <2>2. viewed'[c][t0] > 0
      BY <1>1, <1>8, CountedView DEF ViewsInv
    <2>3. \A d \in Viewer : Counting(r, d) => d = c
      BY DEF Counting
    <2>4. ASSUME NEW d \in Viewer  PROVE BackedFor(d)'
      <3>1. BackedFor(d)  BY DEF ViewsInv, Backed, BackedFor
      <3> QED  BY <1>1, <1>6, <2>1, <2>2, <2>3, <3>1 DEF BackedFor
    <2>5. Backed'  BY <2>4 DEF Backed, BackedFor
    <2> QED  BY <1>5, <2>5 DEF ViewsInv
  <1> QED  BY <1>4, <1>7, <1>8

LEMMA UnclaimViews ==
    ASSUME Assumptions, Rest, Requests, ViewsInv, NEW r \in Req, Unclaim(r)
    PROVE  ViewsInv'
  <1> DEFINE c == req[r].viewer
  <1>1. c \in Viewer /\ UNCHANGED <<now, viewed>> /\ End(r)
    BY DEF Unclaim, At, Requests, Good, Shape, ViewStep
  <1>2. Trouble(c) \/ UNCHANGED trouble  BY DEF Unclaim
  <1>3. DelClaim(c) \/ (UNCHANGED claim /\ Orphan({c}))  BY DEF Unclaim
  <1>4. ViewsTypeOK'
    BY <1>1, <1>2, <1>3 DEF ViewsInv, ViewsTypeOK, DelClaim, Orphan, Trouble
  <1>5. \A s \in Req, d \in Viewer :
           d # c /\ Counting(s, d) => Counting(s, d)' /\ req'[s] = req[s]
    BY <1>1 DEF Counting, End, Becomes, Requests
  <1>6. /\ claim'[c] = 0 \/ c \in orphaned'
        /\ \A d \in Viewer : d # c => claim'[d] = claim[d] /\ (d \in orphaned => d \in orphaned')
    BY <1>1, <1>3 DEF DelClaim, Orphan, ViewsInv, ViewsTypeOK
  <1>7. ASSUME NEW d \in Viewer  PROVE BackedFor(d)'
    <2>1. BackedFor(d)  BY DEF ViewsInv, Backed, BackedFor
    <2> QED  BY <1>1, <1>5, <1>6, <2>1 DEF BackedFor
  <1>8. Backed'  BY <1>7 DEF Backed, BackedFor
  <1> QED  BY <1>4, <1>8 DEF ViewsInv

\* The claims of whoever was counting are given up.
LEMMA CrashViews ==
    ASSUME Assumptions, Rest, Requests, ViewsInv, NEW i \in Api, Crash(i)
    PROVE  ViewsInv'
  <1> DEFINE lost == {r \in Req : req[r].api = i /\ req[r].step \in {"record", "unclaim"}}
  <1>1. /\ UNCHANGED <<now, claim, viewed, trouble>>
        /\ orphaned' = orphaned \cup {req[r].viewer : r \in lost}
    BY DEF Crash, Orphan
  <1>2. \A r \in lost : req[r].viewer \in Viewer
    BY DEF Requests, Good, Shape, ViewStep
  <1>3. ViewsTypeOK'
    BY <1>1, <1>2 DEF ViewsInv, ViewsTypeOK
  <1>4. \A s \in Req : req[s].api = i \/ req'[s] = req[s]
    BY DEF Crash
  <1>5. ASSUME NEW d \in Viewer  PROVE BackedFor(d)'
    <2>1. BackedFor(d)  BY DEF ViewsInv, Backed, BackedFor
    <2>2. CASE \E s \in lost : req[s].viewer = d
      BY <1>1, <2>2 DEF BackedFor
    <2>3. CASE ~ \E s \in lost : req[s].viewer = d
      <3>1. \A s \in Req : Counting(s, d) => Counting(s, d)' /\ req'[s] = req[s]
        BY <1>4, <2>3 DEF Counting
      <3> QED  BY <1>1, <2>1, <3>1 DEF BackedFor
    <2> QED  BY <2>2, <2>3
  <1>6. Backed'  BY <1>5 DEF Backed, BackedFor
  <1> QED  BY <1>3, <1>6 DEF ViewsInv

LEMMA TickViews ==
    ASSUME Assumptions, Rest, Requests, ViewsInv, Tick
    PROVE  ViewsInv'
  <1>1. /\ claim' = [c \in Viewer |-> IF now + 1 >= claim[c] THEN 0 ELSE claim[c]]
        /\ orphaned' = {c \in orphaned : now + 1 < claim[c]}
        /\ UNCHANGED <<viewed, trouble, req>> /\ now \in Nat
    BY DEF Tick, ViewsTick, Rest, Time
  <1>2. ViewsTypeOK'
    BY <1>1 DEF ViewsInv, ViewsTypeOK
  <1>3. ASSUME NEW d \in Viewer  PROVE BackedFor(d)'
    <2>1. BackedFor(d) /\ claim[d] \in Nat
      BY DEF ViewsInv, Backed, BackedFor, ViewsTypeOK
    <2>2. claim'[d] # 0 => claim'[d] = claim[d] /\ now + 1 < claim[d]
      BY <1>1, <2>1
    <2>3. \A s \in Req : Counting(s, d) => Counting(s, d)' /\ req'[s] = req[s]
      BY <1>1 DEF Counting
    <2> QED  BY <1>1, <2>1, <2>2, <2>3 DEF BackedFor
  <1>4. Backed'  BY <1>3 DEF Backed, BackedFor
  <1> QED  BY <1>2, <1>4 DEF ViewsInv

-----------------------------------------------------------------------------
(* Clearing *)

\* No version that a clearing has to compare with is newer than the stored one.
Settled(v) == v <= stored \/ (row = "gone" /\ stored = 0)

Newest ==
    /\ Settled(floor)
    /\ cleared = Never => floor = 0
    /\ \A x \in Req : req[x].step = "del" => Settled(req[x].content.v)

\* What a clearing under way has not scanned was stored by somebody late, and so
\* is what will be put into Redis before it ends.
Scanned ==
    \A x \in Req : req[x].step = "del" =>
        /\ \A k \in Key \ req[x].keys :
              redis[k] # NoCopy /\ redis[k].v < req[x].content.v => redis[k].late
        /\ \A s \in Req :
              req[s].step = "put" /\ req[s].content.v < req[x].content.v => req[s].content.late

Carried ==
    \A s \in Req :
        req[s].step \in {"put", "fill"} /\ req[s].content.v < floor => req[s].content.late

Young == \A i \in Api, k \in Key : local[i][k].expires <= now + LocalTTL

ClearInv == Newest /\ Scanned /\ Carried /\ Young /\ ClearSticks

Dropped ==
    /\ \A i \in Api, k \in Key : local'[i][k] = local[i][k] \/ local'[i][k] = NoCopy
    /\ \A k \in Key : redis'[k] = redis[k] \/ redis'[k] = NoCopy

\* A request that carries something after a step carried it before, or is late.
CarryOn ==
    \A s \in Req :
        /\ req'[s].step = "del" =>
              /\ req[s].step = "del"
              /\ req'[s].content.v = req[s].content.v /\ req'[s].keys = req[s].keys
        /\ req'[s].step \in {"put", "fill"} /\ ~ req'[s].content.late =>
              /\ req[s].step \in {"put", "fill"} /\ ~ req[s].content.late
              /\ req'[s].content.v = req[s].content.v
              /\ req'[s].step = "put" => req[s].step = "put"

Untouched == now \in Nat /\ now' \in Nat /\ now <= now' /\ UNCHANGED <<row, stored, floor, cleared>>

LEMMA DropKeepsClear ==
    ASSUME Assumptions, CacheTypeOK, ClearInv, Dropped, CarryOn, Untouched
    PROVE  ClearInv'
  <1>1. Newest'
    BY DEF ClearInv, Newest, Settled, CarryOn, Untouched
  <1>2. ASSUME NEW x \in Req, req'[x].step = "del"
        PROVE  /\ \A k \in Key \ req'[x].keys :
                     redis'[k] # NoCopy /\ redis'[k].v < req'[x].content.v => redis'[k].late
               /\ \A s \in Req :
                     req'[s].step = "put" /\ req'[s].content.v < req'[x].content.v => req'[s].content.late
    <2>1. /\ req[x].step = "del" /\ req'[x].content.v = req[x].content.v /\ req'[x].keys = req[x].keys
      BY <1>2 DEF CarryOn
    <2>2. /\ \A k \in Key \ req[x].keys :
                redis[k] # NoCopy /\ redis[k].v < req[x].content.v => redis[k].late
          /\ \A s \in Req :
                req[s].step = "put" /\ req[s].content.v < req[x].content.v => req[s].content.late
      BY <2>1 DEF ClearInv, Scanned
    <2> QED  BY <2>1, <2>2 DEF Dropped, CarryOn
  <1>3. Scanned'  BY <1>2 DEF Scanned
  <1>4. Carried'
    BY DEF ClearInv, Carried, CarryOn, Untouched
  <1>5. Young'
    <2>1. ASSUME NEW i \in Api, NEW k \in Key  PROVE local'[i][k].expires <= now' + LocalTTL
      <3>1. local[i][k].expires \in Nat /\ local[i][k].expires <= now + LocalTTL
        BY DEF CacheTypeOK, Copy, ClearInv, Young
      <3>2. CASE local'[i][k] = local[i][k]
        BY <3>1, <3>2 DEF Untouched, Assumptions, CacheAssumption
      <3>3. CASE local'[i][k] = NoCopy
        <4>1. local'[i][k].expires = 0  BY <3>3 DEF NoCopy
        <4>2. now' \in Nat  BY DEF Untouched
        <4>3. LocalTTL \in Nat  BY DEF Assumptions, CacheAssumption
        <4>4. \A m, n \in Nat : 0 <= m + n  OBVIOUS
        <4>5. 0 <= now' + LocalTTL  BY <4>2, <4>3, <4>4
        <4> QED  BY <4>1, <4>5
      <3> QED  BY <3>2, <3>3 DEF Dropped
    <2> QED  BY <2>1 DEF Young
  <1>6. ClearSticks'
    BY DEF ClearInv, ClearSticks, Dropped, Untouched
  <1> QED  BY <1>1, <1>3, <1>4, <1>5, <1>6 DEF ClearInv

LEMMA BecomesCarriesOn ==
    ASSUME Requests, NEW r \in Req, NEW q, Becomes(r, q), q.step \notin {"put", "fill", "del"}
    PROVE  CarryOn
  BY DEF Requests, Becomes, CarryOn

\* The steps that carry nothing new.
LEMMA QuietClear ==
    ASSUME Assumptions, Rest, Requests, CacheInv, ClearInv,
           \/ \E r \in Req :
                 \/ Arrive(r) \/ Limit(r) \/ RowCheck(r) \/ LocalGet(r) \/ LocalDrop(r)
                 \/ Claim(r) \/ Record(r) \/ Unclaim(r)
           \/ \E i \in Api : CleanUp(i) \/ Crash(i)
           \/ Tick
           \/ UNCHANGED vars
    PROVE  ClearInv'
  <1>1. CacheTypeOK /\ now \in Nat /\ now <= now
    BY DEF CacheInv, Rest, Time
  <1>2. ASSUME NEW r \in Req,
               \/ Arrive(r) \/ Limit(r) \/ RowCheck(r) \/ LocalGet(r) \/ LocalDrop(r)
               \/ Claim(r) \/ Record(r) \/ Unclaim(r)
        PROVE  ClearInv'
    <2>1. Untouched
      BY <1>1, <1>2 DEF Untouched, Arrive, StartPlaylist, StartView, StartClear, Start, Limit, RowCheck,
            LocalGet, LocalDrop, Claim, Record, Unclaim, video, history
    <2>2. Dropped
      BY <1>1, <1>2 DEF Dropped, Arrive, StartPlaylist, StartView, StartClear, Start, Limit, RowCheck,
            LocalGet, LocalDrop, LocalDelete, Claim, Record, Unclaim, caches, CacheTypeOK
    <2>3. req[r] \in Request /\ Shape(req[r]) /\ Idle.step = "idle"
      BY DEF Requests, Good, Idle
    <2>4. CarryOn
      <3>1. CASE Limit(r) \/ RowCheck(r) \/ LocalGet(r) \/ LocalDrop(r) \/ Claim(r) \/ Record(r) \/ Unclaim(r)
        <4>1. \E q : Becomes(r, q) /\ q.step \notin {"put", "fill", "del"}
          <5>1. CASE End(r)
            BY <2>3, <5>1 DEF End
          <5>2. ASSUME NEW step, step \notin {"put", "fill", "del"}, Goto(r, step)
                PROVE  \E q : Becomes(r, q) /\ q.step \notin {"put", "fill", "del"}
            <6>1. [req[r] EXCEPT !.step = step].step = step
              BY <2>3 DEF Request
            <6> QED  BY <5>2, <6>1 DEF Goto
          <5>3. CASE Limit(r)
            <6>1. CASE UNCHANGED req
              BY <5>3, <6>1, StaysPut DEF Limit, At
            <6> QED  BY <2>3, <5>1, <5>2, <5>3, <6>1 DEF Limit, At, Shape
          <5>4. CASE RowCheck(r) \/ LocalGet(r) \/ LocalDrop(r) \/ Record(r) \/ Unclaim(r)
            BY <5>1, <5>2, <5>4 DEF RowCheck, LocalGet, LocalDrop, Record, Unclaim
          <5>5. CASE Claim(r)
            <6>1. [req[r] EXCEPT !.step = "record", !.at = now].step = "record"
              BY <2>3 DEF Request
            <6> QED  BY <5>1, <5>5, <6>1 DEF Claim
          <5> QED  BY <3>1, <5>3, <5>4, <5>5
        <4> QED  BY <4>1, BecomesCarriesOn
      <3>2. CASE Arrive(r)
        BY <3>2, ArriveGood, BecomesCarriesOn
      <3> QED  BY <1>2, <3>1, <3>2
    <2> QED  BY <1>1, <2>1, <2>2, <2>4, DropKeepsClear
  <1>3. ASSUME NEW i \in Api, CleanUp(i) \/ Crash(i)  PROVE ClearInv'
    <2>1. Untouched
      BY <1>1, <1>3 DEF Untouched, CleanUp, Crash, video, history
    <2>2. Dropped
      BY <1>1, <1>3 DEF Dropped, CleanUp, Crash, Sweep, LocalLost, CacheTypeOK
    <2>3. \A s \in Req : req'[s] = req[s] \/ req'[s] = Idle
      BY <1>3 DEF CleanUp, Crash
    <2>4. CarryOn
      BY <2>3 DEF CarryOn, Idle
    <2> QED  BY <1>1, <2>1, <2>2, <2>4, DropKeepsClear
  <1>4. CASE Tick \/ UNCHANGED vars
    <2>1. Untouched
      BY <1>1, <1>4 DEF Untouched, Tick, video, history, vars
    <2>2. Dropped
      BY <1>1, <1>4 DEF Dropped, Tick, CacheTick, CacheTypeOK, vars, caches
    <2>3. CarryOn
      BY <1>4 DEF CarryOn, Tick, vars
    <2> QED  BY <1>1, <2>1, <2>2, <2>3, DropKeepsClear
  <1> QED  BY <1>2, <1>3, <1>4

\* A playlist is read from Redis or from the store, or not.
LEMMA ReadClear ==
    ASSUME Assumptions, Rest, Requests, CacheInv, ClearInv, NEW r \in Req, RedisGet(r) \/ StoreRead(r)
    PROVE  ClearInv'
  <1>1. /\ CacheTypeOK /\ now \in Nat /\ now <= now /\ req[r] \in Request /\ req[r].key \in Key
        /\ req[r].step \in {"redis", "store"} /\ UNCHANGED <<now, local, redis, row, stored, floor, cleared>>
    BY DEF CacheInv, Rest, Time, Requests, Good, Shape, PlaylistStep, RedisGet, StoreRead, At,
           caches, video, history
  <1>2. CASE End(r) \/ Goto(r, "store")
    <2>1. \E q : Becomes(r, q) /\ q.step \notin {"put", "fill", "del"}
      BY <1>1, <1>2 DEF End, Goto, Idle, Request
    <2>2. Dropped /\ Untouched  BY <1>1 DEF Dropped, Untouched
    <2> QED  BY <1>1, <2>1, <2>2, BecomesCarriesOn, DropKeepsClear
  <1>3. ASSUME NEW content \in Content, NEW step \in {"put", "fill"},
               Becomes(r, [req[r] EXCEPT !.step = step, !.content = content]),
               content.v < floor => content.late,
               step = "put" => \A x \in Req :
                   req[x].step = "del" /\ content.v < req[x].content.v => content.late
        PROVE  ClearInv'
    <2> DEFINE q == [req[r] EXCEPT !.step = step, !.content = content]
    <2>1. q.step = step /\ q.content = content
      BY <1>1 DEF Request
    <2>2. \A s \in Req : req'[s] = IF s = r THEN q ELSE req[s]
      BY <1>3 DEF Becomes, Requests
    <2> HIDE DEF q
    <2>3. Newest' /\ Young' /\ ClearSticks'
      BY <1>1, <2>1, <2>2 DEF ClearInv, Newest, Settled, Young, ClearSticks
    <2>4. Scanned'
      BY <1>1, <1>3, <2>1, <2>2 DEF ClearInv, Scanned
    <2>5. Carried'
      BY <1>1, <1>3, <2>1, <2>2 DEF ClearInv, Carried
    <2> QED  BY <2>3, <2>4, <2>5 DEF ClearInv
  <1>4. ASSUME redis[req[r].key] # NoCopy,
               Becomes(r, [req[r] EXCEPT !.step = "fill", !.content =
                   [v |-> redis[req[r].key].v, at |-> redis[req[r].key].at, late |-> redis[req[r].key].late]])
        PROVE  ClearInv'
    <2> DEFINE copy == redis[req[r].key]
               content == [v |-> copy.v, at |-> copy.at, late |-> copy.late]
    <2>1. copy \in Copy /\ copy.v \in Nat
      BY <1>1 DEF CacheTypeOK, Copy
    <2>2. content \in Content /\ content.v = copy.v /\ content.late = copy.late
      BY <2>1 DEF Content, Copy
    <2>3. copy.v < floor => copy.late
      <3>1. CASE cleared = Never
        BY <2>1, <3>1 DEF ClearInv, Newest
      <3>2. CASE cleared # Never
        BY <1>1, <1>4, <3>2 DEF ClearInv, ClearSticks
      <3> QED  BY <3>1, <3>2
    <2> QED  BY <1>3, <1>4, <2>2, <2>3
  <1>5. ASSUME stored # 0,
               Becomes(r, [req[r] EXCEPT !.step = "put",
                   !.content = [v |-> stored, at |-> now, late |-> req[r].late]])
        PROVE  ClearInv'
    <2> DEFINE content == [v |-> stored, at |-> now, late |-> req[r].late]
    <2>1. content \in Content /\ content.v = stored
      BY <1>1 DEF Content, Rest, Request, Assumptions, DeliveryAssumption
    <2>2. stored \in Int /\ floor \in Int /\ \A x \in Req : req[x].content.v \in Int
      BY DEF Rest, Requests, Request, Content, Assumptions, DeliveryAssumption
    <2>3. /\ ~(stored < floor)
          /\ \A x \in Req : req[x].step = "del" => ~(stored < req[x].content.v)
      BY <1>5, <2>2 DEF ClearInv, Newest, Settled
    <2> QED  BY <1>3, <1>5, <2>1, <2>3
  <1> QED  BY <1>2, <1>4, <1>5 DEF RedisGet, StoreRead

LEMMA StoreClear ==
    ASSUME Assumptions, Rest, Requests, CacheInv, ClearInv, NEW r \in Req, RedisPut(r) \/ LocalFill(r)
    PROVE  ClearInv'
  <1> DEFINE q == req[r]
  <1>1. /\ CacheTypeOK /\ now \in Nat /\ now <= now /\ q \in Request /\ q.key \in Key /\ q.api \in Api
        /\ q.content \in Content /\ q.step \in {"put", "fill"}
        /\ UNCHANGED <<now, row, stored, floor, cleared>>
    BY DEF CacheInv, Rest, Time, Requests, Good, Shape, PlaylistStep, RedisPut, LocalFill, At,
           Request, video, history
  <1>2. Untouched  BY <1>1 DEF Untouched
  <1>3. CarryOn
    <2>1. CASE End(r)
      BY <2>1, BecomesCarriesOn DEF End, Idle
    <2>2. CASE RedisPut(r) /\ Goto(r, "fill")
      <3>1. q.step = "put"  BY <2>2 DEF RedisPut, At
      <3>2. /\ [q EXCEPT !.step = "fill"].step = "fill"
            /\ [q EXCEPT !.step = "fill"].content = q.content
        BY <1>1 DEF Request
      <3> QED  BY <2>2, <3>1, <3>2 DEF Goto, Becomes, CarryOn, Requests
    <2> QED  BY <2>1, <2>2 DEF RedisPut, LocalFill
  <1>4. CASE UNCHANGED <<local, redis>>
    BY <1>1, <1>2, <1>3, <1>4, DropKeepsClear DEF Dropped
  <1>5. ASSUME q.step = "put", UNCHANGED local, RedisSet(q.key, q.content)
        PROVE  ClearInv'
    <2> DEFINE copy == Until(q.content, now + PlaylistTTL)
    <2>1. copy.v = q.content.v /\ copy.late = q.content.late
      BY DEF Until
    <2>2. \A k \in Key : redis'[k] = IF k = q.key THEN copy ELSE redis[k]
      BY <1>1, <1>5 DEF RedisSet, CacheTypeOK
    <2>3. /\ copy.v < floor => copy.late
          /\ \A x \in Req : req[x].step = "del" /\ copy.v < req[x].content.v => copy.late
      BY <1>5, <2>1 DEF ClearInv, Carried, Scanned
    <2> HIDE DEF copy
    <2>4. Newest' /\ Carried' /\ Young'
      BY <1>1, <1>3, <1>5 DEF ClearInv, Newest, Settled, Carried, Young, CarryOn
    <2>5. Scanned'
      BY <1>1, <1>3, <2>2, <2>3 DEF ClearInv, Scanned, CarryOn
    <2>6. ClearSticks'
      BY <1>1, <1>5, <2>2, <2>3 DEF ClearInv, ClearSticks
    <2> QED  BY <2>4, <2>5, <2>6 DEF ClearInv
  <1>6. ASSUME q.step = "fill", UNCHANGED redis, Refill(q.api, q.key, q.content)
        PROVE  ClearInv'
    <2> DEFINE copy == Until(q.content, now + LocalTTL)
    <2>1. now + LocalTTL \in Nat
      BY <1>1 DEF Assumptions, CacheAssumption
    <2>2. copy \in Copy /\ copy.expires = now + LocalTTL
      BY <1>1, <2>1, CopyType
    <2>3. copy.v = q.content.v /\ copy.late = q.content.late
      BY DEF Until
    <2>4. copy.v < floor => copy.late
      BY <1>6, <2>3 DEF ClearInv, Carried
    <2> HIDE DEF copy
    <2>5. LocalSet(q.api, q.key, copy)
      BY <1>6 DEF Refill, copy
    <2>6. \A j \in Api, x \in Key :
             local'[j][x] = local[j][x] \/ local'[j][x] = NoCopy \/ local'[j][x] = copy
      BY <1>1, <2>2, <2>5, LocalSetFits
    <2>7. Newest' /\ Carried' /\ Scanned'
      BY <1>1, <1>3, <1>6 DEF ClearInv, Newest, Settled, Carried, Scanned, CarryOn
    <2>8. Young'
      <3>1. ASSUME NEW j \in Api, NEW x \in Key  PROVE local'[j][x].expires <= now + LocalTTL
        <4>1. NoCopy.expires = 0 /\ 0 <= now + LocalTTL /\ now + LocalTTL <= now + LocalTTL
          BY <2>1 DEF NoCopy
        <4>2. local[j][x].expires <= now + LocalTTL
          BY DEF ClearInv, Young
        <4> QED  BY <2>2, <2>6, <4>1, <4>2
      <3> QED  BY <1>1, <3>1 DEF Young
    <2>9. ClearSticks'
      BY <1>1, <1>6, <2>4, <2>6 DEF ClearInv, ClearSticks
    <2> QED  BY <2>7, <2>8, <2>9 DEF ClearInv
  <1> QED  BY <1>4, <1>5, <1>6 DEF RedisPut, LocalFill, At

\* Whoever is under way while the cache is scanned or cleared is late from then
\* on, and nobody else has read a version older than the scan's.
LEMMA ClearClear ==
    ASSUME Assumptions, Rest, Requests, CacheInv, ClearInv, NEW r \in Req, Scan(r) \/ Del(r)
    PROVE  ClearInv'
  <1>1. /\ CacheTypeOK /\ now \in Nat /\ now <= now /\ req[r] \in Request /\ req[r].step \in {"scan", "del"}
        /\ UNCHANGED <<now, local, row, stored>>
    BY DEF CacheInv, Rest, Time, Requests, Good, Scan, Del, At, caches, video
  <1>2. CASE End(r) /\ UNCHANGED history
    <2>1. Untouched  BY <1>1, <1>2 DEF Untouched, history
    <2>2. CarryOn  BY <1>2, BecomesCarriesOn DEF End, Idle
    <2>3. Dropped
      BY <1>1 DEF Dropped, Scan, Del, RedisDel, caches, CacheTypeOK
    <2> QED  BY <1>1, <2>1, <2>2, <2>3, DropKeepsClear
  <1>3. \A s \in Req : s # r =>
           /\ LateComers(r)[s].step = req[s].step /\ LateComers(r)[s].keys = req[s].keys
           /\ LateComers(r)[s].content.v = req[s].content.v
           /\ req[s].step # "idle" => LateComers(r)[s].content.late
    <2>1. \A s \in Req : req[s] \in Request  BY DEF Requests
    <2>2. Idle.step = "idle"  BY DEF Idle
    <2> QED  BY <2>1, <2>2 DEF LateComers, Request, Content
  <1>4. ASSUME NEW q, req' = [LateComers(r) EXCEPT ![r] = q]
        PROVE  /\ req'[r] = q
               /\ \A s \in Req : s # r =>
                     /\ req'[s].step = req[s].step /\ req'[s].keys = req[s].keys
                     /\ req'[s].content.v = req[s].content.v
                     /\ req[s].step # "idle" => req'[s].content.late
    BY <1>3, <1>4 DEF LateComers
  <1>5. ASSUME Scan(r),
               req' = [LateComers(r) EXCEPT ![r] = [@ EXCEPT !.step = "del", !.keys = Cached,
                                                           !.content.v = stored]]
        PROVE  ClearInv'
    <2> DEFINE q == [req[r] EXCEPT !.step = "del", !.keys = Cached, !.content.v = stored]
    <2>1. LateComers(r)[r] = req[r]  BY DEF LateComers
    <2>2. req' = [LateComers(r) EXCEPT ![r] = q]
      BY <1>5, <2>1 DEF LateComers
    <2>3. q.step = "del" /\ q.keys = Cached /\ q.content.v = stored
      BY <1>1 DEF Request, Content
    <2> HIDE DEF q
    <2>4. UNCHANGED <<redis, floor, cleared>>
      BY <1>5 DEF Scan, caches, history
    <2>5. /\ req'[r] = q
          /\ \A s \in Req : s # r =>
                /\ req'[s].step = req[s].step /\ req'[s].keys = req[s].keys
                /\ req'[s].content.v = req[s].content.v
                /\ req[s].step # "idle" => req'[s].content.late
      BY <1>4, <2>2
    <2>6. stored \in Int /\ stored <= stored
      BY DEF Rest
    <2>7. Newest'
      BY <1>1, <2>3, <2>4, <2>5, <2>6 DEF ClearInv, Newest, Settled
    <2>8. Scanned'
      <3>1. \A k \in Key \ Cached : redis[k] = NoCopy  BY DEF Cached
      <3> QED  BY <1>1, <2>3, <2>4, <2>5, <3>1 DEF ClearInv, Scanned
    <2>9. Carried'
      BY <1>1, <2>3, <2>4, <2>5 DEF ClearInv, Carried
    <2>10. Young' /\ ClearSticks'
      BY <1>1, <2>4 DEF ClearInv, Young, ClearSticks
    <2> QED  BY <2>7, <2>8, <2>9, <2>10 DEF ClearInv
  <1>6. ASSUME Del(r), RedisDel(req[r].keys), req' = [LateComers(r) EXCEPT ![r] = Idle],
               floor' = req[r].content.v, cleared' = now
        PROVE  ClearInv'
    <2>1. req[r].step = "del" /\ Idle.step = "idle"
      BY <1>6 DEF Del, At, Idle
    <2>2. /\ req'[r] = Idle
          /\ \A s \in Req : s # r =>
                /\ req'[s].step = req[s].step /\ req'[s].keys = req[s].keys
                /\ req'[s].content.v = req[s].content.v
                /\ req[s].step # "idle" => req'[s].content.late
      BY <1>4, <1>6
    <2>3. \A k \in Key : redis'[k] = IF k \in req[r].keys THEN NoCopy ELSE redis[k]
      BY <1>6 DEF RedisDel
    <2>4. now # Never /\ cleared' # Never
      BY <1>1, <1>6 DEF Never
    <2>5. Newest'
      BY <1>1, <1>6, <2>1, <2>2, <2>4 DEF ClearInv, Newest, Settled
    <2>6. Scanned'
      BY <1>1, <2>1, <2>2, <2>3 DEF ClearInv, Scanned
    <2>7. Carried'
      BY <2>1, <2>2 DEF Carried
    <2>8. Young'
      BY <1>1 DEF ClearInv, Young
    <2>9. ClearSticks'
      <3>1. ASSUME NEW k \in Key, redis'[k] # NoCopy, redis'[k].v < floor'
            PROVE  redis'[k].late
        BY <1>6, <2>1, <2>3, <3>1 DEF ClearInv, Scanned
      <3>2. ASSUME NEW i \in Api, NEW k \in Key
            PROVE  local'[i][k].expires <= cleared' + LocalTTL
        BY <1>1, <1>6 DEF ClearInv, Young
      <3> QED  BY <3>1, <3>2 DEF ClearSticks
    <2> QED  BY <2>5, <2>6, <2>7, <2>8, <2>9 DEF ClearInv
  <1>7. CASE Scan(r)
    BY <1>2, <1>5, <1>7 DEF Scan, history
  <1>8. CASE Del(r)
    BY <1>2, <1>6, <1>8 DEF Del
  <1> QED  BY <1>7, <1>8

LEMMA VideoClear ==
    ASSUME Assumptions, Rest, Requests, ClearInv, Publish \/ DeleteRow \/ RemoveFiles
    PROVE  ClearInv'
  <1>1. UNCHANGED <<now, local, redis, req, floor, cleared>>
    BY DEF Publish, DeleteRow, RemoveFiles, caches, history
  <1>2. stored \in Int /\ floor \in Int /\ \A x \in Req : req[x].content.v \in Int
    BY DEF Rest, Requests, Request, Content
  <1>3. \A v \in Int : Settled(v) => Settled(v)'
    BY <1>2 DEF Settled, Publish, DeleteRow, RemoveFiles
  <1>4. Newest'
    BY <1>1, <1>2, <1>3 DEF ClearInv, Newest, Settled
  <1>5. Scanned' /\ Carried' /\ Young' /\ ClearSticks'
    BY <1>1 DEF ClearInv, Scanned, Carried, Young, ClearSticks
  <1> QED  BY <1>4, <1>5 DEF ClearInv

-----------------------------------------------------------------------------
(* The theorems *)

LEMMA RestStep ==
    ASSUME Assumptions, Rest, Requests, [Next]_vars
    PROVE  Rest'
  <1> USE DEF Rest
  <1>1. /\ events = events' \/ (events < MaxEvents /\ events' = events + 1)
        => events' \in 0..MaxEvents
    BY DEF Assumptions, DeliveryAssumption
  <1>2. ASSUME NEW r \in Req, Arrive(r)  PROVE Rest'
    BY <1>1, <1>2 DEF Arrive, StartPlaylist, StartView, StartClear, Start
  <1>3. ASSUME NEW r \in Req,
               \/ Limit(r) \/ RowCheck(r) \/ LocalGet(r) \/ LocalDrop(r) \/ RedisGet(r)
               \/ StoreRead(r) \/ RedisPut(r) \/ LocalFill(r) \/ Claim(r) \/ Record(r) \/ Unclaim(r)
        PROVE  Rest'
    BY <1>1, <1>3 DEF Limit, RowCheck, LocalGet, LocalDrop, RedisGet, StoreRead, RedisPut,
                      LocalFill, Claim, Record, Unclaim, Fault, video, history
  <1>4. ASSUME NEW r \in Req, Scan(r)  PROVE Rest'
    BY <1>1, <1>4 DEF Scan, Fault, video, history
  <1>5. ASSUME NEW r \in Req, Del(r)  PROVE Rest'
    <2>1. req[r].content.v \in Nat  BY DEF Requests, Good, Request, Content
    <2> QED  BY <1>1, <1>5, <2>1 DEF Del, Fault, video, history
  <1>6. CASE Publish
    BY <1>6 DEF Publish, history, Assumptions, DeliveryAssumption
  <1>7. CASE DeleteRow  BY <1>7 DEF DeleteRow, history
  <1>8. CASE RemoveFiles
    BY <1>8 DEF RemoveFiles, history, Assumptions, DeliveryAssumption
  <1>9. ASSUME NEW i \in Api, CleanUp(i)  PROVE Rest'
    BY <1>9 DEF CleanUp, video, history
  <1>10. ASSUME NEW i \in Api, Crash(i)  PROVE Rest'
    BY <1>1, <1>10 DEF Crash, Fault, video, history
  <1>11. CASE Tick
    <2>1. now' \in Time
      BY <1>11 DEF Tick, Time, Assumptions, ClockAssumption
    <2> QED  BY <1>11, <2>1 DEF Tick, video, history
  <1>12. CASE UNCHANGED vars
    BY <1>12 DEF vars
  <1> QED  BY <1>2, <1>3, <1>4, <1>5, <1>6, <1>7, <1>8, <1>9, <1>10, <1>11, <1>12
           DEF Next, Proceed, Environment


DeliveryInv == Rest /\ Requests /\ LimiterInv /\ CacheInv /\ ViewsInv /\ ClearInv

LEMMA InitInv ==
    ASSUME Assumptions, Init
    PROVE  DeliveryInv
  <1>1. now = 0 /\ 0 \in Time /\ NoCopy \in Copy /\ Idle \in Request /\ Good(Idle)
    <2>1. now \in Time /\ 0 \in Time
      BY DEF Init, Time, Assumptions, ClockAssumption
    <2> QED  BY <2>1, IdleGood, CopyType DEF Init
  <1>2. Rest
    BY <1>1 DEF Init, Rest, Assumptions, DeliveryAssumption
  <1>3. Requests
    BY <1>1 DEF Init, Requests
  <1>4. LimiterInv
    <2>1. LimiterTypeOK
      BY DEF Init, LimiterInit, LimiterTypeOK, NoCounter
    <2>2. \A k \in Counter : counter[k].n = 0 /\ counter[k].expires = Never /\ admitted[k] = 0
      BY DEF Init, LimiterInit, NoCounter
    <2>3. Budgeted
      BY <2>2, CounterType DEF Budgeted
    <2> QED  BY <2>1, <2>3 DEF LimiterInv
  <1>5. CacheInv
    <2>1. \A i \in Api : Held(i) = {}
      BY DEF Init, CacheInit, Held
    <2>2. CacheTypeOK
      BY <1>1, <2>1, FS_EmptySet DEF Init, CacheInit, CacheTypeOK, Assumptions, CacheAssumption
    <2> QED  BY <2>2 DEF Init, CacheInit, CacheInv, Alive, CopiesAgeOut
  <1>6. ViewsInv
    BY DEF Init, ViewsInit, ViewsInv, ViewsTypeOK, Backed
  <1>7. ClearInv
    <2>1. \A s \in Req : req[s].step = "idle"
      BY DEF Init, Idle
    <2>2. \A i \in Api, k \in Key : local[i][k].expires = 0
      BY DEF Init, CacheInit, NoCopy
    <2>3. Newest /\ Scanned /\ Carried /\ ClearSticks
      BY <2>1 DEF Init, Newest, Settled, Scanned, Carried, ClearSticks
    <2>4. Young
      BY <1>1, <2>2 DEF Young, Assumptions, CacheAssumption
    <2> QED  BY <2>3, <2>4 DEF ClearInv
  <1> QED  BY <1>2, <1>3, <1>4, <1>5, <1>6, <1>7 DEF DeliveryInv

LEMMA StepInv ==
    ASSUME Assumptions, DeliveryInv, [Next]_vars
    PROVE  DeliveryInv'
  <1> USE DEF DeliveryInv
  <1>1. Rest'  BY RestStep
  <1>2. ASSUME NEW r \in Req, Arrive(r)  PROVE DeliveryInv'
    <2>1. LimiterTypeOK' /\ Budgeted'
      BY <1>2, OtherLimiter DEF LimiterInv, Budgeted, Arrive, StartPlaylist, StartView, StartClear, Start, limiter
    <2> QED  BY <1>1, <1>2, <2>1, ArriveGood, OtherCache, OtherViews, QuietClear DEF LimiterInv
  <1>3. ASSUME NEW r \in Req, Limit(r)  PROVE DeliveryInv'
    BY <1>1, <1>3, LimitGood, LimitLimiter, LimitBudget, OtherCache, OtherViews, QuietClear DEF LimiterInv
  <1>4. ASSUME UNCHANGED <<now, limiter>>  PROVE LimiterInv'
    BY <1>4, OtherLimiter DEF LimiterInv, Budgeted, limiter
  <1>5. ASSUME NEW r \in Req, RowCheck(r) \/ LocalGet(r) \/ LocalDrop(r)  PROVE DeliveryInv'
    <2>1. UNCHANGED <<now, limiter>>  BY <1>5 DEF RowCheck, LocalGet, LocalDrop
    <2> QED  BY <1>1, <1>4, <1>5, <2>1, PlainGood, OtherCache, OtherViews, QuietClear
  <1>6. ASSUME NEW r \in Req, RedisGet(r) \/ StoreRead(r)  PROVE DeliveryInv'
    <2>1. UNCHANGED <<now, limiter>>  BY <1>6 DEF RedisGet, StoreRead
    <2> QED  BY <1>1, <1>4, <1>6, <2>1, ReadGood, OtherCache, OtherViews, ReadClear
  <1>7. ASSUME NEW r \in Req, RedisPut(r)  PROVE DeliveryInv'
    <2>1. UNCHANGED <<now, limiter>>  BY <1>7 DEF RedisPut
    <2> QED  BY <1>1, <1>4, <1>7, <2>1, PutGood, RedisPutCache, OtherViews, StoreClear
  <1>8. ASSUME NEW r \in Req, LocalFill(r)  PROVE DeliveryInv'
    <2>1. UNCHANGED <<now, limiter>>  BY <1>8 DEF LocalFill
    <2> QED  BY <1>1, <1>4, <1>8, <2>1, PlainGood, LocalFillCache, OtherViews, StoreClear
  <1>9. ASSUME NEW r \in Req, Claim(r)  PROVE DeliveryInv'
    <2>1. UNCHANGED <<now, limiter>>  BY <1>9 DEF Claim
    <2> QED  BY <1>1, <1>4, <1>9, <2>1, ClaimGood, OtherCache, ClaimViews, QuietClear
  <1>10. ASSUME NEW r \in Req, Record(r)  PROVE DeliveryInv'
    <2>1. UNCHANGED <<now, limiter>>  BY <1>10 DEF Record
    <2> QED  BY <1>1, <1>4, <1>10, <2>1, RecordGood, OtherCache, RecordViews, QuietClear
  <1>11. ASSUME NEW r \in Req, Unclaim(r)  PROVE DeliveryInv'
    <2>1. UNCHANGED <<now, limiter>>  BY <1>11 DEF Unclaim
    <2> QED  BY <1>1, <1>4, <1>11, <2>1, PlainGood, OtherCache, UnclaimViews, QuietClear
  <1>12. ASSUME NEW r \in Req, Scan(r) \/ Del(r)  PROVE DeliveryInv'
    <2>1. UNCHANGED <<now, limiter>>  BY <1>12 DEF Scan, Del
    <2> QED  BY <1>1, <1>4, <1>12, <2>1, ClearGood, OtherCache, OtherViews, ClearClear
  <1>13. CASE Publish \/ DeleteRow \/ RemoveFiles
    <2>1. UNCHANGED <<now, limiter, req>>  BY <1>13 DEF Publish, DeleteRow, RemoveFiles
    <2>2. Requests'  BY <2>1 DEF Requests, Good, Shape, Timely
    <2> QED  BY <1>1, <1>4, <1>13, <2>1, <2>2, OtherCache, OtherViews, VideoClear
  <1>14. ASSUME NEW i \in Api, CleanUp(i)  PROVE DeliveryInv'
    <2>1. UNCHANGED <<now, limiter, req>>  BY <1>14 DEF CleanUp
    <2>2. Requests'  BY <2>1 DEF Requests, Good, Shape, Timely
    <2> QED  BY <1>1, <1>4, <1>14, <2>1, <2>2, OtherCache, OtherViews, QuietClear
  <1>15. ASSUME NEW i \in Api, Crash(i)  PROVE DeliveryInv'
    <2>1. UNCHANGED <<now, limiter>>  BY <1>15 DEF Crash
    <2> QED  BY <1>1, <1>4, <1>15, <2>1, CrashGood, OtherCache, CrashViews, QuietClear
  <1>16. CASE Tick
    <2>1. LimiterTick  BY <1>16 DEF Tick
    <2> QED  BY <1>1, <1>16, <2>1, TickGood, OtherLimiter, TickBudget, TickCache, TickViews, QuietClear
             DEF LimiterInv
  <1>17. CASE UNCHANGED vars
    <2>1. UNCHANGED <<now, limiter, req>>  BY <1>17 DEF vars
    <2>2. Requests'  BY <2>1 DEF Requests, Good, Shape, Timely
    <2> QED  BY <1>1, <1>4, <1>17, <2>1, <2>2, OtherCache, OtherViews, QuietClear
  <1> QED  BY <1>2, <1>3, <1>5, <1>6, <1>7, <1>8, <1>9, <1>10, <1>11, <1>12, <1>13, <1>14, <1>15, <1>16, <1>17
           DEF Next, Proceed, Environment

\* The invariant the theorems below follow from.
LEMMA AlwaysInv == Spec => []DeliveryInv
  <1>1. Init => DeliveryInv  BY Assumed, InitInv
  <1>2. DeliveryInv /\ [Next]_vars => DeliveryInv'  BY Assumed, StepInv
  <1> QED  BY <1>1, <1>2, PTL DEF Spec

\* The state stays well-typed; in particular no in-process cache grows past its
\* limit, whatever is inserted, evicted, swept and refilled in whatever order.
THEOREM TypeCorrect == Spec => []TypeOK
  <1>1. DeliveryInv => TypeOK
    BY DEF DeliveryInv, Rest, Requests, LimiterInv, CacheInv, ViewsInv, TypeOK
  <1> QED  BY <1>1, AlwaysInv, PTL

\* Within its window a counter admits no more than its budget, and only a pipeline
\* that broke leaves a counter without an expiry.  Nothing is said of the requests
\* that no counter admitted: those whose check failed, or came after the window.
THEOREM BudgetKept == Spec => []WithinBudget
  <1>1. DeliveryInv => WithinBudget
    BY DEF DeliveryInv, LimiterInv, Budgeted, WithinBudget
  <1> QED  BY <1>1, AlwaysInv, PTL

\* No copy of a playlist outlives what the two cache levels and the two requests
\* that handed it on can add up to.
THEOREM CopiesExpire == Spec => []CopiesAgeOut
  <1>1. DeliveryInv => CopiesAgeOut
    BY DEF DeliveryInv, CacheInv
  <1> QED  BY <1>1, AlwaysInv, PTL

\* What was cleared survives for a minute in the API processes, or because a
\* request under way then stored it afterwards.
THEOREM ClearingHolds == Spec => []ClearSticks
  <1>1. DeliveryInv => ClearSticks
    BY DEF DeliveryInv, ClearInv
  <1> QED  BY <1>1, AlwaysInv, PTL

\* A claim stands for a view that was counted or is being counted, unless a DEL
\* failed, a process died while counting, or the driver repeated the SETNX.
THEOREM ClaimsStand == Spec => []ClaimsAreBacked
  <1>1. ASSUME DeliveryInv  PROVE ClaimsAreBacked
    <2>1. ASSUME NEW c \in Viewer, claim[c] # 0, c \notin orphaned
          PROVE  \/ viewed[c][claim[c] - ViewWindow] > 0
                 \/ \E r \in Req : req[r].viewer = c /\ req[r].step \in {"record", "unclaim"}
      <3>1. PICK t \in Time :
               /\ claim[c] = t + ViewWindow
               /\ \/ viewed[c][t] > 0
                  \/ \E r \in Req : Counting(r, c) /\ req[r].at = t
        BY <1>1, <2>1 DEF DeliveryInv, ViewsInv, Backed
      <3>2. claim[c] - ViewWindow = t
        BY <3>1, Assumed DEF Time, Assumptions, ViewAssumption
      <3> QED  BY <3>1, <3>2 DEF Counting
    <2> QED  BY <2>1 DEF ClaimsAreBacked
  <1> QED  BY <1>1, AlwaysInv, PTL

-----------------------------------------------------------------------------
(* Views count once *)

\* What request q will still add to the views of c in the window that opens at t, or
\* has failed to give back.
Counts(q, c, t) ==
    /\ q.viewer = c
    /\ q.step = "unclaim" \/ (q.step = "record" /\ t <= q.at /\ q.at < t + ViewWindow)

Due(c, t) == {r \in Req : Counts(req[r], c, t)}

\* When the claim was set that keeps c from counting again, at the latest.
Since(c) == (IF claim[c] = 0 THEN now ELSE claim[c]) - ViewWindow

\* The rows of a window, and what is due, are paid for by one view and by failures; a
\* window that the last claim does not lie in has that one view left.  (Nothing is counted
\* once the video has gone.)
SpacedIn(c, t) ==
    /\ IsFiniteSet(ViewsIn(c, t)) /\ IsFiniteSet(Due(c, t))
    /\ Cardinality(ViewsIn(c, t)) <= 1 + trouble[c]
    /\ row # "gone" =>
          /\ Cardinality(ViewsIn(c, t)) + Cardinality(Due(c, t)) <= 1 + trouble[c]
          /\ t > Since(c) => Cardinality(ViewsIn(c, t)) + Cardinality(Due(c, t)) <= trouble[c]

Spaced == \A c \in Viewer, t \in Time : SpacedIn(c, t)

\* A view that is counted is one more in every window it falls in.
LEMMA ViewsAfter ==
    ASSUME ViewsTypeOK, NEW c \in Viewer, NEW s \in Time, CountView(c, s),
           NEW d \in Viewer, NEW t \in Time, IsFiniteSet(ViewsIn(d, t))
    PROVE  /\ IsFiniteSet(ViewsIn(d, t)')
           /\ Cardinality(ViewsIn(d, t)') =
                 Cardinality(ViewsIn(d, t)) + (IF d = c /\ t <= s /\ s < t + ViewWindow THEN 1 ELSE 0)
  <1> DEFINE in == d = c /\ t <= s /\ s < t + ViewWindow
             n == viewed[c][s] + 1
             counts == [viewed[c] EXCEPT ![s] = @ + 1]
  <1>1. viewed \in [Viewer -> [Time -> Nat]] /\ viewed[c] \in [Time -> Nat] /\ viewed[c][s] \in Nat
    BY DEF ViewsTypeOK
  <1>2. counts \in [Time -> Nat] /\ counts[s] = n /\ \A u \in Time : u # s => counts[u] = viewed[c][u]
    BY <1>1
  <1>3. viewed' = [viewed EXCEPT ![c] = counts]
    BY <1>1 DEF CountView
  <1> HIDE DEF counts
  <1>4. \A u \in Time : viewed'[d][u] = IF d = c /\ u = s THEN n ELSE viewed[d][u]
    BY <1>1, <1>2, <1>3
  <1>5. \A x : x \in ViewsIn(d, t) <=>
          \E u \in Time : t <= u /\ u < t + ViewWindow /\ \E k \in 1..viewed[d][u] : x = <<u, k>>
    BY DEF ViewsIn
  <1>6. \A x : x \in ViewsIn(d, t)' <=>
          \E u \in Time : t <= u /\ u < t + ViewWindow /\ \E k \in 1..viewed'[d][u] : x = <<u, k>>
    BY DEF ViewsIn, Time
  <1>7. 1..n = (1..viewed[c][s]) \cup {n} /\ n \notin 1..viewed[c][s]
    BY <1>1
  <1> HIDE DEF n
  <1>8. CASE in
    <2>1. ViewsIn(d, t)' = ViewsIn(d, t) \cup {<<s, n>>}
      <3>1. ASSUME NEW x \in ViewsIn(d, t)'  PROVE x \in ViewsIn(d, t) \/ x = <<s, n>>
        <4>1. PICK u \in Time : t <= u /\ u < t + ViewWindow /\ \E k \in 1..viewed'[d][u] : x = <<u, k>>
          BY <1>6
        <4>2. CASE u = s
          BY <1>4, <1>5, <1>7, <1>8, <4>1, <4>2
        <4>3. CASE u # s
          BY <1>4, <1>5, <4>1, <4>3
        <4> QED  BY <4>2, <4>3
      <3>2. ASSUME NEW x \in ViewsIn(d, t)  PROVE x \in ViewsIn(d, t)'
        <4>1. PICK u \in Time : t <= u /\ u < t + ViewWindow /\ \E k \in 1..viewed[d][u] : x = <<u, k>>
          BY <1>5
        <4>2. CASE u = s
          BY <1>4, <1>6, <1>7, <1>8, <4>1, <4>2
        <4>3. CASE u # s
          BY <1>4, <1>6, <4>1, <4>3
        <4> QED  BY <4>2, <4>3
      <3>3. <<s, n>> \in ViewsIn(d, t)'
        <4>1. n \in 1..viewed'[d][s]  BY <1>4, <1>7, <1>8
        <4> QED  BY <1>6, <1>8, <4>1
      <3> QED  BY <3>1, <3>2, <3>3
    <2>2. <<s, n>> \notin ViewsIn(d, t)
      BY <1>5, <1>7, <1>8
    <2> QED  BY <1>8, <2>1, <2>2, FS_AddElement
  <1>9. CASE ~in
    <2>1. \A u \in Time : t <= u /\ u < t + ViewWindow => viewed'[d][u] = viewed[d][u]
      BY <1>4, <1>9
    <2>2. \A x : x \in ViewsIn(d, t)' <=> x \in ViewsIn(d, t)
      BY <1>5, <1>6, <2>1
    <2>3. ViewsIn(d, t)' = ViewsIn(d, t)  BY <2>2
    <2>4. Cardinality(ViewsIn(d, t)) \in Nat  BY FS_CardinalityType
    <2> QED  BY <1>9, <2>3, <2>4
  <1> QED  BY <1>8, <1>9

\* What is due after one request has moved.
LEMMA DueAfter ==
    ASSUME Requests, NEW r \in Req, NEW q, Becomes(r, q), NEW c, NEW t, IsFiniteSet(Due(c, t))
    PROVE  /\ IsFiniteSet(Due(c, t)')
           /\ Cardinality(Due(c, t)) \in Nat /\ Cardinality(Due(c, t)') \in Nat
           /\ Cardinality(Due(c, t)') = Cardinality(Due(c, t))
                 + (IF Counts(q, c, t) THEN 1 ELSE 0) - (IF Counts(req[r], c, t) THEN 1 ELSE 0)
  <1>1. \A s \in Req : req'[s] = IF s = r THEN q ELSE req[s]
    BY DEF Becomes, Requests
  <1>2. Due(c, t)' = {s \in Req : Counts(req'[s], c, t)}
    BY DEF Due, Counts
  <1>3. r \in Due(c, t) <=> Counts(req[r], c, t)
    BY DEF Due
  <1>4. CASE Counts(q, c, t)
    <2>1. Due(c, t)' = Due(c, t) \cup {r}
      BY <1>1, <1>2, <1>4 DEF Due
    <2> QED  BY <1>3, <1>4, <2>1, FS_AddElement, FS_CardinalityType
  <1>5. CASE ~Counts(q, c, t)
    <2>1. Due(c, t)' = Due(c, t) \ {r}
      BY <1>1, <1>2, <1>5 DEF Due
    <2> QED  BY <1>3, <1>5, <2>1, FS_RemoveElement, FS_CardinalityType
  <1> QED  BY <1>4, <1>5

\* The numbers the invariant is about.
LEMMA Numbers ==
    ASSUME Assumptions, Rest, ViewsTypeOK, NEW c \in Viewer, NEW t \in Time, SpacedIn(c, t)
    PROVE  /\ Since(c) \in Int /\ trouble[c] \in Nat /\ t \in Int
           /\ Cardinality(ViewsIn(c, t)) \in Nat /\ Cardinality(Due(c, t)) \in Nat
  <1>1. claim[c] \in Nat /\ trouble[c] \in Nat /\ now \in Nat /\ t \in Int /\ ViewWindow \in Nat
    BY DEF Rest, Time, ViewsTypeOK, Assumptions, ViewAssumption
  <1> QED  BY <1>1, FS_CardinalityType DEF Since, SpacedIn

\* The account of one window: a step adds v to its views and d to what is due, and meets
\* f failures.  Only a claim that finds nothing may add more than it pays for, and only
\* to windows that it closes thereby.
LEMMA Balance ==
    ASSUME Assumptions, Rest, ViewsTypeOK, Rest', ViewsTypeOK',
           NEW c \in Viewer, NEW t \in Time, SpacedIn(c, t),
           NEW v \in Int, NEW d \in Int, NEW f \in Nat,
           IsFiniteSet(ViewsIn(c, t)'), IsFiniteSet(Due(c, t)'),
           Cardinality(ViewsIn(c, t)') = Cardinality(ViewsIn(c, t)) + v,
           Cardinality(Due(c, t)') = Cardinality(Due(c, t)) + d,
           trouble'[c] = trouble[c] + f,
           row = "gone" => row' = "gone" /\ v = 0,
           row # "gone" =>
              \/ v + d <= f /\ Since(c) <= Since(c)'
              \/ v + d < f
              \/ v + d <= f + 1 /\ Since(c) < t /\ t <= Since(c)'
    PROVE  SpacedIn(c, t)'
  <1> DEFINE V == Cardinality(ViewsIn(c, t))
             D == Cardinality(Due(c, t))
             S == Since(c)
  <1>1. S \in Int /\ trouble[c] \in Nat /\ t \in Int /\ V \in Nat /\ D \in Nat
    BY Numbers
  <1>2. claim'[c] \in Nat /\ now' \in Nat /\ ViewWindow \in Nat
    BY DEF Rest, Time, ViewsTypeOK, Assumptions, ViewAssumption
  <1>3. S' \in Int
    BY <1>2 DEF Since
  <1>4. D' \in Nat  BY FS_CardinalityType
  <1>5. /\ V <= 1 + trouble[c]
        /\ row # "gone" => V + D <= 1 + trouble[c] /\ (t > S => V + D <= trouble[c])
    BY DEF SpacedIn
  <1> HIDE DEF V, D, S
  <1>6. V' = V + v /\ D' = D + d
    BY DEF V, D
  <1>7. row # "gone" =>
              \/ v + d <= f /\ S <= S'
              \/ v + d < f
              \/ v + d <= f + 1 /\ S < t /\ t <= S'
    BY DEF S
  <1>8. V' <= 1 + trouble'[c]
    BY <1>1, <1>3, <1>4, <1>5, <1>6, <1>7
  <1>9. ASSUME row' # "gone"  PROVE V' + D' <= 1 + trouble'[c] /\ (t > S' => V' + D' <= trouble'[c])
    BY <1>1, <1>3, <1>4, <1>5, <1>6, <1>7, <1>9
  <1>10. t' = t  OBVIOUS
  <1> QED  BY <1>8, <1>9, <1>10 DEF SpacedIn, V, D, S

\* Nothing is counted, nothing becomes due, nothing fails.
LEMMA QuietSpaced ==
    ASSUME Assumptions, Rest, ViewsTypeOK, Rest', ViewsTypeOK', Spaced,
           UNCHANGED <<viewed, trouble>>, row = "gone" => row' = "gone",
           \A c \in Viewer : Since(c) <= Since(c)',
           \A r \in Req, c \in Viewer, t \in Time : Counts(req'[r], c, t) => Counts(req[r], c, t)
    PROVE  Spaced'
  <1> SUFFICES ASSUME NEW c \in Viewer, NEW t \in Time  PROVE SpacedIn(c, t)'
    BY DEF Spaced, Time
  <1>1. SpacedIn(c, t)  BY DEF Spaced
  <1>2. ViewsIn(c, t)' = ViewsIn(c, t)
    BY DEF ViewsIn, Time
  <1>3. Due(c, t)' \subseteq Due(c, t)
    BY DEF Due, Counts
  <1>4. IsFiniteSet(ViewsIn(c, t)) /\ IsFiniteSet(Due(c, t))
    BY <1>1 DEF SpacedIn
  <1>5. IsFiniteSet(Due(c, t)') /\ Cardinality(Due(c, t)') <= Cardinality(Due(c, t))
    BY <1>3, <1>4, FS_Subset
  <1>6. Cardinality(Due(c, t)') \in Nat
    BY <1>5, FS_CardinalityType
  <1> DEFINE d == Cardinality(Due(c, t)') - Cardinality(Due(c, t))
  <1>7. trouble[c] \in Nat /\ Cardinality(ViewsIn(c, t)) \in Nat /\ Cardinality(Due(c, t)) \in Nat
    BY <1>1, Numbers
  <1>8. d \in Int /\ d <= 0 /\ Cardinality(Due(c, t)') = Cardinality(Due(c, t)) + d
    BY <1>5, <1>6, <1>7
  <1> HIDE DEF d
  <1>9. 0 \in Int /\ 0 \in Nat /\ 0 + d <= 0 /\ Since(c) <= Since(c)'
    BY <1>8
  <1>10. Cardinality(ViewsIn(c, t)') = Cardinality(ViewsIn(c, t)) + 0
    BY <1>2, <1>7
  <1>11. trouble'[c] = trouble[c] + 0
    BY <1>7
  <1>12. IsFiniteSet(ViewsIn(c, t)')
    BY <1>2, <1>4
  <1> QED  BY <1>1, <1>5, <1>8, <1>9, <1>10, <1>11, <1>12, Balance

\* The claims that keep viewers from counting again only move on.
LEMMA SinceStays ==
    ASSUME Assumptions, Rest, ViewsTypeOK, NEW c \in Viewer, UNCHANGED <<now, claim>>
    PROVE  Since(c) <= Since(c)'
  <1>1. Since(c) \in Int
    BY DEF Since, Rest, Time, ViewsTypeOK, Assumptions, ViewAssumption
  <1> QED  BY <1>1 DEF Since

\* One request has moved, and no view was counted.
LEMMA MovedSpaced ==
    ASSUME Assumptions, Rest, Requests, ViewsTypeOK, Rest', ViewsTypeOK',
           NEW c \in Viewer, NEW t \in Time, SpacedIn(c, t),
           NEW r \in Req, NEW q, Becomes(r, q), NEW f \in Nat,
           UNCHANGED <<viewed, row>>, trouble'[c] = trouble[c] + f,
           LET d == (IF Counts(q, c, t) THEN 1 ELSE 0) - (IF Counts(req[r], c, t) THEN 1 ELSE 0) IN
           row # "gone" =>
              \/ d <= f /\ Since(c) <= Since(c)'
              \/ d < f
              \/ d <= f + 1 /\ Since(c) < t /\ t <= Since(c)'
    PROVE  SpacedIn(c, t)'
  <1> DEFINE d == (IF Counts(q, c, t) THEN 1 ELSE 0) - (IF Counts(req[r], c, t) THEN 1 ELSE 0)
  <1>1. IsFiniteSet(ViewsIn(c, t)) /\ IsFiniteSet(Due(c, t))
    BY DEF SpacedIn
  <1>2. /\ Cardinality(Due(c, t)) \in Nat /\ IsFiniteSet(Due(c, t)')
        /\ Cardinality(Due(c, t)') = Cardinality(Due(c, t)) + d
    BY <1>1, DueAfter
  <1>3. ViewsIn(c, t)' = ViewsIn(c, t)
    BY DEF ViewsIn, Time
  <1>4. Cardinality(ViewsIn(c, t)') = Cardinality(ViewsIn(c, t)) + 0 /\ IsFiniteSet(ViewsIn(c, t)')
    BY <1>1, <1>3, FS_CardinalityType
  <1>5. d \in Int  OBVIOUS
  <1>6. row # "gone" =>
              \/ 0 + d <= f /\ Since(c) <= Since(c)'
              \/ 0 + d < f
              \/ 0 + d <= f + 1 /\ Since(c) < t /\ t <= Since(c)'
    OBVIOUS
  <1> HIDE DEF d
  <1>7. 0 \in Int  OBVIOUS
  <1> QED  BY <1>2, <1>4, <1>5, <1>6, <1>7, Balance

\* A claim opens its windows, unless an earlier one has; one that is lost to a
\* repeated SETNX is paid for by the failure.
LEMMA ClaimSpaced ==
    ASSUME Assumptions, Rest, Requests, ViewsTypeOK, Rest', ViewsTypeOK', Spaced,
           NEW r \in Req, Claim(r)
    PROVE  Spaced'
  <1> SUFFICES ASSUME NEW c \in Viewer, NEW t \in Time  PROVE SpacedIn(c, t)'
    BY DEF Spaced, Time
  <1> DEFINE old == req[r]
             q == [old EXCEPT !.step = "record", !.at = now]
  <1>1. SpacedIn(c, t) /\ t \in Nat
    BY DEF Spaced, Time
  <1>2. old \in Request /\ old.step = "claim" /\ old.viewer \in Viewer /\ now \in Nat
    BY DEF Claim, At, Requests, Good, Shape, ViewStep, Rest, Time
  <1>3. q.step = "record" /\ q.at = now /\ q.viewer = old.viewer
    BY <1>2 DEF Request
  <1>4. UNCHANGED <<now, viewed, row>> /\ ~Counts(old, c, t)
    BY <1>2 DEF Claim, video, Counts
  <1>5. Since(c) \in Int /\ trouble[c] \in Nat /\ ViewWindow \in Nat \ {0} /\ trouble[c] + 0 = trouble[c]
    BY <1>1, Numbers DEF Assumptions, ViewAssumption
  <1>6. claim \in [Viewer -> Nat] /\ trouble \in [Viewer -> Nat]
    BY DEF ViewsTypeOK
  <1> HIDE DEF q
  <1>7. ASSUME Fresh(old.viewer), SetClaim(old.viewer)
        PROVE  /\ Since(c) <= Since(c)'
               /\ c = old.viewer => Since(c) = now - ViewWindow /\ Since(c)' = now
    <2>1. CASE c = old.viewer
      <3>1. claim[c] = 0 /\ claim'[c] = now + ViewWindow
        BY <1>6, <1>7, <2>1 DEF Fresh, SetClaim
      <3> QED  BY <1>2, <1>4, <1>5, <2>1, <3>1 DEF Since
    <2>2. CASE c # old.viewer
      <3>1. claim'[c] = claim[c]
        BY <1>6, <1>7, <2>2 DEF SetClaim
      <3> QED  BY <1>4, <1>5, <2>2, <3>1 DEF Since
    <2> QED  BY <2>1, <2>2
  <1>8. ASSUME Fresh(old.viewer), SetClaim(old.viewer), Becomes(r, q), UNCHANGED trouble
        PROVE  SpacedIn(c, t)'
    <2>1. Counts(q, c, t) <=> c = old.viewer /\ t <= now /\ now < t + ViewWindow
      BY <1>3 DEF Counts
    <2>2. CASE Counts(q, c, t)
      <3>1. Since(c) < t /\ t <= Since(c)'
        BY <1>1, <1>2, <1>5, <1>7, <1>8, <2>1, <2>2
      <3> QED  BY <1>1, <1>4, <1>5, <1>8, <2>2, <3>1, MovedSpaced
    <2>3. CASE ~Counts(q, c, t)
      BY <1>1, <1>4, <1>5, <1>7, <1>8, <2>3, MovedSpaced
    <2> QED  BY <2>2, <2>3
  <1>9. ASSUME End(r), UNCHANGED <<claim, trouble>>
        PROVE  SpacedIn(c, t)'
    <2>1. ~Counts(Idle, c, t)
      BY DEF Counts, Idle
    <2>2. Since(c) <= Since(c)'
      BY <1>4, <1>9, SinceStays
    <2> QED  BY <1>1, <1>4, <1>5, <1>9, <2>1, <2>2, MovedSpaced DEF End
  <1>10. ASSUME (Fresh(old.viewer) /\ SetClaim(old.viewer)) \/ UNCHANGED claim,
                NEW p, Becomes(r, p), p = q \/ p = Idle, Trouble(old.viewer)
         PROVE  SpacedIn(c, t)'
    <2>1. Since(c) <= Since(c)'
      BY <1>4, <1>7, <1>10, SinceStays
    <2>2. CASE c = old.viewer
      <3>1. trouble'[c] = trouble[c] + 1
        BY <1>6, <1>10, <2>2 DEF Trouble
      <3> QED  BY <1>1, <1>4, <1>10, <2>1, <3>1, MovedSpaced
    <2>3. CASE c # old.viewer
      <3>1. trouble'[c] = trouble[c] + 0
        BY <1>2, <1>5, <1>6, <1>10, <2>3 DEF Trouble
      <3>2. ~Counts(p, c, t)
        BY <1>3, <1>10, <2>3 DEF Counts, Idle
      <3> QED  BY <1>1, <1>4, <1>10, <2>1, <3>1, <3>2, MovedSpaced
    <2> QED  BY <2>2, <2>3
  <1> QED  BY <1>8, <1>9, <1>10 DEF Claim, End, q

\* A claim given back was due, or giving it back has failed.
LEMMA UnclaimSpaced ==
    ASSUME Assumptions, Rest, Requests, ViewsTypeOK, Rest', ViewsTypeOK', Spaced,
           NEW r \in Req, Unclaim(r)
    PROVE  Spaced'
  <1> SUFFICES ASSUME NEW c \in Viewer, NEW t \in Time  PROVE SpacedIn(c, t)'
    BY DEF Spaced, Time
  <1> DEFINE old == req[r]
  <1>1. SpacedIn(c, t)  BY DEF Spaced
  <1>2. old.step = "unclaim" /\ UNCHANGED <<now, viewed, row>> /\ Becomes(r, Idle)
    BY DEF Unclaim, At, End, video
  <1>3. ~Counts(Idle, c, t) /\ (Counts(old, c, t) <=> c = old.viewer)
    BY <1>2 DEF Counts, Idle
  <1>4. trouble[c] \in Nat /\ trouble[c] + 0 = trouble[c]
    BY <1>1, Numbers
  <1>5. claim \in [Viewer -> Nat] /\ trouble \in [Viewer -> Nat]
    BY DEF ViewsTypeOK
  <1>6. ASSUME DelClaim(old.viewer), UNCHANGED trouble  PROVE SpacedIn(c, t)'
    <2>1. CASE c = old.viewer
      BY <1>1, <1>2, <1>3, <1>4, <1>6, <2>1, MovedSpaced
    <2>2. CASE c # old.viewer
      <3>1. claim'[c] = claim[c]
        BY <1>5, <1>6, <2>2 DEF DelClaim
      <3>2. Since(c) <= Since(c)'
        BY <1>1, <1>2, <3>1, Numbers DEF Since
      <3> QED  BY <1>1, <1>2, <1>3, <1>4, <1>6, <2>2, <3>2, MovedSpaced
    <2> QED  BY <2>1, <2>2
  <1>7. ASSUME UNCHANGED claim, Trouble(old.viewer)  PROVE SpacedIn(c, t)'
    <2>1. Since(c) <= Since(c)'
      BY <1>2, <1>7, SinceStays
    <2>2. CASE c = old.viewer
      <3>1. trouble'[c] = trouble[c] + 1
        BY <1>5, <1>7, <2>2 DEF Trouble
      <3> QED  BY <1>1, <1>2, <1>3, <2>1, <2>2, <3>1, MovedSpaced
    <2>3. CASE c # old.viewer
      <3>1. trouble'[c] = trouble[c] + 0
        BY <1>4, <1>5, <1>7, <2>3 DEF Trouble
      <3> QED  BY <1>1, <1>2, <1>3, <2>1, <2>3, <3>1, MovedSpaced
    <2> QED  BY <2>2, <2>3
  <1> QED  BY <1>6, <1>7 DEF Unclaim

\* A view that is counted was due; one that may have been counted unnoticed stays due,
\* and is paid for by the failure.
LEMMA RecordSpaced ==
    ASSUME Assumptions, Rest, Requests, ViewsTypeOK, Rest', ViewsTypeOK', Spaced,
           NEW r \in Req, Record(r)
    PROVE  Spaced'
  <1> SUFFICES ASSUME NEW c \in Viewer, NEW t \in Time  PROVE SpacedIn(c, t)'
    BY DEF Spaced, Time
  <1> DEFINE old == req[r]
             q == [old EXCEPT !.step = "unclaim"]
             in == old.viewer = c /\ t <= old.at /\ old.at < t + ViewWindow
             seen == Cardinality(ViewsIn(c, t))
             due == Cardinality(Due(c, t))
  <1>1. SpacedIn(c, t)  BY DEF Spaced
  <1>2. old \in Request /\ old.step = "record" /\ old.viewer \in Viewer /\ old.at \in Time
    BY DEF Record, At, Requests, Good, Shape, ViewStep, Request
  <1>3. UNCHANGED <<now, claim, row>>
    BY DEF Record, video
  <1>4. q.step = "unclaim" /\ q.viewer = old.viewer
    BY <1>2 DEF Request
  <1>5. (Counts(old, c, t) <=> in) /\ ~Counts(Idle, c, t) /\ (Counts(q, c, t) <=> c = old.viewer)
    BY <1>2, <1>4 DEF Counts, Idle
  <1>6. trouble[c] \in Nat /\ seen \in Nat /\ due \in Nat /\ trouble[c] + 0 = trouble[c]
    BY <1>1, Numbers
  <1>7. Since(c) <= Since(c)'
    BY <1>3, SinceStays
  <1>8. IsFiniteSet(ViewsIn(c, t)) /\ IsFiniteSet(Due(c, t))
    BY <1>1 DEF SpacedIn
  <1>9. ASSUME CountView(old.viewer, old.at)
        PROVE  /\ IsFiniteSet(ViewsIn(c, t)')
               /\ Cardinality(ViewsIn(c, t)') = seen + (IF in THEN 1 ELSE 0)
    BY <1>2, <1>8, <1>9, ViewsAfter
  <1>10. ASSUME NEW p, Becomes(r, p)
         PROVE  /\ IsFiniteSet(Due(c, t)')
                /\ Cardinality(Due(c, t)') =
                      due + (IF Counts(p, c, t) THEN 1 ELSE 0) - (IF in THEN 1 ELSE 0)
    BY <1>5, <1>8, <1>10, DueAfter
  <1> HIDE DEF q
  <1>11. trouble \in [Viewer -> Nat]  BY DEF ViewsTypeOK
  <1>12. ASSUME row # "gone", CountView(old.viewer, old.at), End(r), UNCHANGED trouble
         PROVE  SpacedIn(c, t)'
    <2> DEFINE v == IF in THEN 1 ELSE 0
               d == 0 - v
    <2>1. v \in Int /\ d \in Int /\ v + d <= 0 /\ 0 \in Nat
      OBVIOUS
    <2>2. Cardinality(Due(c, t)') = due + d /\ IsFiniteSet(Due(c, t)')
      BY <1>5, <1>6, <1>10, <1>12 DEF End
    <2>3. Cardinality(ViewsIn(c, t)') = seen + v /\ IsFiniteSet(ViewsIn(c, t)')
      BY <1>9, <1>12
    <2> HIDE DEF v, d
    <2> QED  BY <1>1, <1>6, <1>7, <1>12, <2>1, <2>2, <2>3, Balance
  <1>13. ASSUME row = "gone", Goto(r, "unclaim"), UNCHANGED <<viewed, trouble>>
         PROVE  SpacedIn(c, t)'
    <2>1. Becomes(r, q)  BY <1>13 DEF Goto, q
    <2> QED  BY <1>1, <1>3, <1>6, <1>13, <2>1, MovedSpaced
  <1>14. ASSUME (row # "gone" /\ CountView(old.viewer, old.at)) \/ UNCHANGED viewed,
                Goto(r, "unclaim"), Trouble(old.viewer)
         PROVE  SpacedIn(c, t)'
    <2>1. Becomes(r, q)  BY <1>14 DEF Goto, q
    <2>2. CASE c # old.viewer
      <3>1. trouble'[c] = trouble[c] + 0 /\ ~in
        BY <1>2, <1>6, <1>11, <1>14, <2>2 DEF Trouble
      <3>2. Cardinality(Due(c, t)') = due + 0 /\ IsFiniteSet(Due(c, t)')
        BY <1>5, <1>6, <1>10, <2>1, <2>2, <3>1
      <3>3. Cardinality(ViewsIn(c, t)') = seen + 0 /\ IsFiniteSet(ViewsIn(c, t)')
        <4>1. CASE row # "gone" /\ CountView(old.viewer, old.at)
          BY <1>9, <3>1, <4>1
        <4>2. CASE UNCHANGED viewed
          <5>1. ViewsIn(c, t)' = ViewsIn(c, t)  BY <4>2 DEF ViewsIn, Time
          <5> QED  BY <1>6, <1>8, <5>1
        <4> QED  BY <1>14, <4>1, <4>2
      <3>4. 0 \in Int /\ 0 \in Nat /\ 0 + 0 <= 0  OBVIOUS
      <3> QED  BY <1>1, <1>3, <1>7, <3>1, <3>2, <3>3, <3>4, Balance
    <2>3. CASE c = old.viewer
      <3>1. trouble'[c] = trouble[c] + 1
        BY <1>11, <1>14, <2>3 DEF Trouble
      <3>2. CASE UNCHANGED viewed
        <4>1. 1 \in Nat  OBVIOUS
        <4> QED  BY <1>1, <1>3, <1>7, <2>1, <3>1, <3>2, <4>1, MovedSpaced
      <3>3. CASE row # "gone" /\ CountView(old.viewer, old.at)
        <4> DEFINE v == IF in THEN 1 ELSE 0
                   d == 1 - v
        <4>1. v \in Int /\ d \in Int /\ v + d <= 1 /\ 1 \in Nat
          OBVIOUS
        <4>2. Cardinality(Due(c, t)') = due + d /\ IsFiniteSet(Due(c, t)')
          BY <1>5, <1>6, <1>10, <2>1, <2>3
        <4>3. Cardinality(ViewsIn(c, t)') = seen + v /\ IsFiniteSet(ViewsIn(c, t)')
          BY <1>9, <3>3
        <4> HIDE DEF v, d
        <4> QED  BY <1>1, <1>6, <1>7, <3>1, <3>3, <4>1, <4>2, <4>3, Balance
      <3> QED  BY <1>14, <3>2, <3>3
    <2> QED  BY <2>2, <2>3
  <1> QED  BY <1>12, <1>13, <1>14 DEF Record

\* The steps that count nothing and claim nothing.
LEMMA OtherSpaced ==
    ASSUME Assumptions, Rest, Requests, ViewsTypeOK, Rest', ViewsTypeOK', Spaced,
           \/ \E r \in Req :
                 \/ Arrive(r) \/ Limit(r) \/ RowCheck(r) \/ LocalGet(r) \/ LocalDrop(r) \/ RedisGet(r)
                 \/ StoreRead(r) \/ RedisPut(r) \/ LocalFill(r) \/ Scan(r) \/ Del(r)
           \/ Publish \/ DeleteRow \/ RemoveFiles
           \/ \E i \in Api : CleanUp(i) \/ Crash(i)
           \/ UNCHANGED vars
    PROVE  Spaced'
  <1>1. ASSUME UNCHANGED <<now, claim, viewed, trouble>>, row = "gone" => row' = "gone",
               \A r \in Req, c \in Viewer, t \in Time : Counts(req'[r], c, t) => Counts(req[r], c, t)
        PROVE  Spaced'
    <2>1. \A c \in Viewer : Since(c) <= Since(c)'
      BY <1>1, SinceStays
    <2> QED  BY <1>1, <2>1, QuietSpaced
  <1>2. ASSUME NEW r \in Req, NEW q, Becomes(r, q), q.step \notin {"record", "unclaim"},
               UNCHANGED <<now, row, views>>
        PROVE  Spaced'
    BY <1>1, <1>2 DEF views, Becomes, Requests, Counts
  <1>3. ASSUME NEW r \in Req, Arrive(r)  PROVE Spaced'
    <2>1. \E q : Becomes(r, q) /\ q.step \in {"limit", "scan"}
      BY <1>3, ArriveGood
    <2>2. UNCHANGED <<now, row, views>>
      BY <1>3 DEF Arrive, StartPlaylist, StartView, StartClear, Start
    <2> QED  BY <1>2, <2>1, <2>2
  <1>4. ASSUME NEW r \in Req,
               \/ Limit(r) \/ RowCheck(r) \/ LocalGet(r) \/ LocalDrop(r) \/ RedisGet(r)
               \/ StoreRead(r) \/ RedisPut(r) \/ LocalFill(r)
        PROVE  Spaced'
    <2>1. req[r] \in Request /\ Shape(req[r]) /\ UNCHANGED <<now, row, views>>
      BY <1>4 DEF Requests, Good, Limit, RowCheck, LocalGet, LocalDrop, RedisGet, StoreRead, RedisPut,
                  LocalFill, video
    <2>2. ASSUME NEW step, step \notin {"record", "unclaim"}, Goto(r, step)  PROVE Spaced'
      <3> DEFINE q == [req[r] EXCEPT !.step = step]
      <3>1. q.step = step  BY <2>1 DEF Request
      <3>2. Becomes(r, q)  BY <2>2 DEF Goto
      <3> HIDE DEF q
      <3> QED  BY <1>2, <2>1, <2>2, <3>1, <3>2
    <2>3. ASSUME NEW step \in {"put", "fill"}, NEW content,
                 Becomes(r, [req[r] EXCEPT !.step = step, !.content = content])
          PROVE Spaced'
      <3> DEFINE q == [req[r] EXCEPT !.step = step, !.content = content]
      <3>1. q.step = step  BY <2>1 DEF Request
      <3>2. Becomes(r, q)  BY <2>3
      <3> HIDE DEF q
      <3> QED  BY <1>2, <2>1, <3>1, <3>2
    <2>4. CASE End(r)
      BY <1>2, <2>1, <2>4 DEF End, Idle
    <2>5. CASE Limit(r)
      <3>1. CASE UNCHANGED req
        BY <1>2, <2>1, <2>5, <3>1, StaysPut DEF Limit, At
      <3> QED  BY <2>1, <2>2, <2>4, <2>5, <3>1 DEF Limit, Shape, At
    <2>6. CASE RowCheck(r) \/ LocalGet(r) \/ LocalDrop(r)
      BY <2>2, <2>4, <2>6 DEF RowCheck, LocalGet, LocalDrop
    <2>7. CASE RedisGet(r)  BY <2>2, <2>3, <2>7 DEF RedisGet
    <2>8. CASE StoreRead(r)  BY <2>3, <2>4, <2>8 DEF StoreRead
    <2>9. CASE RedisPut(r) \/ LocalFill(r)  BY <2>2, <2>4, <2>9 DEF RedisPut, LocalFill
    <2> QED  BY <1>4, <2>5, <2>6, <2>7, <2>8, <2>9
  <1>5. ASSUME NEW r \in Req, Scan(r) \/ Del(r)  PROVE Spaced'
    <2>1. UNCHANGED <<now, row, views>> /\ \A s \in Req : req[s] \in Request
      BY <1>5 DEF Requests, Good, Scan, Del, video
    <2>2. CASE End(r)
      BY <1>2, <2>1, <2>2 DEF End, Idle
    <2>3. \A s \in Req, c \in Viewer, t \in Time : Counts(LateComers(r)[s], c, t) => Counts(req[s], c, t)
      BY <2>1 DEF LateComers, Counts, Request
    <2>4. ASSUME NEW q, req' = [LateComers(r) EXCEPT ![r] = q], q.step \notin {"record", "unclaim"}
          PROVE  Spaced'
      <3>1. \A s \in Req : req'[s] = IF s = r THEN q ELSE LateComers(r)[s]
        BY <2>4 DEF LateComers
      <3>2. \A s \in Req, c \in Viewer, t \in Time : Counts(req'[s], c, t) => Counts(req[s], c, t)
        BY <2>3, <2>4, <3>1 DEF Counts
      <3> QED  BY <1>1, <2>1, <3>2 DEF views
    <2>5. CASE req' = [LateComers(r) EXCEPT ![r] = [@ EXCEPT !.step = "del", !.keys = Cached,
                                                            !.content.v = stored]]
      <3> DEFINE q == [req[r] EXCEPT !.step = "del", !.keys = Cached, !.content.v = stored]
      <3>1. q.step = "del"  BY <2>1 DEF Request
      <3>2. LateComers(r)[r] = req[r]  BY DEF LateComers
      <3>3. req' = [LateComers(r) EXCEPT ![r] = q]
        BY <2>5, <3>2 DEF LateComers
      <3> HIDE DEF q
      <3> QED  BY <2>4, <3>1, <3>3
    <2>6. CASE req' = [LateComers(r) EXCEPT ![r] = Idle]
      BY <2>4, <2>6 DEF Idle
    <2> QED  BY <1>5, <2>2, <2>5, <2>6 DEF Scan, Del
  <1>6. CASE Publish \/ DeleteRow \/ RemoveFiles
    BY <1>1, <1>6 DEF Publish, DeleteRow, RemoveFiles, views
  <1>7. ASSUME NEW i \in Api, CleanUp(i)  PROVE Spaced'
    BY <1>1, <1>7 DEF CleanUp, views, video
  <1>8. ASSUME NEW i \in Api, Crash(i)  PROVE Spaced'
    BY <1>1, <1>8 DEF Crash, video, Counts, Idle
  <1>9. CASE UNCHANGED vars
    BY <1>1, <1>9 DEF vars, views
  <1> QED  BY <1>3, <1>4, <1>5, <1>6, <1>7, <1>8, <1>9

LEMMA TickSpaced ==
    ASSUME Assumptions, Rest, Requests, ViewsTypeOK, Rest', ViewsTypeOK', Spaced, Tick
    PROVE  Spaced'
  <1>1. ASSUME NEW c \in Viewer  PROVE Since(c) <= Since(c)'
    <2>1. claim'[c] = (IF now + 1 >= claim[c] THEN 0 ELSE claim[c]) /\ now' = now + 1
      BY DEF Tick, ViewsTick
    <2>2. claim[c] \in Nat /\ now \in Nat /\ ViewWindow \in Nat
      BY DEF Rest, Time, ViewsTypeOK, Assumptions, ViewAssumption
    <2> QED  BY <2>1, <2>2 DEF Since
  <1>2. UNCHANGED <<viewed, trouble, row, req>>
    BY DEF Tick, ViewsTick, video
  <1> QED  BY <1>1, <1>2, QuietSpaced

LEMMA SpacedInit ==
    ASSUME Assumptions, Init
    PROVE  Spaced
  <1> SUFFICES ASSUME NEW c \in Viewer, NEW t \in Time  PROVE SpacedIn(c, t)
    BY DEF Spaced
  <1>1. ViewsIn(c, t) = {}
    <2>1. \A s \in Time : 1..viewed[c][s] = {}
      BY DEF Init, ViewsInit
    <2> QED  BY <2>1 DEF ViewsIn
  <1>2. Due(c, t) = {}
    BY DEF Init, Due, Counts, Idle
  <1>3. trouble[c] = 0 /\ now = 0 /\ claim[c] = 0
    BY DEF Init, ViewsInit
  <1>4. IsFiniteSet({}) /\ Cardinality({}) = 0
    BY FS_EmptySet
  <1> QED  BY <1>1, <1>2, <1>3, <1>4 DEF SpacedIn

LEMMA SpacedNext ==
    ASSUME Assumptions, DeliveryInv, Spaced, [Next]_vars
    PROVE  Spaced'
  <1>1. Rest /\ Requests /\ ViewsTypeOK /\ Rest' /\ ViewsTypeOK'
    <2>1. DeliveryInv'  BY StepInv
    <2> QED  BY <2>1 DEF DeliveryInv, ViewsInv
  <1> QED  BY <1>1, OtherSpaced, ClaimSpaced, RecordSpaced, UnclaimSpaced, TickSpaced
           DEF Next, Proceed, Environment

\* Within one window a viewer's views count once, plus at most once for every command that
\* failed on the viewer's behalf, however requests overlap, claims expire and processes die.
THEOREM ViewsCountOnce == Spec => []ViewsAreDistinct
  <1>1. Init => Spaced  BY Assumed, SpacedInit
  <1>2. DeliveryInv /\ Spaced /\ [Next]_vars => Spaced'  BY Assumed, SpacedNext
  <1>3. Spaced => ViewsAreDistinct  BY DEF Spaced, SpacedIn, ViewsAreDistinct
  <1> QED  BY <1>1, <1>2, <1>3, AlwaysInv, PTL DEF Spec

==============================================================================
