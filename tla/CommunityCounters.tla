------------------------- MODULE CommunityCounters -------------------------
(***************************************************************************)
(* That the counters the triggers maintain never drift, for any number of  *)
(* users, videos, comments, playlists and requests.  Counter by counter:   *)
(* a statement adds to what is counted the row it adds to the counter,     *)
(* which rests on CommunityInv where a row might be counted already, be    *)
(* counted elsewhere, or be left over from something deleted:              *)
(*   - an append has a position, so that its entry shows (Appending);      *)
(*   - what is new has no replies and no entries yet (Placed);             *)
(*   - the replies a cascade takes are those of comments it takes as well. *)
(***************************************************************************)
EXTENDS CommunityProofs

-----------------------------------------------------------------------------
(* CountersMatch, counter by counter *)

LikesMatch == \A v \in Video : video[v].here => video[v].likes = Cardinality(ListLikes(v))

CommentsMatch ==
    \A v \in Video : video[v].here => video[v].comments = Cardinality(LiveComments(v))

RepliesMatch ==
    \A c \in Comment : comment[c].here => comment[c].replies = Cardinality(ListReplies(c))

SubscribersMatch == \A u \in User : subscribers[u] = Cardinality(ListSubscribers(u))

EntriesMatch ==
    \A p \in Playlist : playlist[p].here => playlist[p].count = Cardinality(ListPlaylistVideos(p))

LEMMA CountersAre ==
    /\ CountersMatch <=> /\ LikesMatch /\ CommentsMatch /\ RepliesMatch
                         /\ SubscribersMatch /\ EntriesMatch
    /\ CountersMatch' <=> /\ LikesMatch' /\ CommentsMatch' /\ RepliesMatch'
                          /\ SubscribersMatch' /\ EntriesMatch'
  BY DEF CountersMatch, LikesMatch, CommentsMatch, RepliesMatch, SubscribersMatch, EntriesMatch

\* What each counter depends on.
LEMMA MatchesStay ==
    ASSUME CountersMatch
    PROVE  /\ UNCHANGED <<video, rating>> => LikesMatch'
           /\ UNCHANGED <<video, comment>> => CommentsMatch'
           /\ UNCHANGED comment => RepliesMatch'
           /\ UNCHANGED <<subs, subscribers>> => SubscribersMatch'
           /\ UNCHANGED <<playlist, entry>> => EntriesMatch'
  <1>1. ASSUME UNCHANGED rating  PROVE \A v \in Video : ListLikes(v)' = ListLikes(v)
    BY <1>1 DEF ListLikes
  <1>2. ASSUME UNCHANGED comment
        PROVE  /\ \A v \in Video : LiveComments(v)' = LiveComments(v)
               /\ \A c \in Comment : ListReplies(c)' = ListReplies(c)
    BY <1>2 DEF LiveComments, ListReplies, Live
  <1>3. ASSUME UNCHANGED subs  PROVE \A u \in User : ListSubscribers(u)' = ListSubscribers(u)
    BY <1>3 DEF ListSubscribers
  <1>4. ASSUME UNCHANGED entry
        PROVE  \A p \in Playlist : ListPlaylistVideos(p)' = ListPlaylistVideos(p)
    BY <1>4 DEF ListPlaylistVideos
  <1>5. UNCHANGED <<video, rating>> => LikesMatch'
    BY <1>1, CountersAre DEF LikesMatch
  <1>6. UNCHANGED <<video, comment>> => CommentsMatch'
    BY <1>2, CountersAre DEF CommentsMatch
  <1>7. UNCHANGED comment => RepliesMatch'
    BY <1>2, CountersAre DEF RepliesMatch
  <1>8. UNCHANGED <<subs, subscribers>> => SubscribersMatch'
    BY <1>3, CountersAre DEF SubscribersMatch
  <1>9. UNCHANGED <<playlist, entry>> => EntriesMatch'
    BY <1>4, CountersAre DEF EntriesMatch
  <1> QED  BY <1>5, <1>6, <1>7, <1>8, <1>9

LEMMA CountersStay ==
    ASSUME CountersMatch, UNCHANGED <<video, rating, comment, subs, subscribers, playlist, entry>>
    PROVE  CountersMatch'
  BY MatchesStay, CountersAre

LEMMA ListsFinite ==
    /\ \A v \in Video : IsFiniteSet(ListLikes(v)) /\ IsFiniteSet(LiveComments(v))
    /\ \A c \in Comment : IsFiniteSet(ListReplies(c))
    /\ \A u \in User : IsFiniteSet(ListSubscribers(u))
    /\ \A p \in Playlist : IsFiniteSet(ListPlaylistVideos(p))
  <1>1. IsFiniteSet(User) /\ IsFiniteSet(Video) /\ IsFiniteSet(Comment)
    BY CommunityAssumption
  <1>2. ASSUME NEW v \in Video  PROVE IsFiniteSet(ListLikes(v)) /\ IsFiniteSet(LiveComments(v))
    <2>1. ListLikes(v) \in SUBSET User /\ LiveComments(v) \in SUBSET Comment
      BY DEF ListLikes, LiveComments
    <2> QED  BY <1>1, <2>1, FS_Subset
  <1>3. ASSUME NEW c \in Comment  PROVE IsFiniteSet(ListReplies(c))
    <2>1. ListReplies(c) \in SUBSET Comment  BY DEF ListReplies
    <2> QED  BY <1>1, <2>1, FS_Subset
  <1>4. ASSUME NEW u \in User  PROVE IsFiniteSet(ListSubscribers(u))
    <2>1. ListSubscribers(u) \in SUBSET User  BY DEF ListSubscribers
    <2> QED  BY <1>1, <2>1, FS_Subset
  <1>5. ASSUME NEW p \in Playlist  PROVE IsFiniteSet(ListPlaylistVideos(p))
    <2>1. ListPlaylistVideos(p) \in SUBSET Video  BY DEF ListPlaylistVideos
    <2> QED  BY <1>1, <2>1, FS_Subset
  <1> QED  BY <1>2, <1>3, <1>4, <1>5

\* One row more in a listing, and one less.
LEMMA OneMore ==
    ASSUME NEW S, IsFiniteSet(S), NEW x, x \notin S, NEW T, T = S \cup {x}
    PROVE  Cardinality(T) = Cardinality(S) + 1
  BY FS_AddElement

LEMMA OneLess ==
    ASSUME NEW S, IsFiniteSet(S), NEW x, x \in S, NEW T, T = S \ {x}
    PROVE  Cardinality(T) = Cardinality(S) - 1
  BY FS_RemoveElement

-----------------------------------------------------------------------------
(* Likes *)

LEMMA RateCounts ==
    ASSUME Data, CountersMatch, NEW u \in User, NEW v \in Video, NEW new \in Rating, Rate(u, v, new)
    PROVE  /\ LikesMatch'
           /\ \A w \in Video : video'[w].here = video[w].here /\ video'[w].comments = video[w].comments
  <1> DEFINE old == rating[<<u, v>>]
             n == video[v].likes
             k == IF new = "like" /\ old # "like" THEN n + 1
                  ELSE IF new # "like" /\ old = "like" THEN n - 1 ELSE n
  <1>1. n \in Int /\ k \in Int
    <2>1. n \in Int  BY DEF Data, Typed, VideoRow
    <2> QED  BY <2>1
  <1>2. video' = [video EXCEPT ![v].likes = k] /\ rating' = [rating EXCEPT ![<<u, v>>] = new]
    BY DEF Rate
  <1>3. \A w \in Video : /\ video'[w].here = video[w].here /\ video'[w].comments = video[w].comments
                         /\ video'[w].likes = IF w = v THEN k ELSE video[w].likes
    <2> HIDE DEF k, n, old
    <2> QED  BY <1>1, <1>2 DEF Data, Typed, VideoRow
  <1>4. \A x \in User \X Video : rating'[x] = IF x = <<u, v>> THEN new ELSE rating[x]
    BY <1>2 DEF Data, Typed
  <1>5. ASSUME NEW w \in Video, w # v  PROVE ListLikes(w)' = ListLikes(w)
    BY <1>4, <1>5 DEF ListLikes
  <1>6. ListLikes(v)' = IF new = "like" THEN ListLikes(v) \cup {u} ELSE ListLikes(v) \ {u}
    BY <1>4 DEF ListLikes
  <1>7. u \in ListLikes(v) <=> old = "like"
    BY DEF ListLikes
  <1>8. IsFiniteSet(ListLikes(v))
    BY ListsFinite
  <1>9. n = Cardinality(ListLikes(v)) => k = Cardinality(ListLikes(v)')
    <2>1. CASE new = "like" /\ old # "like"
      <3>1. Cardinality(ListLikes(v)') = Cardinality(ListLikes(v)) + 1
        BY <1>6, <1>7, <1>8, <2>1, OneMore
      <3> QED  BY <2>1, <3>1
    <2>2. CASE new # "like" /\ old = "like"
      <3>1. Cardinality(ListLikes(v)') = Cardinality(ListLikes(v)) - 1
        BY <1>6, <1>7, <1>8, <2>2, OneLess
      <3> QED  BY <2>2, <3>1
    <2>3. CASE new = "like" <=> old = "like"
      <3>1. ListLikes(v)' = ListLikes(v)
        BY <1>6, <1>7, <2>3
      <3> QED  BY <2>3, <3>1
    <2> QED  BY <2>1, <2>2, <2>3
  <1> HIDE DEF n, k, old
  <1>10. n = video[v].likes  BY DEF n
  <1> QED  BY <1>3, <1>5, <1>9, <1>10, CountersAre DEF LikesMatch

LEMMA LikesCount ==
    ASSUME Data, Requests, CountersMatch, NEW r \in Req, UpsertLike(r) \/ DeleteLike(r)
    PROVE  CountersMatch'
  <1> DEFINE q == req[r]
             new == IF q.step = "UpsertLike" THEN q.choice ELSE "none"
  <1>1. /\ q \in Request /\ Shape(q) /\ q.step \in {"UpsertLike", "DeleteLike"}
        /\ UNCHANGED <<comment, subs, subscribers, playlist, entry>>
    BY DEF Requests, Good, UpsertLike, DeleteLike, Runs
  <1>2. q.by \in User /\ q.video \in Video /\ new \in Rating
    BY <1>1 DEF Shape, Ready, VideoSteps, Rating
  <1>3. Rate(q.by, q.video, new) \/ UNCHANGED <<rating, video>>
    BY DEF UpsertLike, DeleteLike, Runs
  <1> HIDE DEF q, new
  <1>4. CASE UNCHANGED <<rating, video>>
    BY <1>1, <1>4, CountersStay
  <1>5. CASE Rate(q.by, q.video, new)
    <2>1. /\ LikesMatch'
          /\ \A w \in Video : video'[w].here = video[w].here /\ video'[w].comments = video[w].comments
      BY <1>2, <1>5, RateCounts
    <2>2. CommentsMatch'
      BY <1>1, <2>1, CountersAre DEF CommentsMatch, LiveComments, Live
    <2> QED  BY <1>1, <2>1, <2>2, MatchesStay, CountersAre
  <1> QED  BY <1>3, <1>4, <1>5

-----------------------------------------------------------------------------
(* Comments *)

\* A live comment comes (change = 1) or goes (change = -1), and row says so but for the
\* counters: those of its video and of the comment it replies to follow.
LEMMA CommentCounts ==
    ASSUME Data, CountersMatch, UNCHANGED rating,
           NEW row \in [Comment -> CommentRow], NEW c \in Comment, NEW v \in Video,
           NEW d \in Comment \cup {NoComment}, NEW change \in {1, -1},
           CountComment(row, v, d, change),
           row[c].video = v, row[c].parent = d, row[c].here,
           Live(c) <=> change = -1, row[c].deleted <=> change = -1,
           Live(c) => comment[c].video = v /\ comment[c].parent = d,
           comment[c].here => row[c].replies = comment[c].replies,
           ~comment[c].here => row[c].replies = 0 /\ c # d,
           \A x \in Comment : x # c => row[x] = comment[x]
    PROVE  LikesMatch' /\ CommentsMatch' /\ RepliesMatch'
  <1>1. change \in Int
    OBVIOUS
  <1>2. /\ \A w \in Video : /\ video'[w].here = video[w].here /\ video'[w].likes = video[w].likes
                            /\ video'[w].comments = IF w = v THEN video[w].comments + change
                                                    ELSE video[w].comments
        /\ \A x \in Comment :
              /\ comment'[x].here = row[x].here /\ comment'[x].deleted = row[x].deleted
              /\ comment'[x].video = row[x].video /\ comment'[x].parent = row[x].parent
              /\ comment'[x].replies = IF x = d THEN row[x].replies + change ELSE row[x].replies
    BY <1>1, Counts DEF Data
  <1>3. /\ \A x \in Comment : x # c => /\ Live(x)' <=> Live(x)
                                       /\ comment'[x].here = comment[x].here
                                       /\ comment'[x].video = comment[x].video
                                       /\ comment'[x].parent = comment[x].parent
        /\ Live(c)' <=> change = 1
        /\ comment'[c].video = v /\ comment'[c].parent = d
    BY <1>2 DEF Live
  <1>4. LikesMatch'
    <2>1. ASSUME NEW w \in Video  PROVE ListLikes(w)' = ListLikes(w)
      BY DEF ListLikes
    <2> QED  BY <1>2, <2>1, CountersAre DEF LikesMatch
  <1>5. CommentsMatch'
    <2>1. ASSUME NEW w \in Video, w # v  PROVE LiveComments(w)' = LiveComments(w)
      BY <1>3, <2>1 DEF LiveComments
    <2>2. Cardinality(LiveComments(v)') = Cardinality(LiveComments(v)) + change
      <3>1. IsFiniteSet(LiveComments(v))
        BY ListsFinite
      <3>2. CASE change = 1
        <4>1. c \notin LiveComments(v) /\ LiveComments(v)' = LiveComments(v) \cup {c}
          BY <1>3, <3>2 DEF LiveComments
        <4> QED  BY <3>1, <3>2, <4>1, OneMore
      <3>3. CASE change = -1
        <4>1. c \in LiveComments(v) /\ LiveComments(v)' = LiveComments(v) \ {c}
          BY <1>3, <3>3 DEF LiveComments
        <4>2. Cardinality(LiveComments(v)) \in Nat
          BY <3>1, FS_CardinalityType
        <4> QED  BY <3>1, <3>3, <4>1, <4>2, OneLess
      <3> QED  BY <3>2, <3>3
    <2> QED  BY <1>2, <2>1, <2>2, CountersAre DEF CommentsMatch
  <1>6. RepliesMatch'
    <2>1. ASSUME NEW x \in Comment, x # d  PROVE ListReplies(x)' = ListReplies(x)
      BY <1>3, <2>1 DEF ListReplies
    <2>2. ASSUME d \in Comment
          PROVE  Cardinality(ListReplies(d)') = Cardinality(ListReplies(d)) + change
      <3>1. IsFiniteSet(ListReplies(d))
        BY <2>2, ListsFinite
      <3>2. CASE change = 1
        <4>1. c \notin ListReplies(d) /\ ListReplies(d)' = ListReplies(d) \cup {c}
          BY <1>3, <3>2 DEF ListReplies
        <4> QED  BY <3>1, <3>2, <4>1, OneMore
      <3>3. CASE change = -1
        <4>1. c \in ListReplies(d) /\ ListReplies(d)' = ListReplies(d) \ {c}
          BY <1>3, <3>3 DEF ListReplies
        <4>2. Cardinality(ListReplies(d)) \in Nat
          BY <3>1, FS_CardinalityType
        <4> QED  BY <3>1, <3>3, <4>1, <4>2, OneLess
      <3> QED  BY <3>2, <3>3
    <2>3. ASSUME NEW x \in Comment, comment'[x].here
          PROVE  row[x].replies = Cardinality(ListReplies(x))
      <3>1. CASE comment[x].here
        BY <3>1, CountersAre DEF RepliesMatch
      <3>2. CASE ~comment[x].here
        <4>1. x = c /\ row[x].replies = 0
          BY <1>3, <2>3, <3>2
        <4>2. ListReplies(c) = {}
          BY <3>2, <4>1, CommunityAssumption DEF ListReplies, Live, Data, Placed, CommentsPlaced
        <4> QED  BY <4>1, <4>2, FS_EmptySet
      <3> QED  BY <3>1, <3>2
    <2> QED  BY <1>2, <2>1, <2>2, <2>3, CountersAre DEF RepliesMatch
  <1> QED  BY <1>4, <1>5, <1>6

LEMMA SoftDeleteCounts ==
    ASSUME Data, Requests, CountersMatch, NEW r \in Req, SoftDelete(r)
    PROVE  CountersMatch'
  <1> DEFINE c == req[r].comment
             d == comment[c].parent
             v == comment[c].video
             row == [comment EXCEPT ![c].deleted = TRUE]
  <1>1. c \in Comment
    BY DEF Requests, Good, Shape, CommentSteps, SoftDelete, Runs
  <1>2. /\ UNCHANGED <<rating, subs, subscribers, playlist, entry>>
        /\ \/ Live(c) /\ CountComment(row, v, d, -1)
           \/ UNCHANGED <<video, comment>>
    BY DEF SoftDelete
  <1>3. CASE UNCHANGED <<video, comment>>
    BY <1>2, <1>3, CountersStay
  <1>4. CASE Live(c) /\ CountComment(row, v, d, -1)
    <2>1. v \in Video /\ d \in Comment \cup {NoComment} /\ comment[c].here
      BY <1>1, <1>4, HereUsed DEF Live, Data, Typed, CommentRow, Rows, CommentRows
    <2>2. /\ row \in [Comment -> CommentRow] /\ row[c].deleted
          /\ row[c].here = comment[c].here /\ row[c].video = v /\ row[c].parent = d
          /\ row[c].replies = comment[c].replies
          /\ \A x \in Comment : x # c => row[x] = comment[x]
      BY <1>1 DEF Data, Typed, CommentRow
    <2>3. v = comment[c].video /\ d = comment[c].parent
      OBVIOUS
    <2> HIDE DEF c, d, v, row
    <2>4. LikesMatch' /\ CommentsMatch' /\ RepliesMatch'
      BY <1>1, <1>2, <1>4, <2>1, <2>2, <2>3, CommentCounts
    <2> QED  BY <1>2, <2>4, MatchesStay, CountersAre
  <1> QED  BY <1>2, <1>3, <1>4

LEMMA CreateCommentCounts ==
    ASSUME Data, Requests, CountersMatch, NEW r \in Req, CreateComment(r)
    PROVE  CountersMatch'
  <1> DEFINE q == req[r]
             d == q.parent
             v == q.video
             c == New(comment, NoCommentRow)
             new == Posted(q.by, v, d)
             row == [comment EXCEPT ![c] = new]
  <1>1. q \in Request /\ Shape(q) /\ q.step = "CreateComment"
    BY DEF Requests, Good, CreateComment, Runs
  <1>2. q.by \in User /\ v \in Video /\ d \in Comment \cup {NoComment}
    BY <1>1 DEF Shape, VideoSteps, Request
  <1>3. /\ UNCHANGED <<rating, subs, subscribers, playlist, entry>>
        /\ \/ /\ d # NoComment => comment[d].here
              /\ Unused(comment, NoCommentRow) # {}
              /\ CountComment(row, v, d, 1)
           \/ UNCHANGED <<video, comment>>
    BY DEF CreateComment, Posted
  <1> HIDE DEF q, d, v, row, c
  <1>4. CASE UNCHANGED <<video, comment>>
    BY <1>3, <1>4, CountersStay
  <1>5. CASE /\ d # NoComment => comment[d].here
             /\ Unused(comment, NoCommentRow) # {}
             /\ CountComment(row, v, d, 1)
    <2>1. Unused(comment, NoCommentRow) # {} /\ DOMAIN comment = Comment
      BY <1>5 DEF Data, Typed
    <2>2. c \in Comment /\ comment[c] = NoCommentRow
      BY <2>1, NewIsUnused DEF c
    <2>3. c \in Comment /\ ~comment[c].here /\ ~Live(c)
      BY <2>2 DEF NoCommentRow, Live
    <2>4. c # d
      BY <1>5, <2>3, CommunityAssumption
    <2>5. /\ new \in CommentRow /\ new.here /\ ~new.deleted /\ new.video = v /\ new.parent = d
          /\ new.replies = 0
      BY <1>2, PostedFields
    <2> HIDE DEF new
    <2>6. /\ row \in [Comment -> CommentRow] /\ row[c] = new
          /\ \A x \in Comment : x # c => row[x] = comment[x]
      BY <2>3, <2>5 DEF Data, Typed, row
    <2>7. LikesMatch' /\ CommentsMatch' /\ RepliesMatch'
      <3>1. /\ row[c].video = v /\ row[c].parent = d /\ row[c].here /\ ~row[c].deleted
            /\ row[c].replies = 0
        BY <2>5, <2>6
      <3> QED  BY <1>2, <1>3, <1>5, <2>3, <2>4, <2>6, <3>1, CommentCounts
    <2> QED  BY <1>3, <2>7, MatchesStay, CountersAre
  <1> QED  BY <1>3, <1>4, <1>5

-----------------------------------------------------------------------------
(* Subscriptions *)

LEMMA SubscribersCount ==
    ASSUME Data, CountersMatch, NEW a \in User, NEW u \in User, NEW k \in {1, -1},
           <<a, u>> \in subs <=> k = -1,
           subs' = IF k = 1 THEN subs \cup {<<a, u>>} ELSE subs \ {<<a, u>>},
           subscribers' = [subscribers EXCEPT ![u] = subscribers[u] + k]
    PROVE  SubscribersMatch'
  <1>1. ASSUME NEW w \in User, w # u
        PROVE  ListSubscribers(w)' = ListSubscribers(w) /\ subscribers'[w] = subscribers[w]
    BY <1>1 DEF ListSubscribers, Data, Typed
  <1>2. subscribers'[u] = subscribers[u] + k
    BY DEF Data, Typed
  <1>3. IsFiniteSet(ListSubscribers(u)) /\ Cardinality(ListSubscribers(u)) \in Nat
    BY ListsFinite, FS_CardinalityType
  <1>4. Cardinality(ListSubscribers(u)') = Cardinality(ListSubscribers(u)) + k
    <2>1. CASE k = 1
      <3>1. a \notin ListSubscribers(u) /\ ListSubscribers(u)' = ListSubscribers(u) \cup {a}
        BY <2>1 DEF ListSubscribers
      <3> QED  BY <1>3, <2>1, <3>1, OneMore
    <2>2. CASE k = -1
      <3>1. a \in ListSubscribers(u) /\ ListSubscribers(u)' = ListSubscribers(u) \ {a}
        BY <2>2 DEF ListSubscribers
      <3> QED  BY <1>3, <2>2, <3>1, OneLess
    <2> QED  BY <2>1, <2>2
  <1> QED  BY <1>1, <1>2, <1>4, CountersAre DEF SubscribersMatch

LEMMA SubscriptionsCount ==
    ASSUME Data, Requests, CountersMatch, NEW r \in Req, CreateSubscription(r) \/ DeleteSubscription(r)
    PROVE  CountersMatch'
  <1> DEFINE a == req[r].by
             u == req[r].user
  <1>1. a \in User /\ u \in User
    BY DEF Requests, Good, Shape, UserSteps, CreateSubscription, DeleteSubscription, Runs
  <1>2. UNCHANGED <<video, rating, comment, playlist, entry>>
    BY DEF CreateSubscription, DeleteSubscription
  <1>3. \/ UNCHANGED <<subs, subscribers>>
        \/ /\ <<a, u>> \notin subs /\ subs' = subs \cup {<<a, u>>}
           /\ subscribers' = [subscribers EXCEPT ![u] = @ + 1]
        \/ /\ <<a, u>> \in subs /\ subs' = subs \ {<<a, u>>}
           /\ subscribers' = [subscribers EXCEPT ![u] = @ - 1]
    BY DEF CreateSubscription, DeleteSubscription
  <1> HIDE DEF a, u
  <1>4. UNCHANGED <<subs, subscribers>> \/ SubscribersMatch'
    <2>1. subscribers[u] \in Int
      BY <1>1 DEF Data, Typed
    <2>2. subscribers[u] - 1 = subscribers[u] + (-1)
      BY <2>1
    <2>3. ASSUME <<a, u>> \notin subs, subs' = subs \cup {<<a, u>>},
                 subscribers' = [subscribers EXCEPT ![u] = @ + 1]
          PROVE  SubscribersMatch'
      <3> DEFINE k == 1
      <3>1. k \in {1, -1} /\ (<<a, u>> \in subs <=> k = -1)
        BY <2>3
      <3> QED  BY <1>1, <2>3, <3>1, SubscribersCount
    <2>4. ASSUME <<a, u>> \in subs, subs' = subs \ {<<a, u>>},
                 subscribers' = [subscribers EXCEPT ![u] = @ - 1]
          PROVE  SubscribersMatch'
      <3> DEFINE k == -1
      <3>1. k \in {1, -1} /\ (<<a, u>> \in subs <=> k = -1) /\ k # 1
        BY <2>4
      <3>2. subscribers' = [subscribers EXCEPT ![u] = subscribers[u] + k]
        BY <2>2, <2>4
      <3> QED  BY <1>1, <2>4, <3>1, <3>2, SubscribersCount
    <2> QED  BY <1>3, <2>3, <2>4
  <1> QED  BY <1>2, <1>4, MatchesStay, CountersAre

-----------------------------------------------------------------------------
(* Playlists *)

LEMMA EntryCounts ==
    ASSUME Data, CountersMatch, NEW p \in Playlist, NEW v \in Video, NEW pos \in Int, NEW k \in {1, -1},
           entry[<<p, v>>] = Absent <=> k = 1, pos = Absent <=> k = -1,
           entry' = [entry EXCEPT ![<<p, v>>] = pos],
           playlist' = [playlist EXCEPT ![p].count = playlist[p].count + k]
    PROVE  EntriesMatch'
  <1>1. playlist[p].count \in Int /\ playlist[p].count + k \in Int
    <2>1. playlist[p].count \in Int  BY DEF Data, Typed, PlaylistRow
    <2> QED  BY <2>1
  <1>2. \A y \in Playlist :
           /\ playlist'[y].here = playlist[y].here
           /\ playlist'[y].count = IF y = p THEN playlist[p].count + k ELSE playlist[y].count
    <2> DEFINE n == playlist[p].count + k
    <2>1. n \in Int /\ playlist' = [playlist EXCEPT ![p].count = n]
      BY <1>1
    <2> HIDE DEF n
    <2>2. \A y \in Playlist : /\ playlist'[y].here = playlist[y].here
                              /\ playlist'[y].count = IF y = p THEN n ELSE playlist[y].count
      BY <2>1, CountSet DEF Data
    <2> QED  BY <2>2 DEF n
  <1>3. \A x \in Playlist \X Video : entry'[x] = IF x = <<p, v>> THEN pos ELSE entry[x]
    BY DEF Data, Typed
  <1>4. ASSUME NEW y \in Playlist, y # p  PROVE ListPlaylistVideos(y)' = ListPlaylistVideos(y)
    BY <1>3, <1>4 DEF ListPlaylistVideos
  <1>5. IsFiniteSet(ListPlaylistVideos(p)) /\ Cardinality(ListPlaylistVideos(p)) \in Nat
    BY ListsFinite, FS_CardinalityType
  <1>6. Cardinality(ListPlaylistVideos(p)') = Cardinality(ListPlaylistVideos(p)) + k
    <2>1. CASE k = 1
      <3>1. /\ v \notin ListPlaylistVideos(p)
            /\ ListPlaylistVideos(p)' = ListPlaylistVideos(p) \cup {v}
        BY <1>3, <2>1 DEF ListPlaylistVideos
      <3> QED  BY <1>5, <2>1, <3>1, OneMore
    <2>2. CASE k = -1
      <3>1. /\ v \in ListPlaylistVideos(p)
            /\ ListPlaylistVideos(p)' = ListPlaylistVideos(p) \ {v}
        BY <1>3, <2>2 DEF ListPlaylistVideos
      <3> QED  BY <1>5, <2>2, <3>1, OneLess
    <2> QED  BY <2>1, <2>2
  <1>7. playlist[p].here => playlist[p].count = Cardinality(ListPlaylistVideos(p))
    BY CountersAre DEF EntriesMatch
  <1> QED  BY <1>2, <1>4, <1>6, <1>7, CountersAre DEF EntriesMatch

LEMMA AddPlaylistVideoCounts ==
    ASSUME Data, Requests, Appending, CountersMatch, NEW r \in Req, AddPlaylistVideo(r)
    PROVE  CountersMatch'
  <1> DEFINE q == req[r]
  <1>1. q \in Request /\ Shape(q) /\ q.step = "AddPlaylistVideo"
    BY DEF Requests, Good, AddPlaylistVideo, Runs
  <1>2. q.playlist \in Playlist /\ q.video \in Video /\ q.pos \in Nat
    BY <1>1 DEF Shape, PlaylistSteps, VideoSteps, Appending
  <1>3. /\ UNCHANGED <<video, rating, comment, subs, subscribers>>
        /\ \/ UNCHANGED <<entry, playlist>>
           \/ /\ entry[<<q.playlist, q.video>>] = Absent
              /\ entry' = [entry EXCEPT ![<<q.playlist, q.video>>] = q.pos]
              /\ playlist' = [playlist EXCEPT ![q.playlist].count = playlist[q.playlist].count + 1]
    BY DEF AddPlaylistVideo, Taken
  <1> HIDE DEF q
  <1>4. UNCHANGED <<entry, playlist>> \/ EntriesMatch'
    <2> DEFINE k == 1
    <2>1. k \in {1, -1} /\ k # -1 /\ q.pos \in Int /\ q.pos # Absent
      BY <1>2 DEF Absent
    <2>2. k = 1  OBVIOUS
    <2> HIDE DEF k
    <2> QED  BY <1>2, <1>3, <2>1, <2>2, EntryCounts
  <1> QED  BY <1>3, <1>4, MatchesStay, CountersAre

LEMMA RemovePlaylistVideoCounts ==
    ASSUME Data, Requests, CountersMatch, NEW r \in Req, RemovePlaylistVideo(r)
    PROVE  CountersMatch'
  <1> DEFINE p == req[r].playlist
             v == req[r].video
  <1>1. p \in Playlist /\ v \in Video
    BY DEF Requests, Good, Shape, PlaylistSteps, VideoSteps, RemovePlaylistVideo, Runs
  <1>2. /\ UNCHANGED <<video, rating, comment, subs, subscribers>>
        /\ \/ UNCHANGED <<entry, playlist>>
           \/ /\ entry[<<p, v>>] # Absent
              /\ entry' = [entry EXCEPT ![<<p, v>>] = Absent]
              /\ playlist' = [playlist EXCEPT ![p].count = playlist[p].count - 1]
    BY DEF RemovePlaylistVideo
  <1> HIDE DEF p, v
  <1>3. UNCHANGED <<entry, playlist>> \/ EntriesMatch'
    <2> DEFINE k == -1
    <2>1. k \in {1, -1} /\ k # 1 /\ Absent \in Int
      BY DEF Absent
    <2>2. playlist[p].count \in Int
      BY <1>1 DEF Data, Typed, PlaylistRow
    <2>3. playlist[p].count - 1 = playlist[p].count + k /\ k = -1
      BY <2>2
    <2> HIDE DEF k
    <2> QED  BY <1>1, <1>2, <2>1, <2>3, EntryCounts
  <1> QED  BY <1>2, <1>3, MatchesStay, CountersAre

\* Entries refer to playlists that are there, so that a new one is empty.
LEMMA PlaylistsCount ==
    ASSUME Data, Requests, CountersMatch, NEW r \in Req,
           CreatePlaylist(r) \/ UpdatePlaylist(r) \/ DeletePlaylist(r)
    PROVE  CountersMatch'
  <1>1. UNCHANGED <<video, rating, comment, subs, subscribers>>
    BY DEF CreatePlaylist, UpdatePlaylist, DeletePlaylist
  <1>2. EntriesMatch'
    <2>1. CASE CreatePlaylist(r)
      <3> DEFINE p == New(playlist, NoPlaylistRow)
                 new == [here |-> TRUE, owner |-> req[r].by, visibility |-> req[r].choice, count |-> 0]
      <3>1. Unused(playlist, NoPlaylistRow) # {} /\ DOMAIN playlist = Playlist
        BY <2>1 DEF CreatePlaylist, Data, Typed
      <3>2. p \in Playlist /\ playlist[p] = NoPlaylistRow
        BY <3>1, NewIsUnused
      <3>3. ~playlist[p].here
        BY <3>2 DEF NoPlaylistRow
      <3>4. playlist' = [playlist EXCEPT ![p] = new] /\ UNCHANGED entry
        BY <2>1 DEF CreatePlaylist
      <3>5. new.count = 0
        OBVIOUS
      <3> HIDE DEF p, new
      <3>6. \A y \in Playlist : playlist'[y] = IF y = p THEN new ELSE playlist[y]
        BY <3>4 DEF Data, Typed
      <3>7. ASSUME NEW y \in Playlist  PROVE ListPlaylistVideos(y)' = ListPlaylistVideos(y)
        BY <3>4 DEF ListPlaylistVideos
      <3>8. ASSUME NEW y \in Playlist, ~playlist[y].here  PROVE Cardinality(ListPlaylistVideos(y)) = 0
        <4>1. ListPlaylistVideos(y) = {}
          BY <3>8 DEF ListPlaylistVideos, Data, Placed, EntriesPlaced
        <4> QED  BY <4>1, FS_EmptySet
      <3> SUFFICES ASSUME NEW y \in Playlist, playlist'[y].here
                   PROVE  playlist'[y].count = Cardinality(ListPlaylistVideos(y))
        BY <3>7 DEF EntriesMatch
      <3>9. CASE y = p  BY <3>2, <3>3, <3>5, <3>6, <3>8, <3>9
      <3>10. CASE y # p  BY <3>6, <3>10, CountersAre DEF EntriesMatch
      <3> QED  BY <3>9, <3>10
    <2>2. CASE UpdatePlaylist(r)
      <3> DEFINE p == req[r].playlist
                 choice == req[r].choice
      <3>1. /\ UNCHANGED playlist \/ playlist' = [playlist EXCEPT ![p].visibility = choice]
            /\ UNCHANGED entry
        BY <2>2 DEF UpdatePlaylist
      <3> HIDE DEF p, choice
      <3>2. \A y \in Playlist : /\ playlist'[y].here = playlist[y].here
                                /\ playlist'[y].count = playlist[y].count
        BY <3>1 DEF Data, Typed, PlaylistRow
      <3>3. ASSUME NEW y \in Playlist  PROVE ListPlaylistVideos(y)' = ListPlaylistVideos(y)
        BY <3>1 DEF ListPlaylistVideos
      <3> QED  BY <3>2, <3>3, CountersAre DEF EntriesMatch
    <2>3. CASE DeletePlaylist(r)
      <3> DEFINE p == req[r].playlist
      <3>1. p \in Playlist
        BY <2>3 DEF Requests, Good, DeletePlaylist, Runs, Shape, PlaylistSteps
      <3>2. /\ playlist' = [playlist EXCEPT ![p].here = FALSE]
            /\ entry' = [x \in DOMAIN entry |-> IF x[1] = p THEN Absent ELSE entry[x]]
        BY <2>3 DEF DeletePlaylist
      <3> HIDE DEF p
      <3>3. \A y \in Playlist : playlist'[y].here => y # p /\ playlist'[y] = playlist[y]
        BY <3>1, <3>2 DEF Data, Typed, PlaylistRow
      <3>4. ASSUME NEW y \in Playlist, y # p  PROVE ListPlaylistVideos(y)' = ListPlaylistVideos(y)
        BY <3>2, <3>4 DEF ListPlaylistVideos, Data, Typed
      <3> QED  BY <3>3, <3>4, CountersAre DEF EntriesMatch
    <2> QED  BY <2>1, <2>2, <2>3
  <1> QED  BY <1>1, <1>2, MatchesStay, CountersAre

-----------------------------------------------------------------------------
(* Deleting a video *)

\* What the cascade leaves: rows of other videos, with the counters of the playlists the
\* video was in brought down.
LEMMA CascadeCounts ==
    ASSUME Data, CountersMatch, NEW v \in Video,
           video' = [video EXCEPT ![v].here = FALSE],
           rating' = [x \in DOMAIN rating |-> IF x[2] = v THEN "none" ELSE rating[x]],
           comment' = [c \in Comment |-> IF comment[c].video = v THEN [comment[c] EXCEPT !.here = FALSE]
                                         ELSE comment[c]],
           entry' = [x \in DOMAIN entry |-> IF x[2] = v THEN Absent ELSE entry[x]],
           playlist' = [p \in Playlist |->
              IF entry[<<p, v>>] # Absent THEN [playlist[p] EXCEPT !.count = @ - 1] ELSE playlist[p]]
    PROVE  LikesMatch' /\ CommentsMatch' /\ RepliesMatch' /\ EntriesMatch'
  <1>1. ASSUME NEW w \in Video, video'[w].here  PROVE w # v /\ video'[w] = video[w]
    BY <1>1 DEF Data, Typed, VideoRow
  <1>2. ASSUME NEW c \in Comment
        PROVE  IF comment[c].video = v THEN ~comment'[c].here ELSE comment'[c] = comment[c]
    BY DEF Data, Typed, CommentRow
  <1>3. ASSUME NEW c \in Comment
        PROVE  Live(c)' <=> Live(c) /\ comment[c].video # v
    BY <1>2 DEF Live
  <1>4. LikesMatch'
    <2>1. ASSUME NEW w \in Video, w # v  PROVE ListLikes(w)' = ListLikes(w)
      BY <2>1 DEF ListLikes, Data, Typed
    <2> QED  BY <1>1, <2>1, CountersAre DEF LikesMatch
  <1>5. CommentsMatch'
    <2>1. ASSUME NEW w \in Video, w # v  PROVE LiveComments(w)' = LiveComments(w)
      BY <1>2, <1>3, <2>1 DEF LiveComments, Live
    <2> QED  BY <1>1, <2>1, CountersAre DEF CommentsMatch
  <1>6. RepliesMatch'
    <2>1. ASSUME NEW c \in Comment, comment'[c].here
          PROVE  comment'[c] = comment[c] /\ ListReplies(c)' = ListReplies(c)
      <3>1. comment'[c] = comment[c] /\ comment[c].video # v
        BY <1>2, <2>1
      <3>2. ASSUME NEW d \in Comment, Live(d), comment[d].parent = c  PROVE comment[d].video # v
        <4>1. comment[d].here /\ c # NoComment
          BY <3>2, CommunityAssumption DEF Live
        <4> QED  BY <3>1, <3>2, <4>1 DEF Data, Placed, CommentsPlaced
      <3>3. ASSUME NEW d \in Comment
            PROVE  Live(d)' /\ comment'[d].parent = c <=> Live(d) /\ comment[d].parent = c
        BY <1>2, <1>3, <3>2
      <3> QED  BY <3>1, <3>3 DEF ListReplies
    <2> QED  BY <2>1, CountersAre DEF RepliesMatch
  <1>7. EntriesMatch'
    <2> SUFFICES ASSUME NEW p \in Playlist, playlist'[p].here
                 PROVE  playlist'[p].count = Cardinality(ListPlaylistVideos(p)')
      BY DEF EntriesMatch
    <2>1. \A w \in Video : entry'[<<p, w>>] = IF w = v THEN Absent ELSE entry[<<p, w>>]
      BY DEF Data, Typed
    <2>2. playlist[p].count = Cardinality(ListPlaylistVideos(p)) /\ IsFiniteSet(ListPlaylistVideos(p))
      <3>1. playlist[p].here
        BY DEF Data, Typed, PlaylistRow
      <3> QED  BY <3>1, CountersAre, ListsFinite DEF EntriesMatch
    <2>3. CASE entry[<<p, v>>] = Absent
      <3>1. ListPlaylistVideos(p)' = ListPlaylistVideos(p)
        BY <2>1, <2>3 DEF ListPlaylistVideos
      <3> QED  BY <2>2, <2>3, <3>1
    <2>4. CASE entry[<<p, v>>] # Absent
      <3>1. v \in ListPlaylistVideos(p) /\ ListPlaylistVideos(p)' = ListPlaylistVideos(p) \ {v}
        BY <2>1, <2>4 DEF ListPlaylistVideos
      <3>2. Cardinality(ListPlaylistVideos(p)') = Cardinality(ListPlaylistVideos(p)) - 1
        BY <2>2, <3>1, OneLess
      <3>3. playlist'[p].count = playlist[p].count - 1
        BY <2>4 DEF Data, Typed, PlaylistRow
      <3> QED  BY <2>2, <3>2, <3>3
    <2> QED  BY <2>3, <2>4
  <1> QED  BY <1>4, <1>5, <1>6, <1>7

LEMMA DeleteVideoCounts ==
    ASSUME Data, Requests, CountersMatch, NEW r \in Req, DeleteVideo(r)
    PROVE  CountersMatch'
  <1> DEFINE v == req[r].video
  <1>1. v \in Video
    BY DEF Requests, Good, Shape, VideoSteps, DeleteVideo, Runs
  <1>2. UNCHANGED <<subs, subscribers>>
    BY DEF DeleteVideo
  <1>3. CASE ~video[v].here
    <2>1. UNCHANGED <<video, rating, comment, playlist, entry>>
      BY <1>3 DEF DeleteVideo
    <2> QED  BY <1>2, <2>1, CountersStay
  <1>4. CASE video[v].here
    <2>1. /\ video' = [video EXCEPT ![v].here = FALSE]
          /\ rating' = [x \in DOMAIN rating |-> IF x[2] = v THEN "none" ELSE rating[x]]
          /\ comment' = [c \in Comment |-> IF comment[c].video = v THEN [comment[c] EXCEPT !.here = FALSE]
                                           ELSE comment[c]]
          /\ entry' = [x \in DOMAIN entry |-> IF x[2] = v THEN Absent ELSE entry[x]]
          /\ playlist' = [p \in Playlist |->
                IF entry[<<p, v>>] # Absent THEN [playlist[p] EXCEPT !.count = @ - 1] ELSE playlist[p]]
      BY <1>4 DEF DeleteVideo
    <2> HIDE DEF v
    <2>2. LikesMatch' /\ CommentsMatch' /\ RepliesMatch' /\ EntriesMatch'
      BY <1>1, <2>1, CascadeCounts
    <2> QED  BY <1>2, <2>2, MatchesStay, CountersAre
  <1> QED  BY <1>3, <1>4

-----------------------------------------------------------------------------
(* Steps *)

LEMMA StatementCounts ==
    ASSUME CommunityInv, CountersMatch, NEW r \in Req, Statement(r)
    PROVE  CountersMatch'
  <1> USE DEF CommunityInv
  <1>1. CASE UpsertLike(r) \/ DeleteLike(r)
    BY <1>1, LikesCount
  <1>2. CASE CreateComment(r) \/ SoftDelete(r)
    BY <1>2, CreateCommentCounts, SoftDeleteCounts
  <1>3. CASE CreateSubscription(r) \/ DeleteSubscription(r)
    BY <1>3, SubscriptionsCount
  <1>4. CASE CreatePlaylist(r) \/ UpdatePlaylist(r) \/ DeletePlaylist(r)
    BY <1>4, PlaylistsCount
  <1>5. CASE AddPlaylistVideo(r) \/ RemovePlaylistVideo(r)
    BY <1>5, AddPlaylistVideoCounts, RemovePlaylistVideoCounts
  <1>6. CASE DeleteVideo(r)
    BY <1>6, DeleteVideoCounts
  <1>7. CASE \/ UpdateComment(r) \/ Notify(r) \/ MarkRead(r) \/ MarkAllRead(r) \/ LockPlaylist(r)
             \/ UpsertWatchLater(r) \/ DeleteWatchLater(r)
             \/ UpsertWatchHistory(r) \/ DeleteWatchHistory(r)
             \/ CreateReport(r) \/ UpdateReport(r) \/ Ban(r) \/ Unban(r)
    <2>1. UNCHANGED <<video, rating, comment, subs, subscribers, playlist, entry>>
      BY <1>7 DEF UpdateComment, Notify, MarkRead, MarkAllRead, LockPlaylist, UpsertWatchLater,
         DeleteWatchLater, UpsertWatchHistory, DeleteWatchHistory, CreateReport, UpdateReport,
         Ban, Unban, tables
    <2> QED  BY <2>1, CountersStay
  <1> QED  BY <1>1, <1>2, <1>3, <1>4, <1>5, <1>6, <1>7 DEF Statement

LEMMA InitCounts ==
    ASSUME Init  PROVE CountersMatch
  <1> USE DEF Init
  <1>1. LikesMatch
    <2>1. ASSUME NEW v \in Video  PROVE ListLikes(v) = {}
      BY DEF ListLikes
    <2> QED  BY <2>1, FS_EmptySet DEF LikesMatch
  <1>2. \A c \in Comment : ~Live(c) /\ ~comment[c].here
    BY DEF Live, NoCommentRow
  <1>3. CommentsMatch
    <2>1. ASSUME NEW v \in Video  PROVE LiveComments(v) = {}
      BY <1>2 DEF LiveComments
    <2> QED  BY <2>1, FS_EmptySet DEF CommentsMatch
  <1>4. RepliesMatch
    BY <1>2 DEF RepliesMatch
  <1>5. SubscribersMatch
    <2>1. ASSUME NEW u \in User  PROVE ListSubscribers(u) = {}
      BY DEF ListSubscribers
    <2> QED  BY <2>1, FS_EmptySet DEF SubscribersMatch
  <1>6. EntriesMatch
    BY DEF EntriesMatch, NoPlaylistRow
  <1> QED  BY <1>1, <1>3, <1>4, <1>5, <1>6, CountersAre

\* The triggers on likes, comments, subscriptions and playlist_videos keep like_count,
\* comment_count, reply_count, subscriber_count and video_count at what counting the rows
\* anew would give, replies included in comment_count as in the migration's own recount,
\* whatever turns, is deleted softly, is removed or goes in a cascade.
THEOREM CountersNeverDrift == Spec => []CountersMatch
  <1>1. Init => CommunityInv /\ CountersMatch
    BY InitInv, InitCounts
  <1>2. CommunityInv /\ CountersMatch /\ [Next]_vars => (CommunityInv /\ CountersMatch)'
    <2> SUFFICES ASSUME CommunityInv, CountersMatch, [Next]_vars
                 PROVE  CommunityInv' /\ CountersMatch'
      OBVIOUS
    <2>1. CommunityInv'
      BY NextInv
    <2>2. ASSUME UNCHANGED tables  PROVE CountersMatch'
      BY <2>2, CountersStay DEF tables
    <2>3. ASSUME NEW r \in Req, NEW u \in User, Arrive(r, u)  PROVE CountersMatch'
      <3>1. PICK q : Begin(r, q)
        BY <2>3, ArriveFresh DEF CommunityInv, Data
      <3> QED  BY <2>2, <3>1 DEF Begin
    <2>4. ASSUME NEW r \in Req, Proceed(r)  PROVE CountersMatch'
      <3>1. CASE Reads(r)
        BY <2>2, <3>1, ReadGood DEF CommunityInv
      <3>2. CASE TakeLock(r) \/ BreakDeadlock(r)
        BY <2>2, <3>2 DEF TakeLock, BreakDeadlock
      <3>3. CASE Statement(r)
        BY <3>3, StatementCounts
      <3> QED  BY <2>4, <3>1, <3>2, <3>3 DEF Proceed
    <2>5. ASSUME NEW r \in Req, BreakOff(r)  PROVE CountersMatch'
      BY <2>2, <2>5 DEF BreakOff
    <2>6. ASSUME UNCHANGED vars  PROVE CountersMatch'
      BY <2>2, <2>6 DEF vars
    <2> QED  BY <2>1, <2>3, <2>4, <2>5, <2>6 DEF Next
  <1> QED  BY <1>1, <1>2, PTL DEF Spec
=============================================================================
