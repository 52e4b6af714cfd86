----------------------------- MODULE Community -----------------------------
(***************************************************************************)
(* Likes, comments, subscriptions, playlists, watch-later, watch history,  *)
(* notifications and reports: the tables, the counters their triggers      *)
(* maintain, and the requests that work on them at the same time.          *)
(*                                                                         *)
(* A request reads, decides, and then sends a statement.  The statement    *)
(* collects its row locks one by one (RowLocks) and takes effect, with     *)
(* everything its triggers and cascades do, when it has them all; the      *)
(* locks go when its transaction ends.  Replies are left out: a request    *)
(* that ends, well or not, is idle again.                                  *)
(***************************************************************************)
EXTENDS Integers, FiniteSets, RowLocks, Roles

CONSTANTS
    User, Video, Comment, Playlist, Report,
    Nobody, NoVideo, NoComment, NoPlaylist, NoReport,
    RoleOf,      \* the role in each user's access token
    Owner,       \* of each video; Nobody for those older than accounts
    MaxRequests, \* bound on the requests of a behaviour
    Fails        \* may a request break off?

ASSUME CommunityAssumption ==
    /\ RoleOf \in [User -> AllRoles]
    /\ Owner \in [Video -> User \cup {Nobody}]
    /\ Nobody \notin User /\ NoVideo \notin Video /\ NoComment \notin Comment
    /\ NoPlaylist \notin Playlist /\ NoReport \notin Report
    /\ MaxRequests \in Nat
    /\ Fails \in BOOLEAN
    /\ IsFiniteSet(User) /\ IsFiniteSet(Video) /\ IsFiniteSet(Comment)

VARIABLES
    video,       \* videos: is the row there, like_count, comment_count
    rating,      \* likes
    comment,     \* comments, with reply_count
    subs,        \* subscriptions, as pairs of a subscriber and a creator
    subscribers, \* users.subscriber_count
    playlist,    \* playlists, with video_count
    entry,       \* playlist_videos: the position of a video, or Absent
    later,       \* watch_later
    watched,     \* watch_history
    notes,       \* notifications
    report,      \* content_reports
    banned,      \* users with is_banned
    req,         \* the requests in progress
    started,     \* how many there have been
    joined,      \* history: how often each pair was inserted into subscriptions
    wasBanned    \* history: users banned at some time

tables == <<video, rating, comment, subs, subscribers, playlist, entry, later,
            watched, notes, report, banned>>
history == <<joined, wasBanned>>
vars == <<tables, req, held, started, history>>

-----------------------------------------------------------------------------
(* Rows *)

VideoRow == [here : BOOLEAN, likes : Int, comments : Int]

Rating == {"none", "like", "dislike"}

CommentRow == [here : BOOLEAN, deleted : BOOLEAN, author : User \cup {Nobody},
               video : Video \cup {NoVideo}, parent : Comment \cup {NoComment}, replies : Int]

NoCommentRow == [here |-> FALSE, deleted |-> FALSE, author |-> Nobody,
                 video |-> NoVideo, parent |-> NoComment, replies |-> 0]

\* "unlisted" is a third value that nothing here treats differently.
Visibility == {"public", "private"}

PlaylistRow == [here : BOOLEAN, owner : User \cup {Nobody}, visibility : Visibility, count : Int]

NoPlaylistRow == [here |-> FALSE, owner |-> Nobody, visibility |-> "public", count |-> 0]

Absent == -1

Note == [n : 0..MaxRequests, to : User, actor : User,
         type : {"comment", "reply", "subscriber"},
         video : Video \cup {NoVideo}, comment : Comment \cup {NoComment}, read : BOOLEAN]

\* What a request may say besides what it is about: a rating, a visibility or the
\* decision of a review.
Choice == Rating \cup Visibility \cup
          {"", "same", "delete_video", "ban_user", "warn_user", "dismiss"}

\* A report names a video, a user, both, or (neither here) a comment only.
ReportRow == [here : BOOLEAN, reporter : User \cup {Nobody}, video : Video \cup {NoVideo},
              user : User \cup {Nobody}, status : {"pending", "resolved", "dismissed"},
              action : Choice]

NoReportRow == [here |-> FALSE, reporter |-> Nobody, video |-> NoVideo, user |-> Nobody,
                status |-> "pending", action |-> ""]

\* uuid.New: an identity never used before, whichever.
Unused(table, none) == {x \in DOMAIN table : table[x] = none}
New(table, none) == CHOOSE x \in Unused(table, none) : TRUE

Live(c) == comment[c].here /\ ~comment[c].deleted

\* What the counters count.  All but the comments of a video are what a listing shows;
\* these are what the migration recomputed comment_count from, replies and all, where
\* ListComments and CountComments stop at the top level.
ListLikes(v) == {u \in User : rating[<<u, v>>] = "like"}
LiveComments(v) == {c \in Comment : Live(c) /\ comment[c].video = v}
ListReplies(c) == {d \in Comment : Live(d) /\ comment[d].parent = c}
ListSubscribers(u) == {s \in User : <<s, u>> \in subs}
ListWatchHistory(u) == {v \in Video : <<u, v>> \in watched}
ListPlaylistVideos(p) == {v \in Video : entry[<<p, v>>] # Absent}

-----------------------------------------------------------------------------
(* Requests *)

\* Steps that read, and steps named for the statement they wait to run.
Step == {"idle", "video", "parent", "comment", "owner", "playlist", "count", "report",
         "target"} \cup
        {"UpsertLike", "DeleteLike", "CreateComment", "UpdateComment", "SoftDelete",
         "CreateSubscription", "DeleteSubscription", "CreatePlaylist", "UpdatePlaylist",
         "DeletePlaylist", "LockPlaylist", "AddPlaylistVideo", "RemovePlaylistVideo",
         "UpsertWatchLater", "DeleteWatchLater", "UpsertWatchHistory", "DeleteWatchHistory",
         "ClearWatchHistory", "Notify", "MarkRead", "MarkAllRead",
         "CreateReport", "UpdateReport", "Ban", "Unban", "DeleteVideo"}

Request == [step : Step, next : Step, by : User \cup {Nobody}, user : User \cup {Nobody},
            video : Video \cup {NoVideo}, comment : Comment \cup {NoComment},
            parent : Comment \cup {NoComment}, playlist : Playlist \cup {NoPlaylist},
            report : Report \cup {NoReport}, choice : Choice, pos : Int, n : 0..MaxRequests]

\* `next` is where a request goes after the reads it begins with.
Idle == [step |-> "idle", next |-> "idle", by |-> Nobody, user |-> Nobody,
         video |-> NoVideo, comment |-> NoComment, parent |-> NoComment,
         playlist |-> NoPlaylist, report |-> NoReport, choice |-> "", pos |-> 0, n |-> 0]

Ask(by, step, next) == [Idle EXCEPT !.by = by, !.step = step, !.next = next]

\* Which of the free names a request gets makes no difference.
Begin(r, q) ==
    /\ \E s \in Req : req[s] = Idle
    /\ r = CHOOSE s \in Req : req[s] = Idle
    /\ started < MaxRequests
    /\ started' = started + 1
    /\ req' = [req EXCEPT ![r] = [q EXCEPT !.n = started + 1]]
    /\ UNCHANGED <<tables, held, history>>

\* A read that succeeds or ends the request.
Check(r, ok, step) ==
    /\ req' = [req EXCEPT ![r] = IF ok THEN [@ EXCEPT !.step = step] ELSE Idle]
    /\ UNCHANGED <<tables, held, started, history>>

May(u, permission) == HasPermission(RoleOf[u], permission)

-----------------------------------------------------------------------------
(* The locks of each statement *)

OnVideo(v, mode) == IF v \in Video /\ video[v].here THEN {Lock("video", v, mode)} ELSE {}

OnComment(c, mode) == IF c \in Comment /\ comment[c].here THEN {Lock("comment", c, mode)} ELSE {}

OnPlaylist(p, mode) == IF p \in Playlist /\ playlist[p].here THEN {Lock("playlist", p, mode)} ELSE {}

\* A like that appears, disappears or turns moves like_count.
LikeNeeds(q, new) ==
    LET old == rating[<<q.by, q.video>>] IN
    << IF new = "none" THEN IF old = "none" THEN {} ELSE {Lock("like", <<q.by, q.video>>, "delete")}
                       ELSE {Lock("like", <<q.by, q.video>>, "update")},
       IF old = "none" THEN OnVideo(q.video, "key") ELSE {},
       IF "like" \in {old, new} /\ old # new THEN OnVideo(q.video, "update") ELSE {} >>

\* Only the transition to deleted moves comment_count and the parent's
\* reply_count.
SoftDeleteNeeds(q) ==
    IF Live(q.comment)
    THEN << OnComment(q.comment, "update"), OnVideo(comment[q.comment].video, "update"),
            OnComment(comment[q.comment].parent, "update") >>
    ELSE << OnComment(q.comment, "update") >>

SubscriptionNeeds(q, mode) ==
    << IF mode = "delete" /\ <<q.by, q.user>> \notin subs THEN {}
       ELSE {Lock("subscription", <<q.by, q.user>>, mode)},
       IF mode = "delete" <=> <<q.by, q.user>> \in subs THEN {Lock("user", q.user, "update")}
       ELSE {} >>

EntriesOf(p) == {Lock("entry", <<p, v>>, "delete") : v \in ListPlaylistVideos(p)}

\* The row, then table by table what refers to it, and the playlists whose
\* video_count moves.
DeleteVideoNeeds(v) ==
    IF ~video[v].here THEN << {} >> ELSE
    << OnVideo(v, "delete"),
       {Lock("report", x, "delete") : x \in {x \in Report : report[x].here /\ report[x].video = v}},
       {Lock("like", <<u, v>>, "delete") : u \in {u \in User : rating[<<u, v>>] # "none"}},
       {Lock("comment", c, "delete") : c \in {c \in Comment : comment[c].here /\ comment[c].video = v}},
       {Lock("entry", <<p, v>>, "delete") : p \in {p \in Playlist : entry[<<p, v>>] # Absent}},
       {Lock("playlist", p, "update") : p \in {p \in Playlist : entry[<<p, v>>] # Absent}},
       {Lock("watched", <<u, v>>, "delete") : u \in {u \in User : <<u, v>> \in watched}},
       {Lock("later", <<u, v>>, "delete") : u \in {u \in User : <<u, v>> \in later}} >>

\* The entries of the history a request removes.
Unwatch(q) == {v \in ListWatchHistory(q.by) : q.step = "ClearWatchHistory" \/ v = q.video}

Needs(q) ==
    CASE q.step = "UpsertLike" -> LikeNeeds(q, q.choice)
      [] q.step = "DeleteLike" -> LikeNeeds(q, "none")
      [] q.step = "CreateComment" ->
            << OnVideo(q.video, "key"), OnComment(q.parent, "key"),
               OnVideo(q.video, "update"), OnComment(q.parent, "update") >>
      [] q.step = "UpdateComment" -> << OnComment(q.comment, "update") >>
      [] q.step = "SoftDelete" -> SoftDeleteNeeds(q)
      [] q.step = "CreateSubscription" -> SubscriptionNeeds(q, "update")
      [] q.step = "DeleteSubscription" -> SubscriptionNeeds(q, "delete")
      [] q.step = "UpdatePlaylist" -> << OnPlaylist(q.playlist, "update") >>
      [] q.step = "DeletePlaylist" -> << OnPlaylist(q.playlist, "delete"), EntriesOf(q.playlist) >>
      [] q.step = "LockPlaylist" -> << OnPlaylist(q.playlist, "delete") >>
      [] q.step = "AddPlaylistVideo" ->
            << {Lock("entry", <<q.playlist, q.video>>, "update")}, OnVideo(q.video, "key"),
               OnPlaylist(q.playlist, "update") >>
      [] q.step = "RemovePlaylistVideo" ->
            IF entry[<<q.playlist, q.video>>] = Absent THEN << {} >>
            ELSE << {Lock("entry", <<q.playlist, q.video>>, "delete")},
                    OnPlaylist(q.playlist, "update") >>
      [] q.step = "UpsertWatchLater" ->
            << {Lock("later", <<q.by, q.video>>, "update")},
               IF <<q.by, q.video>> \in later THEN {} ELSE OnVideo(q.video, "key") >>
      [] q.step = "DeleteWatchLater" ->
            << IF <<q.by, q.video>> \in later THEN {Lock("later", <<q.by, q.video>>, "delete")} ELSE {} >>
      [] q.step = "UpsertWatchHistory" ->
            << {Lock("watched", <<q.by, q.video>>, "update")},
               IF <<q.by, q.video>> \in watched THEN {} ELSE OnVideo(q.video, "key") >>
      [] q.step \in {"DeleteWatchHistory", "ClearWatchHistory"} ->
            << {Lock("watched", <<q.by, v>>, "delete") : v \in Unwatch(q)} >>
      [] q.step \in {"Notify", "CreateReport"} ->
            << OnVideo(q.video, "key"), OnComment(q.comment, "key") >>
      [] q.step = "UpdateReport" ->
            << IF report[q.report].here THEN {Lock("report", q.report, "update")} ELSE {} >>
      [] q.step \in {"Ban", "Unban"} -> << {Lock("user", q.user, "update")} >>
      [] q.step = "DeleteVideo" -> DeleteVideoNeeds(q.video)
      [] OTHER -> << {} >>

Waiting == [r \in Req |-> Needs(req[r])]

\* Request r runs the statement `step`: it has all of its locks.
Runs(r, step) == req[r].step = step /\ Missing(r, Waiting[r]) = {}

\* The statement has done its work and its transaction is over.
Done(r, q) == req' = [req EXCEPT ![r] = q] /\ Release(r) /\ UNCHANGED started

End(r) == Done(r, Idle)

\* One more lock for the statement.
TakeLock(r) ==
    /\ Take(r, Waiting[r])
    /\ UNCHANGED <<tables, req, started, history>>

-----------------------------------------------------------------------------
(* Likes *)

\* SocialHandler.SetLike
StartSetLike(r, u, v, choice) ==
    /\ choice \in {"like", "dislike"}
    /\ Begin(r, [Ask(u, "video", "UpsertLike") EXCEPT !.video = v, !.choice = choice])

\* SocialHandler.RemoveLike
StartRemoveLike(r, u, v) == Begin(r, [Ask(u, "DeleteLike", "idle") EXCEPT !.video = v])

\* The service looks the video up before it lets it be liked, commented on,
\* put in a playlist or on the watch-later list.
VideoCheck(r) ==
    /\ req[r].step = "video"
    /\ Check(r, video[req[r].video].here, req[r].next)

\* Mutant of Rate: nothing happens when a like turns into a dislike.
RateUnturned(u, v, new) ==
    LET old == rating[<<u, v>>] IN
    /\ rating' = [rating EXCEPT ![<<u, v>>] = new]
    /\ video' = [video EXCEPT ![v].likes =
          IF old = "none" /\ new = "like" THEN @ + 1
          ELSE IF old = "like" /\ new = "none" THEN @ - 1 ELSE @]

\* The row, and what the trigger on likes adds to the video.
Rate(u, v, new) ==
    LET old == rating[<<u, v>>] IN
    /\ rating' = [rating EXCEPT ![<<u, v>>] = new]
    /\ video' = [video EXCEPT ![v].likes =
          IF new = "like" /\ old # "like" THEN @ + 1
          ELSE IF new # "like" /\ old = "like" THEN @ - 1 ELSE @]

\* UpsertLike: the foreign key fails when the video has just gone.
UpsertLike(r) ==
    /\ Runs(r, "UpsertLike")
    /\ LET q == req[r] IN
       IF video[q.video].here THEN Rate(q.by, q.video, q.choice) ELSE UNCHANGED <<rating, video>>
    /\ End(r)
    /\ UNCHANGED <<comment, subs, subscribers, playlist, entry, later, watched, notes, report, banned, history>>

DeleteLike(r) ==
    /\ Runs(r, "DeleteLike")
    /\ LET q == req[r] IN
       IF rating[<<q.by, q.video>>] # "none" THEN Rate(q.by, q.video, "none")
       ELSE UNCHANGED <<rating, video>>
    /\ End(r)
    /\ UNCHANGED <<comment, subs, subscribers, playlist, entry, later, watched, notes, report, banned, history>>

-----------------------------------------------------------------------------
(* Comments *)

\* SocialHandler.CreateComment; `d` is the comment replied to, or none.
StartCreateComment(r, u, v, d) ==
    Begin(r, [Ask(u, "video", IF d = NoComment THEN "CreateComment" ELSE "parent")
                EXCEPT !.video = v, !.parent = d])

\* Mutant of ParentCheck: any comment will do, of whatever video.
ParentCheckAnyVideo(r) ==
    /\ req[r].step = "parent"
    /\ Check(r, Live(req[r].parent), "CreateComment")

\* The comment replied to is there, not deleted, and on the same video.
ParentCheck(r) ==
    /\ req[r].step = "parent"
    /\ LET d == req[r].parent
       IN  Check(r, Live(d) /\ comment[d].video = req[r].video, "CreateComment")

\* A live comment comes or goes: what the trigger on comments adds to the video
\* and, for a reply, to the comment replied to.
CountComment(row, v, d, change) ==
    /\ video' = [video EXCEPT ![v].comments = @ + change]
    /\ comment' = IF d = NoComment THEN row ELSE [row EXCEPT ![d].replies = @ + change]

\* notifyForComment: the author replied to, or else the owner of the video.
Addressee(q) == IF q.parent # NoComment THEN comment[q.parent].author ELSE Owner[q.video]

\* CreateComment: a new row under a name not used before; the foreign keys fail
\* when the video or the comment replied to has gone.
CreateComment(r) ==
    /\ Runs(r, "CreateComment")
    /\ LET q == req[r]
           to == Addressee(q)
       IN  \/ /\ video[q.video].here
              /\ q.parent # NoComment => comment[q.parent].here
              /\ Unused(comment, NoCommentRow) # {}
              /\ LET c == New(comment, NoCommentRow) IN
                    /\ CountComment(
                          [comment EXCEPT ![c] = [NoCommentRow EXCEPT !.here = TRUE, !.author = q.by,
                                                       !.video = q.video, !.parent = q.parent]],
                          q.video, q.parent, 1)
                    /\ IF to \in User \ {q.by}
                       THEN Done(r, [q EXCEPT !.step = "Notify", !.user = to, !.comment = c])
                       ELSE End(r)
           \/ /\ ~video[q.video].here \/ (q.parent # NoComment /\ ~comment[q.parent].here)
              /\ UNCHANGED <<video, comment>>
              /\ End(r)
    /\ UNCHANGED <<rating, subs, subscribers, playlist, entry, later, watched, notes, report, banned, history>>

\* SocialHandler.UpdateComment; the author only.  The text is not modelled.
StartUpdateComment(r, u, c) ==
    Begin(r, [Ask(u, "comment", "UpdateComment") EXCEPT !.comment = c])

\* SocialHandler.DeleteComment
StartDeleteComment(r, u, c) ==
    Begin(r, [Ask(u, "comment", "SoftDelete") EXCEPT !.comment = c])

\* GetCommentByID and who may do it; the video's owner is looked up last.
CommentCheck(r) ==
    /\ req[r].step = "comment"
    /\ LET q == req[r]
           author == comment[q.comment].author = q.by
       IN  IF q.next = "SoftDelete" /\ ~author /\ ~May(q.by, "moderate_content")
           THEN Check(r, Live(q.comment), "owner")
           ELSE Check(r, Live(q.comment) /\ (author \/ q.next = "SoftDelete"), q.next)

OwnerCheck(r) ==
    /\ req[r].step = "owner"
    /\ LET v == comment[req[r].comment].video
       IN  Check(r, v \in Video /\ Owner[v] = req[r].by, "SoftDelete")

UpdateComment(r) ==
    /\ Runs(r, "UpdateComment")
    /\ End(r)
    /\ UNCHANGED <<tables, history>>

\* SoftDeleteComment: only a comment that is not deleted yet.
SoftDelete(r) ==
    /\ Runs(r, "SoftDelete")
    /\ LET c == req[r].comment IN
       IF Live(c) THEN CountComment([comment EXCEPT ![c].deleted = TRUE],
                                    comment[c].video, comment[c].parent, -1)
       ELSE UNCHANGED <<video, comment>>
    /\ End(r)
    /\ UNCHANGED <<rating, subs, subscribers, playlist, entry, later, watched, notes, report, banned, history>>

-----------------------------------------------------------------------------
(* Subscriptions and notifications *)

\* SocialHandler.Subscribe: not to oneself.
StartSubscribe(r, u, to) ==
    /\ u # to
    /\ Begin(r, [Ask(u, "CreateSubscription", "idle") EXCEPT !.user = to])

StartUnsubscribe(r, u, to) ==
    Begin(r, [Ask(u, "DeleteSubscription", "idle") EXCEPT !.user = to])

\* Mutant of CreateSubscription: every click counts as a new subscription.
CreateSubscriptionAgain(r) ==
    /\ Runs(r, "CreateSubscription")
    /\ LET pair == <<req[r].by, req[r].user>> IN
       /\ subs' = subs \cup {pair}
       /\ subscribers' = [subscribers EXCEPT ![req[r].user] = IF pair \in subs THEN @ ELSE @ + 1]
       /\ joined' = [joined EXCEPT ![pair] = IF pair \in subs THEN @ ELSE @ + 1]
    /\ Done(r, [req[r] EXCEPT !.step = "Notify"])
    /\ UNCHANGED <<video, rating, comment, playlist, entry, later, watched, notes, report, banned, wasBanned>>

\* CreateSubscription says whether it has inserted a row; only then is the
\* creator notified.
CreateSubscription(r) ==
    /\ Runs(r, "CreateSubscription")
    /\ LET pair == <<req[r].by, req[r].user>> IN
       IF pair \in subs THEN End(r) /\ UNCHANGED <<subs, subscribers, joined>>
       ELSE /\ subs' = subs \cup {pair}
            /\ subscribers' = [subscribers EXCEPT ![req[r].user] = @ + 1]
            /\ joined' = [joined EXCEPT ![pair] = @ + 1]
            /\ Done(r, [req[r] EXCEPT !.step = "Notify"])
    /\ UNCHANGED <<video, rating, comment, playlist, entry, later, watched, notes, report, banned, wasBanned>>

DeleteSubscription(r) ==
    /\ Runs(r, "DeleteSubscription")
    /\ LET pair == <<req[r].by, req[r].user>> IN
       IF pair \in subs THEN /\ subs' = subs \ {pair}
                             /\ subscribers' = [subscribers EXCEPT ![req[r].user] = @ - 1]
       ELSE UNCHANGED <<subs, subscribers>>
    /\ End(r)
    /\ UNCHANGED <<video, rating, comment, playlist, entry, later, watched, notes, report, banned, history>>

NoteOf(q) ==
    [n |-> q.n, to |-> q.user, actor |-> q.by, video |-> q.video, comment |-> q.comment,
     type |-> IF q.comment = NoComment THEN "subscriber"
              ELSE IF q.parent = NoComment THEN "comment" ELSE "reply", read |-> FALSE]

\* notify: the insert, best effort; the foreign keys fail when what it is about
\* has gone.
Notify(r) ==
    /\ Runs(r, "Notify")
    /\ LET q == req[r] IN
       IF /\ q.video # NoVideo => video[q.video].here
          /\ q.comment # NoComment => comment[q.comment].here
       THEN notes' = notes \cup {NoteOf(q)}
       ELSE UNCHANGED notes
    /\ End(r)
    /\ UNCHANGED <<video, rating, comment, subs, subscribers, playlist, entry, later, watched, report, banned, history>>

\* SocialHandler.MarkNotificationRead; `m` picks the notification.
StartMarkRead(r, u, m) ==
    /\ m \in notes
    /\ Begin(r, [Ask(u, "MarkRead", "idle") EXCEPT !.pos = m.n])

\* SocialHandler.MarkAllNotificationsRead
StartMarkAllRead(r, u) == Begin(r, Ask(u, "MarkAllRead", "idle"))

Seen(ms) == (notes \ ms) \cup {[m EXCEPT !.read = TRUE] : m \in ms}

\* MarkNotificationRead: scoped to the recipient.
MarkRead(r) ==
    /\ Runs(r, "MarkRead")
    /\ notes' = Seen({m \in notes : m.n = req[r].pos /\ m.to = req[r].by})
    /\ End(r)
    /\ UNCHANGED <<video, rating, comment, subs, subscribers, playlist, entry, later, watched, report, banned, history>>

MarkAllRead(r) ==
    /\ Runs(r, "MarkAllRead")
    /\ notes' = Seen({m \in notes : m.to = req[r].by})
    /\ End(r)
    /\ UNCHANGED <<video, rating, comment, subs, subscribers, playlist, entry, later, watched, report, banned, history>>

-----------------------------------------------------------------------------
(* Playlists and watch-later *)

\* SocialHandler.CreatePlaylist
StartCreatePlaylist(r, u, visibility) ==
    Begin(r, [Ask(u, "CreatePlaylist", "idle") EXCEPT !.choice = visibility])

\* SocialHandler.UpdatePlaylist; "same" leaves the visibility out.
StartUpdatePlaylist(r, u, p, choice) ==
    /\ choice \in Visibility \cup {"same"}
    /\ Begin(r, [Ask(u, "playlist", "UpdatePlaylist") EXCEPT !.playlist = p, !.choice = choice])

StartDeletePlaylist(r, u, p) ==
    Begin(r, [Ask(u, "playlist", "DeletePlaylist") EXCEPT !.playlist = p])

StartAddPlaylistVideo(r, u, p, v) ==
    Begin(r, [Ask(u, "playlist", "video") EXCEPT !.playlist = p, !.video = v])

StartRemovePlaylistVideo(r, u, p, v) ==
    Begin(r, [Ask(u, "playlist", "RemovePlaylistVideo") EXCEPT !.playlist = p, !.video = v])

\* ownedPlaylist; an update without a visibility keeps the one it reads here.
PlaylistCheck(r) ==
    /\ req[r].step = "playlist"
    /\ LET q == req[r]
           row == playlist[q.playlist]
       IN  req' = [req EXCEPT ![r] =
              IF ~row.here \/ row.owner # q.by THEN Idle
              ELSE [q EXCEPT !.step = q.next,
                             !.next = IF q.next = "video" THEN "LockPlaylist" ELSE @,
                             !.choice = IF @ = "same" THEN row.visibility ELSE @]]
    /\ UNCHANGED <<tables, held, started, history>>

CreatePlaylist(r) ==
    /\ Runs(r, "CreatePlaylist")
    /\ Unused(playlist, NoPlaylistRow) # {}
    /\ LET p == New(playlist, NoPlaylistRow) IN
          playlist' = [playlist EXCEPT ![p] = [here |-> TRUE, owner |-> req[r].by,
                                               visibility |-> req[r].choice, count |-> 0]]
    /\ End(r)
    /\ UNCHANGED <<video, rating, comment, subs, subscribers, entry, later, watched, notes, report, banned, history>>

\* UpdatePlaylist writes title, description and visibility together.
UpdatePlaylist(r) ==
    /\ Runs(r, "UpdatePlaylist")
    /\ LET q == req[r] IN
       playlist' = IF playlist[q.playlist].here
                   THEN [playlist EXCEPT ![q.playlist].visibility = q.choice] ELSE playlist
    /\ End(r)
    /\ UNCHANGED <<video, rating, comment, subs, subscribers, entry, later, watched, notes, report, banned, history>>

\* DeletePlaylist: its entries go with it.
DeletePlaylist(r) ==
    /\ Runs(r, "DeletePlaylist")
    /\ LET p == req[r].playlist IN
       /\ playlist' = [playlist EXCEPT ![p].here = FALSE]
       /\ entry' = [x \in DOMAIN entry |-> IF x[1] = p THEN Absent ELSE entry[x]]
    /\ End(r)
    /\ UNCHANGED <<video, rating, comment, subs, subscribers, later, watched, notes, report, banned, history>>

\* COALESCE(MAX(position), -1) + 1, as the INSERT sees it when it starts.
NextPosition(p) ==
    LET used == {entry[<<p, v>>] : v \in Video} \cup {-1}
    IN  1 + CHOOSE n \in used : \A m \in used : m <= n

\* Mutant of LockPlaylist: the playlist is only looked up, not locked.
LookPlaylist(r) ==
    /\ req[r].step = "LockPlaylist"
    /\ LET p == req[r].playlist IN
       req' = [req EXCEPT ![r] = IF playlist[p].here
                                 THEN [@ EXCEPT !.step = "AddPlaylistVideo", !.pos = NextPosition(p)]
                                 ELSE Idle]
    /\ UNCHANGED <<tables, held, started, history>>

\* The first statement of AddPlaylistVideo: SELECT ... FOR UPDATE, whose lock is
\* kept for the second.
LockPlaylist(r) ==
    /\ Runs(r, "LockPlaylist")
    /\ LET p == req[r].playlist IN
       IF playlist[p].here
       THEN /\ req' = [req EXCEPT ![r].step = "AddPlaylistVideo", ![r].pos = NextPosition(p)]
            /\ UNCHANGED <<held, started>>
       ELSE End(r)
    /\ UNCHANGED <<tables, history>>

\* One of the two unique indexes refuses the insert.
Taken(q) ==
    \/ entry[<<q.playlist, q.video>>] # Absent
    \/ \E v \in Video : entry[<<q.playlist, v>>] = q.pos

\* Mutant of AddPlaylistVideo: no deferred Rollback, so a refused insert keeps the lock.
AddPlaylistVideoKeepsLock(r) ==
    /\ Runs(r, "AddPlaylistVideo")
    /\ LET q == req[r] IN
       IF video[q.video].here /\ playlist[q.playlist].here /\ ~Taken(q)
       THEN /\ entry' = [entry EXCEPT ![<<q.playlist, q.video>>] = q.pos]
            /\ playlist' = [playlist EXCEPT ![q.playlist].count = @ + 1]
            /\ End(r)
       ELSE /\ req' = [req EXCEPT ![r] = Idle]
            /\ UNCHANGED <<entry, playlist, held, started>>
    /\ UNCHANGED <<video, rating, comment, subs, subscribers, later, watched, notes, report, banned, history>>

\* The second: the insert and what its trigger adds.  It fails when the video
\* has gone, and on a unique index, which is answered with "already in the
\* playlist"; the deferred Rollback releases the lock then.
AddPlaylistVideo(r) ==
    /\ Runs(r, "AddPlaylistVideo")
    /\ LET q == req[r] IN
       IF video[q.video].here /\ playlist[q.playlist].here /\ ~Taken(q)
       THEN /\ entry' = [entry EXCEPT ![<<q.playlist, q.video>>] = q.pos]
            /\ playlist' = [playlist EXCEPT ![q.playlist].count = @ + 1]
       ELSE UNCHANGED <<entry, playlist>>
    /\ End(r)
    /\ UNCHANGED <<video, rating, comment, subs, subscribers, later, watched, notes, report, banned, history>>

\* RemovePlaylistVideo leaves a gap in the positions.
RemovePlaylistVideo(r) ==
    /\ Runs(r, "RemovePlaylistVideo")
    /\ LET x == <<req[r].playlist, req[r].video>> IN
       IF entry[x] # Absent
       THEN /\ entry' = [entry EXCEPT ![x] = Absent]
            /\ playlist' = [playlist EXCEPT ![req[r].playlist].count = @ - 1]
       ELSE UNCHANGED <<entry, playlist>>
    /\ End(r)
    /\ UNCHANGED <<video, rating, comment, subs, subscribers, later, watched, notes, report, banned, history>>

StartAddWatchLater(r, u, v) ==
    Begin(r, [Ask(u, "video", "UpsertWatchLater") EXCEPT !.video = v])

StartRemoveWatchLater(r, u, v) ==
    Begin(r, [Ask(u, "DeleteWatchLater", "idle") EXCEPT !.video = v])

UpsertWatchLater(r) ==
    /\ Runs(r, "UpsertWatchLater")
    /\ LET q == req[r] IN
       later' = IF video[q.video].here THEN later \cup {<<q.by, q.video>>} ELSE later
    /\ End(r)
    /\ UNCHANGED <<video, rating, comment, subs, subscribers, playlist, entry, watched, notes, report, banned, history>>

DeleteWatchLater(r) ==
    /\ Runs(r, "DeleteWatchLater")
    /\ later' = later \ {<<req[r].by, req[r].video>>}
    /\ End(r)
    /\ UNCHANGED <<video, rating, comment, subs, subscribers, playlist, entry, watched, notes, report, banned, history>>

-----------------------------------------------------------------------------
(* Watch history *)

\* ViewHandler.SaveProgress.
StartSaveProgress(r, u, v) ==
    Begin(r, [Ask(u, "UpsertWatchHistory", "idle") EXCEPT !.video = v])

\* ViewHandler.DeleteHistoryEntry
StartDeleteHistoryEntry(r, u, v) ==
    Begin(r, [Ask(u, "DeleteWatchHistory", "idle") EXCEPT !.video = v])

\* ViewHandler.ClearHistory
StartClearHistory(r, u) == Begin(r, Ask(u, "ClearWatchHistory", "idle"))

\* Made or brought up to date; for a video that has gone the foreign key fails.  How
\* far the user has come is left out, which nothing else depends on.
UpsertWatchHistory(r) ==
    /\ Runs(r, "UpsertWatchHistory")
    /\ LET q == req[r] IN
       watched' = IF video[q.video].here THEN watched \cup {<<q.by, q.video>>} ELSE watched
    /\ End(r)
    /\ UNCHANGED <<video, rating, comment, subs, subscribers, playlist, entry, later, notes, report, banned, history>>

\* One entry, or all of the user's.
DeleteWatchHistory(r) ==
    /\ Runs(r, "DeleteWatchHistory") \/ Runs(r, "ClearWatchHistory")
    /\ LET q == req[r] IN
       watched' = watched \ ({q.by} \X Unwatch(q))
    /\ End(r)
    /\ UNCHANGED <<video, rating, comment, subs, subscribers, playlist, entry, later, notes, report, banned, history>>

-----------------------------------------------------------------------------
(* Reports and bans *)

\* ModerationHandler.CreateReport against a video, a user, both or neither.
StartReport(r, u, v, target) ==
    Begin(r, [Ask(u, IF v = NoVideo THEN "CreateReport" ELSE "count", "CreateReport")
                EXCEPT !.video = v, !.user = target])

Reported(u, v) == \E x \in Report : report[x].here /\ report[x].reporter = u /\ report[x].video = v

\* CountByReporterAndVideo: nobody reports a video twice.
ReportCheck(r) ==
    /\ req[r].step = "count"
    /\ Check(r, ~Reported(req[r].by, req[r].video), "CreateReport")

CreateReport(r) ==
    /\ Runs(r, "CreateReport")
    /\ LET q == req[r] IN
       IF q.video # NoVideo => video[q.video].here
       THEN /\ Unused(report, NoReportRow) # {}
            /\ report' = [report EXCEPT ![New(report, NoReportRow)] = [NoReportRow EXCEPT
                  !.here = TRUE, !.reporter = q.by, !.video = q.video, !.user = q.user]]
       ELSE UNCHANGED report
    /\ End(r)
    /\ UNCHANGED <<video, rating, comment, subs, subscribers, playlist, entry, later, watched, notes, banned, history>>

\* ModerationHandler.ReviewReport, behind moderate_content; banning takes
\* manage_users.
StartReview(r, u, x, choice) ==
    /\ May(u, "moderate_content")
    /\ choice \in {"delete_video", "ban_user", "warn_user", "dismiss"}
    /\ choice = "ban_user" => May(u, "manage_users")
    /\ Begin(r, [Ask(u, "report", "idle") EXCEPT !.report = x, !.choice = choice])

\* Mutant of ReviewRead: the report is closed first, then acted upon.
ReviewReadUpdateFirst(r) ==
    /\ req[r].step = "report"
    /\ Check(r, report[req[r].report].here, "UpdateReport")

\* ReviewReport reads the report and turns to what it is about.
ReviewRead(r) ==
    /\ req[r].step = "report"
    /\ LET q == req[r]
           row == report[q.report]
           goto == IF q.choice = "delete_video" /\ row.video # NoVideo THEN "target"
                   ELSE IF q.choice # "ban_user" THEN "UpdateReport"
                   ELSE IF row.user # Nobody THEN "Ban"
                   ELSE IF row.video # NoVideo THEN "target" ELSE "idle"
       IN  req' = [req EXCEPT ![r] = IF row.here /\ goto # "idle"
                      THEN [q EXCEPT !.step = goto, !.user = row.user, !.video = row.video]
                      ELSE Idle]
    /\ UNCHANGED <<tables, held, started, history>>

\* The reported video is looked up, to be deleted or for its owner, if it has one.
ReviewTarget(r) ==
    /\ req[r].step = "target"
    /\ LET q == req[r]
           to == Owner[q.video]
       IN  IF q.choice = "delete_video" THEN Check(r, video[q.video].here, "DeleteVideo")
           ELSE /\ req' = [req EXCEPT ![r] = IF video[q.video].here /\ to # Nobody
                              THEN [q EXCEPT !.step = "Ban", !.user = to] ELSE Idle]
                /\ UNCHANGED <<tables, held, started, history>>

\* ModerationHandler.BanUser: not oneself.
StartBan(r, u, target) ==
    /\ May(u, "manage_users") /\ u # target
    /\ Begin(r, [Ask(u, "Ban", "idle") EXCEPT !.user = target])

StartUnban(r, u, target) ==
    /\ May(u, "manage_users")
    /\ Begin(r, [Ask(u, "Unban", "idle") EXCEPT !.user = target])

\* A review goes on to close its report.
Reviewed(r) ==
    IF req[r].report = NoReport THEN End(r)
    ELSE Done(r, [req[r] EXCEPT !.step = "UpdateReport"])

Ban(r) ==
    /\ Runs(r, "Ban")
    /\ banned' = banned \cup {req[r].user}
    /\ wasBanned' = wasBanned \cup {req[r].user}
    /\ Reviewed(r)
    /\ UNCHANGED <<video, rating, comment, subs, subscribers, playlist, entry, later, watched, notes, report, joined>>

Unban(r) ==
    /\ Runs(r, "Unban")
    /\ banned' = banned \ {req[r].user}
    /\ End(r)
    /\ UNCHANGED <<video, rating, comment, subs, subscribers, playlist, entry, later, watched, notes, report, history>>

\* Resolve or Dismiss, and ReportRepository.Update; a report that has gone with
\* its video is no error.
UpdateReport(r) ==
    /\ Runs(r, "UpdateReport")
    /\ LET q == req[r] IN
       report' = IF ~report[q.report].here THEN report
                 ELSE IF q.choice = "dismiss" THEN [report EXCEPT ![q.report].status = "dismissed"]
                 ELSE [report EXCEPT ![q.report].status = "resolved", ![q.report].action = q.choice]
    /\ End(r)
    /\ UNCHANGED <<video, rating, comment, subs, subscribers, playlist, entry, later, watched, notes, banned, history>>

-----------------------------------------------------------------------------
(* Deleting a video *)

\* VideoHandler.DeleteVideo: the owner, or whoever may delete any video.  The
\* files are the business of VideoPipeline.
StartDeleteVideo(r, u, v) ==
    /\ video[v].here
    /\ Owner[v] = u \/ May(u, "delete_any_video")
    /\ Begin(r, [Ask(u, "DeleteVideo", "idle") EXCEPT !.video = v])

\* The row and everything that refers to it, in one statement.
DeleteVideo(r) ==
    /\ Runs(r, "DeleteVideo")
    /\ LET v == req[r].video
           onIt == {c \in Comment : comment[c].video = v}
       IN  IF video[v].here
           THEN /\ video' = [video EXCEPT ![v].here = FALSE]
                /\ rating' = [x \in DOMAIN rating |-> IF x[2] = v THEN "none" ELSE rating[x]]
                /\ comment' = [c \in Comment |->
                      IF c \in onIt THEN [comment[c] EXCEPT !.here = FALSE] ELSE comment[c]]
                /\ entry' = [x \in DOMAIN entry |-> IF x[2] = v THEN Absent ELSE entry[x]]
                /\ playlist' = [p \in Playlist |->
                      IF entry[<<p, v>>] # Absent THEN [playlist[p] EXCEPT !.count = @ - 1] ELSE playlist[p]]
                /\ later' = {x \in later : x[2] # v}
                /\ watched' = {x \in watched : x[2] # v}
                /\ notes' = {m \in notes : m.video # v}
                /\ report' = [x \in Report |->
                      IF report[x].video = v THEN [report[x] EXCEPT !.here = FALSE] ELSE report[x]]
                /\ Reviewed(r)
           ELSE /\ UNCHANGED <<video, rating, comment, entry, playlist, later, watched, notes, report>>
                /\ End(r)
    /\ UNCHANGED <<subs, subscribers, banned, history>>

-----------------------------------------------------------------------------

\* The database fails a statement to break a deadlock: the request ends.
BreakDeadlock(r) ==
    /\ Deadlocked(r, Waiting)
    /\ End(r)
    /\ UNCHANGED <<tables, history>>

\* The client goes away or a statement fails: what is left of the request, and
\* the transaction it is in, does not happen.
BreakOff(r) ==
    /\ Fails /\ req[r] # Idle
    /\ End(r)
    /\ UNCHANGED <<tables, history>>

-----------------------------------------------------------------------------

Init ==
    /\ video = [v \in Video |-> [here |-> TRUE, likes |-> 0, comments |-> 0]]
    /\ rating = [x \in User \X Video |-> "none"]
    /\ comment = [c \in Comment |-> NoCommentRow]
    /\ subs = {}
    /\ subscribers = [u \in User |-> 0]
    /\ playlist = [p \in Playlist |-> NoPlaylistRow]
    /\ entry = [x \in Playlist \X Video |-> Absent]
    /\ later = {}
    /\ watched = {}
    /\ notes = {}
    /\ report = [x \in Report |-> NoReportRow]
    /\ banned = {}
    /\ req = [r \in Req |-> Idle]
    /\ held = [r \in Req |-> {}]
    /\ started = 0
    /\ joined = [x \in User \X User |-> 0]
    /\ wasBanned = {}

Arrive(r, u) ==
    \/ \E v \in Video :
          \/ \E choice \in Rating : StartSetLike(r, u, v, choice)
          \/ StartRemoveLike(r, u, v)
          \/ \E d \in {c \in Comment : comment[c].here} \cup {NoComment} : StartCreateComment(r, u, v, d)
          \/ StartAddWatchLater(r, u, v) \/ StartRemoveWatchLater(r, u, v)
          \/ StartSaveProgress(r, u, v) \/ StartDeleteHistoryEntry(r, u, v)
          \/ StartDeleteVideo(r, u, v)
    \/ \E c \in {d \in Comment : comment[d].here} : StartUpdateComment(r, u, c) \/ StartDeleteComment(r, u, c)
    \/ \E to \in User :
          \/ StartSubscribe(r, u, to) \/ StartUnsubscribe(r, u, to)
          \/ StartBan(r, u, to) \/ StartUnban(r, u, to)
    \/ \E m \in notes : StartMarkRead(r, u, m)
    \/ StartMarkAllRead(r, u) \/ StartClearHistory(r, u)
    \/ \E visibility \in Visibility : StartCreatePlaylist(r, u, visibility)
    \/ \E p \in {x \in Playlist : playlist[x].here} :
          \/ \E choice \in Choice : StartUpdatePlaylist(r, u, p, choice)
          \/ StartDeletePlaylist(r, u, p)
          \/ \E v \in Video : StartAddPlaylistVideo(r, u, p, v) \/ StartRemovePlaylistVideo(r, u, p, v)
    \/ \E v \in Video \cup {NoVideo}, target \in User \cup {Nobody} : StartReport(r, u, v, target)
    \/ \E x \in {y \in Report : report[y].here}, choice \in Choice : StartReview(r, u, x, choice)

Reads(r) ==
    VideoCheck(r) \/ ParentCheck(r) \/ CommentCheck(r) \/ OwnerCheck(r) \/ PlaylistCheck(r)
    \/ ReportCheck(r) \/ ReviewRead(r) \/ ReviewTarget(r)

Statement(r) ==
    \/ UpsertLike(r) \/ DeleteLike(r)
    \/ CreateComment(r) \/ UpdateComment(r) \/ SoftDelete(r)
    \/ CreateSubscription(r) \/ DeleteSubscription(r)
    \/ Notify(r) \/ MarkRead(r) \/ MarkAllRead(r)
    \/ CreatePlaylist(r) \/ UpdatePlaylist(r) \/ DeletePlaylist(r)
    \/ LockPlaylist(r) \/ AddPlaylistVideo(r) \/ RemovePlaylistVideo(r)
    \/ UpsertWatchLater(r) \/ DeleteWatchLater(r)
    \/ UpsertWatchHistory(r) \/ DeleteWatchHistory(r)
    \/ CreateReport(r) \/ UpdateReport(r) \/ Ban(r) \/ Unban(r)
    \/ DeleteVideo(r)

Proceed(r) == Reads(r) \/ TakeLock(r) \/ Statement(r) \/ BreakDeadlock(r)

Next == \E r \in Req : (\E u \in User : Arrive(r, u)) \/ Proceed(r) \/ BreakOff(r)

\* The server and the database go on with every request; what goes on is seen in the
\* request and in its locks.
Fairness == \A r \in Req : WF_<<req[r], held[r]>>(req[r].step # "idle" /\ Proceed(r))

Spec == Init /\ [][Next]_vars /\ Fairness

-----------------------------------------------------------------------------
(* Properties *)

TypeOK ==
    /\ video \in [Video -> VideoRow]
    /\ rating \in [User \X Video -> Rating]
    /\ comment \in [Comment -> CommentRow]
    /\ subs \subseteq User \X User
    /\ subscribers \in [User -> Int]
    /\ playlist \in [Playlist -> PlaylistRow]
    /\ entry \in [Playlist \X Video -> Int]
    /\ later \subseteq User \X Video
    /\ watched \subseteq User \X Video
    /\ notes \subseteq Note
    /\ report \in [Report -> ReportRow]
    /\ banned \subseteq User
    /\ req \in [Req -> Request]
    /\ started \in 0..MaxRequests
    /\ joined \in [User \X User -> Nat]
    /\ wasBanned \subseteq User
    /\ Exclusive

\* The counters the triggers maintain are what counting anew would give, as the migration
\* that repaired them did: no interleaving of likes that turn, soft deletes, removals and
\* cascades makes one drift.
CountersMatch ==
    /\ \A v \in Video : video[v].here =>
          /\ video[v].likes = Cardinality(ListLikes(v))
          /\ video[v].comments = Cardinality(LiveComments(v))
    /\ \A c \in Comment : comment[c].here => comment[c].replies = Cardinality(ListReplies(c))
    /\ \A u \in User : subscribers[u] = Cardinality(ListSubscribers(u))
    /\ \A p \in Playlist : playlist[p].here => playlist[p].count = Cardinality(ListPlaylistVideos(p))

\* "With the playlist locked, a position collision is impossible": no append
\* about to insert has a position that is in use, so that a unique violation
\* does mean the video is in the playlist already.
AppendsNeverCollide ==
    \A r \in Req : req[r].step = "AddPlaylistVideo" =>
        \A v \in Video : entry[<<req[r].playlist, v>>] # req[r].pos

\* Nothing refers to a video, comment or playlist that has gone, although each
\* is checked by one statement and referred to by a later one, and a reply is on
\* the video of the comment it replies to.
NothingDangles ==
    /\ \A c \in Comment : comment[c].here =>
          /\ video[comment[c].video].here
          /\ LET d == comment[c].parent
             IN  d # NoComment => comment[d].here /\ comment[d].video = comment[c].video
    /\ \A x \in User \X Video : rating[x] # "none" \/ x \in later \/ x \in watched => video[x[2]].here
    /\ \A x \in Playlist \X Video : entry[x] # Absent => playlist[x[1]].here /\ video[x[2]].here
    /\ \A m \in notes : m.video # NoVideo => video[m.video].here /\ comment[m.comment].here
    /\ \A x \in Report : report[x].here /\ report[x].video # NoVideo => video[report[x].video].here

\* Nobody hears of their own actions, a comment is announced to the author
\* replied to or to the video's owner, and a creator is told of a subscriber only
\* as often as the subscription really came into being.
NotesAreEarned ==
    /\ \A m \in notes : /\ m.to # m.actor
                        /\ m.type = "reply" => m.to = comment[comment[m.comment].parent].author
                        /\ m.type = "comment" => m.to = Owner[m.video]
    /\ \A s, u \in User :
          Cardinality({m \in notes : m.type = "subscriber" /\ m.actor = s /\ m.to = u}) <= joined[<<s, u>>]

\* The deed precedes the record of it, whatever breaks off or overlaps: no report that
\* names a video says that it was deleted and is still there, for it goes with the video,
\* and one that says a user was banned is right.  A report that names no video can be
\* resolved as delete_video although nothing was deleted: of such a report nothing is
\* claimed here.
ReviewIsBacked ==
    \A x \in Report : report[x].here /\ report[x].status = "resolved" =>
        /\ report[x].action = "delete_video" => report[x].video = NoVideo
        /\ report[x].action = "ban_user" =>
              (IF report[x].user # Nobody THEN report[x].user ELSE Owner[report[x].video]) \in wasBanned

\* Every request ends, however requests wait for each other's rows: a comment
\* that is deleted while it is replied to, a playlist extended while a video in
\* it is deleted.  Whoever keeps a lock lets it go in the end, whichever way the
\* transaction goes, and of those who wait in a cycle PostgreSQL fails one.
EveryRequestEnds == \A r \in Req : req[r].step # "idle" ~> req[r].step = "idle"
=============================================================================
