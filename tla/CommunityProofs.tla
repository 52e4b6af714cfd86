-------------------------- MODULE CommunityProofs --------------------------
(***************************************************************************)
(* Proofs about Community, for any number of users, videos, comments,      *)
(* playlists, reports and requests.  The safety properties are             *)
(* consequences of CommunityInv, which says what they leave out:           *)
(*   - `Requests`: what a request holds at each of its steps, and what the *)
(*     reads it has made still vouch for (for NothingDangles and           *)
(*     ReviewIsBacked);                                                    *)
(*   - `Rows`: an identity once given away stays with its row;             *)
(*   - `Locks`, `Appending`: who is about to append to a playlist has it   *)
(*     locked and a position of its own (for AppendsNeverCollide);         *)
(*   - `Numbered`, `Earned`: every notification is the work of one request *)
(*     (for NotesAreEarned).                                               *)
(* CountersMatch is the subject of CommunityCounters.                      *)
(***************************************************************************)
EXTENDS Community, FiniteSetTheorems, WellFoundedInduction, TLAPS

-----------------------------------------------------------------------------
(* The inductive invariant *)

Typed ==
    /\ video \in [Video -> VideoRow]
    /\ rating \in [User \X Video -> Rating]
    /\ comment \in [Comment -> CommentRow]
    /\ subs \subseteq User \X User
    /\ subscribers \in [User -> Int]
    /\ playlist \in [Playlist -> PlaylistRow]
    /\ entry \in [Playlist \X Video -> Int]
    /\ later \subseteq User \X Video
    /\ watched \subseteq User \X Video
    /\ notes \subseteq Note
    /\ report \in [Report -> ReportRow]
    /\ banned \subseteq User
    /\ joined \in [User \X User -> Nat]
    /\ wasBanned \subseteq User

\* An identity that has been given away.
Used(c) == comment[c].author # Nobody
Filed(x) == report[x].reporter # Nobody

\* Whom a report may get banned.
Culprit(row) == IF row.user # Nobody THEN row.user ELSE Owner[row.video]

\* Comment c, on video v, is news for `to`.
News(c, v, to, reply, comments) ==
    /\ c \in Comment /\ comments[c].author # Nobody /\ comments[c].video = v
    /\ to = IF reply THEN comments[comments[c].parent].author ELSE Owner[v]
    /\ reply => comments[c].parent \in Comment /\ comments[comments[c].parent].author # Nobody

CommentRows ==
    \A c \in Comment : IF Used(c) THEN comment[c].video \in Video ELSE comment[c] = NoCommentRow

ReportRows == \A x \in Report : ~Filed(x) => report[x] = NoReportRow

NoteRows ==
    \A m \in notes : /\ m.to # m.actor
                     /\ m.type = "subscriber" <=> m.comment = NoComment
                     /\ m.comment = NoComment <=> m.video = NoVideo
                     /\ m.comment # NoComment =>
                           News(m.comment, m.video, m.to, m.type = "reply", comment)

Rows == CommentRows /\ ReportRows /\ NoteRows

\* NothingDangles, table by table.
CommentsPlaced ==
    \A c \in Comment : comment[c].here =>
        /\ video[comment[c].video].here
        /\ comment[c].parent # NoComment =>
              comment[comment[c].parent].here /\ comment[comment[c].parent].video = comment[c].video

MarksPlaced ==
    \A x \in User \X Video : rating[x] # "none" \/ x \in later \/ x \in watched => video[x[2]].here

EntriesPlaced ==
    \A x \in Playlist \X Video : entry[x] # Absent => playlist[x[1]].here /\ video[x[2]].here

NotesPlaced ==
    \A m \in notes : m.video # NoVideo => video[m.video].here /\ comment[m.comment].here

ReportsPlaced ==
    \A x \in Report : report[x].here /\ report[x].video # NoVideo => video[report[x].video].here

Placed == CommentsPlaced /\ MarksPlaced /\ EntriesPlaced /\ NotesPlaced /\ ReportsPlaced

VideoSteps == {"video", "parent", "UpsertLike", "DeleteLike", "CreateComment", "LockPlaylist",
               "AddPlaylistVideo", "RemovePlaylistVideo", "UpsertWatchLater", "DeleteWatchLater",
               "UpsertWatchHistory", "DeleteWatchHistory", "count", "target", "DeleteVideo"}

CommentSteps == {"comment", "owner", "UpdateComment", "SoftDelete"}

PlaylistSteps == {"playlist", "UpdatePlaylist", "DeletePlaylist", "LockPlaylist",
                  "AddPlaylistVideo", "RemovePlaylistVideo"}

UserSteps == {"CreateSubscription", "DeleteSubscription", "Notify", "Ban", "Unban"}

ReviewSteps == {"report", "target", "UpdateReport"}

\* What a request that goes on to `step` must have by then.
Ready(q, step) ==
    /\ step = "UpsertLike" => q.choice \in {"like", "dislike"}
    /\ step = "parent" => q.parent \in Comment
    /\ step = "CreateSubscription" => q.comment = NoComment /\ q.video = NoVideo
    /\ step \in {"CreateSubscription", "Notify"} => q.user # q.by
    /\ step \in {"CreatePlaylist", "UpdatePlaylist"} => q.choice \in Visibility
    /\ step = "LockPlaylist" => q.playlist \in Playlist
    /\ step = "Notify" => (q.comment = NoComment <=> q.video = NoVideo)
    /\ step = "target" => q.choice \in {"delete_video", "ban_user"}

\* What a request asks for is there when a step uses it.
Shape(q) ==
    /\ q.step # "idle" => q.by \in User
    /\ q.step \in VideoSteps => q.video \in Video
    /\ q.step \in CommentSteps => q.comment \in Comment
    /\ q.step \in PlaylistSteps => q.playlist \in Playlist
    /\ q.step \in UserSteps => q.user \in User
    /\ q.step \in ReviewSteps => q.report \in Report
    /\ Ready(q, q.step)
    /\ q.step = "video" =>
          /\ q.next \in {"UpsertLike", "CreateComment", "parent", "LockPlaylist", "UpsertWatchLater"}
          /\ Ready(q, q.next)
          /\ q.next = "CreateComment" => q.parent = NoComment
    /\ q.step = "comment" => q.next \in {"UpdateComment", "SoftDelete"}
    /\ q.step = "playlist" =>
          /\ q.next \in {"UpdatePlaylist", "DeletePlaylist", "video", "RemovePlaylistVideo"}
          /\ q.next \in {"video", "RemovePlaylistVideo"} => q.video \in Video
          /\ q.next = "UpdatePlaylist" => q.choice \in Visibility \cup {"same"}

\* What its reads and statements have established and nobody can undo.
Vouched(q, comments, reports, bans) ==
    /\ q.step = "CreateComment" /\ q.parent # NoComment =>
          comments[q.parent].author # Nobody /\ comments[q.parent].video = q.video
    /\ q.step = "Notify" /\ q.comment # NoComment =>
          News(q.comment, q.video, q.user, q.parent # NoComment, comments)
    /\ q.step \in {"target", "Ban", "DeleteVideo", "UpdateReport"} /\ q.report # NoReport =>
          reports[q.report].reporter # Nobody
    /\ q.step = "target" => reports[q.report].video = q.video
    /\ q.step = "target" /\ q.choice = "ban_user" => reports[q.report].user = Nobody
    /\ q.step = "Ban" /\ q.report # NoReport =>
          q.choice = "ban_user" /\ Culprit(reports[q.report]) = q.user
    /\ q.step = "DeleteVideo" /\ q.report # NoReport =>
          q.choice = "delete_video" /\ reports[q.report].video = q.video
    /\ q.step = "UpdateReport" =>
          /\ q.choice = "delete_video" =>
                ~reports[q.report].here \/ reports[q.report].video = NoVideo
          /\ q.choice = "ban_user" => Culprit(reports[q.report]) \in bans

Good(q, comments, reports, bans) ==
    q \in Request /\ Shape(q) /\ Vouched(q, comments, reports, bans)

Requests == req \in [Req -> Request] /\ \A r \in Req : Good(req[r], comment, report, wasBanned)

Data == Typed /\ Rows /\ Placed /\ ReviewIsBacked

Locks == held = [r \in Req |-> held[r]] /\ Exclusive

Appending ==
    \A r \in Req : req[r].step = "AddPlaylistVideo" =>
        /\ Lock("playlist", req[r].playlist, "delete") \in held[r]
        /\ req[r].pos \in Nat
        /\ \A v \in Video : entry[<<req[r].playlist, v>>] # req[r].pos

Active(r) == req[r].step # "idle"

Numbered ==
    /\ started \in 0..MaxRequests
    /\ \A r \in Req : Active(r) => req[r].n \in 1..started
    /\ \A r, s \in Req : Active(r) /\ Active(s) /\ req[r].n = req[s].n => r = s
    /\ \A m \in notes : m.n <= started
    /\ \A m \in notes, r \in Req : Active(r) => m.n # req[r].n
    /\ \A l, m \in notes : l.n = m.n => l = m

\* The notification u has of, or is still owed for, the subscription of s.
Tells(m, s, u) == m.type = "subscriber" /\ m.actor = s /\ m.to = u
WillTell(q, s, u) == q.step = "Notify" /\ q.comment = NoComment /\ q.by = s /\ q.user = u

\* The requests of which u hears, or is about to hear, that s has subscribed.
Telling(s, u) ==
    {n \in 0..MaxRequests : \/ \E m \in notes : m.n = n /\ Tells(m, s, u)
                            \/ \E r \in Req : req[r].n = n /\ WillTell(req[r], s, u)}

Earned == \A s, u \in User : Cardinality(Telling(s, u)) <= joined[<<s, u>>]

CommunityInv == Data /\ Requests /\ Locks /\ Appending /\ Numbered /\ Earned

-----------------------------------------------------------------------------
(* What no step undoes *)

Lasting ==
    /\ \A c \in Comment : Used(c) =>
          /\ comment'[c].author = comment[c].author
          /\ comment'[c].video = comment[c].video
          /\ comment'[c].parent = comment[c].parent
    /\ \A x \in Report : Filed(x) =>
          /\ report'[x].reporter = report[x].reporter
          /\ report'[x].video = report[x].video
          /\ report'[x].user = report[x].user
          /\ report'[x].here => report[x].here
    /\ wasBanned \subseteq wasBanned'

LEMMA NewsLasts ==
    ASSUME Lasting, NEW c, NEW v, NEW to, NEW reply \in BOOLEAN, News(c, v, to, reply, comment)
    PROVE  News(c, v, to, reply, comment')
  BY DEF Lasting, Used, News

LEMMA GoodLasts ==
    ASSUME Lasting, NEW q, Good(q, comment, report, wasBanned)
    PROVE  Good(q, comment', report', wasBanned')
  <1>1. q \in Request /\ Shape(q) /\ Vouched(q, comment, report, wasBanned)
    BY DEF Good
  <1>2. ASSUME q.step = "CreateComment", q.parent # NoComment
        PROVE  comment'[q.parent].author # Nobody /\ comment'[q.parent].video = q.video
    BY <1>1, <1>2 DEF Vouched, Lasting, Used, Request
  <1>3. ASSUME q.step = "Notify", q.comment # NoComment
        PROVE  News(q.comment, q.video, q.user, q.parent # NoComment, comment')
    BY <1>1, <1>3, NewsLasts DEF Vouched
  <1>4. ASSUME q.step \in {"target", "Ban", "DeleteVideo", "UpdateReport"}, q.report # NoReport
        PROVE  /\ q.report \in Report /\ Filed(q.report)
               /\ report'[q.report].reporter # Nobody
               /\ report'[q.report].video = report[q.report].video
               /\ report'[q.report].user = report[q.report].user
               /\ Culprit(report'[q.report]) = Culprit(report[q.report])
               /\ report'[q.report].here => report[q.report].here
    BY <1>1, <1>4 DEF Vouched, Lasting, Filed, Culprit, Request
  <1>5. q.step \in {"target", "UpdateReport"} => q.report # NoReport
    BY <1>1, CommunityAssumption DEF Shape, ReviewSteps
  <1>6. Vouched(q, comment', report', wasBanned')
    BY <1>1, <1>2, <1>3, <1>4, <1>5 DEF Vouched, Lasting
  <1> QED  BY <1>1, <1>6 DEF Good

-----------------------------------------------------------------------------
(* Requests *)

Becomes(r, q) == req' = [req EXCEPT ![r] = q]

LEMMA BecomesGood ==
    ASSUME Requests, Lasting, NEW r \in Req, NEW q, Becomes(r, q),
           Good(q, comment', report', wasBanned')
    PROVE  Requests'
  <1>1. req' \in [Req -> Request]
    BY DEF Requests, Becomes, Good
  <1>2. ASSUME NEW s \in Req  PROVE Good(req'[s], comment', report', wasBanned')
    <2>1. CASE s = r  BY <2>1 DEF Requests, Becomes
    <2>2. CASE s # r
      <3>1. req'[s] = req[s]  BY <2>2 DEF Requests, Becomes
      <3> QED  BY <3>1, GoodLasts DEF Requests
    <2> QED  BY <2>1, <2>2
  <1> QED  BY <1>1, <1>2 DEF Requests

LEMMA IdleGood ==
    ASSUME NEW comments, NEW reports, NEW bans
    PROVE  Good(Idle, comments, reports, bans)
  <1>1. Idle \in Request /\ Idle.step = "idle"
    BY CommunityAssumption DEF Idle, Request, Step, Choice
  <1>2. Shape(Idle)
    BY <1>1 DEF Shape, Ready, VideoSteps, CommentSteps, PlaylistSteps, UserSteps, ReviewSteps
  <1> QED  BY <1>1, <1>2 DEF Good, Vouched

\* One that ends is idle.
LEMMA EndGood ==
    ASSUME Requests, Lasting, NEW r \in Req, Becomes(r, Idle)
    PROVE  Requests'
  BY IdleGood, BecomesGood

\* One that keeps what it has.
LEMMA StayGood ==
    ASSUME Requests, Lasting, UNCHANGED req
    PROVE  Requests'
  BY GoodLasts DEF Requests

\* A request that has read nothing yet.
Fresh(q) ==
    /\ q \in Request /\ Shape(q)
    /\ q.step \notin {"idle", "Notify", "target", "UpdateReport", "AddPlaylistVideo"}
    /\ q.step = "CreateComment" => q.parent = NoComment
    /\ q.step \in {"Ban", "DeleteVideo"} => q.report = NoReport

LEMMA BeginGood ==
    ASSUME Requests, started \in 0..MaxRequests, NEW r \in Req, NEW q, Fresh(q), Begin(r, q)
    PROVE  Requests' /\ Lasting
  <1> DEFINE p == [q EXCEPT !.n = started + 1]
  <1>1. started + 1 \in 0..MaxRequests
    BY CommunityAssumption DEF Begin
  <1>2. /\ p \in Request /\ p.step = q.step /\ p.next = q.next /\ p.by = q.by /\ p.user = q.user
        /\ p.video = q.video /\ p.comment = q.comment /\ p.parent = q.parent
        /\ p.playlist = q.playlist /\ p.report = q.report /\ p.choice = q.choice
    BY <1>1 DEF Request, Fresh
  <1>3. Becomes(r, p) /\ UNCHANGED <<comment, report, wasBanned>>
    BY DEF Begin, Becomes, tables, history
  <1> HIDE DEF p
  <1>4. Shape(p)
    BY <1>2 DEF Fresh, Shape, Ready
  <1>5. Vouched(p, comment', report', wasBanned')
    BY <1>2 DEF Fresh, Vouched
  <1>6. Lasting
    BY <1>3 DEF Lasting
  <1> QED  BY <1>2, <1>3, <1>4, <1>5, <1>6, BecomesGood DEF Good

LEMMA AskFields ==
    ASSUME NEW u \in User, NEW step \in Step, NEW next \in Step
    PROVE  /\ Ask(u, step, next) \in Request
           /\ Ask(u, step, next).by = u
           /\ Ask(u, step, next).step = step
           /\ Ask(u, step, next).next = next
           /\ Ask(u, step, next).comment = NoComment
           /\ Ask(u, step, next).video = NoVideo
           /\ Ask(u, step, next).report = NoReport
  <1>1. Idle \in Request
    BY IdleGood DEF Good
  <1> QED  BY <1>1 DEF Ask, Idle, Request

LEMMA ArriveFresh ==
    ASSUME Typed, NEW r \in Req, NEW u \in User, Arrive(r, u)
    PROVE  \E q : Fresh(q) /\ Begin(r, q)
  <1> USE DEF Shape, Ready, VideoSteps, CommentSteps, PlaylistSteps, UserSteps, ReviewSteps
  <1>0. /\ {"video", "comment", "playlist", "count", "report", "idle", "parent"} \subseteq Step
        /\ {"UpsertLike", "DeleteLike", "CreateComment", "UpdateComment", "SoftDelete",
            "CreateSubscription", "DeleteSubscription", "CreatePlaylist", "UpdatePlaylist",
            "DeletePlaylist", "RemovePlaylistVideo", "UpsertWatchLater", "DeleteWatchLater",
            "UpsertWatchHistory", "DeleteWatchHistory", "ClearWatchHistory", "MarkRead",
            "MarkAllRead", "CreateReport", "Ban", "Unban", "DeleteVideo"} \subseteq Step
        /\ Rating \subseteq Choice /\ Visibility \subseteq Choice
    BY DEF Step, Choice
  <1>1. ASSUME NEW v \in Video, NEW choice \in Rating, StartSetLike(r, u, v, choice)
        PROVE  \E q : Fresh(q) /\ Begin(r, q)
    <2> DEFINE p0 == Ask(u, "video", "UpsertLike")
               q == [p0 EXCEPT !.video = v, !.choice = choice]
    <2>1. p0 \in Request /\ p0.by = u /\ p0.step = "video" /\ p0.next = "UpsertLike"
      BY <1>0, AskFields
    <2> HIDE DEF p0
    <2>2. q \in Request /\ q.by = u /\ q.step = p0.step /\ q.next = p0.next /\ q.video = v /\ q.choice = choice
      BY <1>0, <2>1 DEF Request
    <2> HIDE DEF q
    <2>3. Begin(r, q) /\ choice \in {"like", "dislike"}
      BY <1>1 DEF StartSetLike, q, p0
    <2>4. Fresh(q)
      BY <2>1, <2>2, <2>3 DEF Fresh
    <2> QED  BY <2>3, <2>4
  <1>2. ASSUME NEW v \in Video, StartRemoveLike(r, u, v)
        PROVE  \E q : Fresh(q) /\ Begin(r, q)
    <2> DEFINE p0 == Ask(u, "DeleteLike", "idle")
               q == [p0 EXCEPT !.video = v]
    <2>1. p0 \in Request /\ p0.by = u /\ p0.step = "DeleteLike" /\ p0.next = "idle"
      BY <1>0, AskFields
    <2> HIDE DEF p0
    <2>2. q \in Request /\ q.by = u /\ q.step = p0.step /\ q.next = p0.next /\ q.video = v
      BY <2>1 DEF Request
    <2> HIDE DEF q
    <2>3. Begin(r, q)
      BY <1>2 DEF StartRemoveLike, q, p0
    <2>4. Fresh(q)
      BY <2>1, <2>2, <2>3 DEF Fresh
    <2> QED  BY <2>3, <2>4
  <1>3. ASSUME NEW v \in Video, NEW d \in Comment \cup {NoComment}, StartCreateComment(r, u, v, d)
        PROVE  \E q : Fresh(q) /\ Begin(r, q)
    <2> DEFINE to == IF d = NoComment THEN "CreateComment" ELSE "parent"
    <2>0. to \in Step
      BY <1>0
    <2> HIDE DEF to
    <2> DEFINE p0 == Ask(u, "video", to)
               q == [p0 EXCEPT !.video = v, !.parent = d]
    <2>1. p0 \in Request /\ p0.by = u /\ p0.step = "video" /\ p0.next = to
      BY <1>0, <2>0, AskFields
    <2> HIDE DEF p0
    <2>2. q \in Request /\ q.by = u /\ q.step = p0.step /\ q.next = p0.next /\ q.video = v /\ q.parent = d
      BY <2>1 DEF Request
    <2> HIDE DEF q
    <2>3. Begin(r, q)
      BY <1>3 DEF StartCreateComment, q, p0, to
    <2>4. Fresh(q)
      BY <2>1, <2>2, <2>3 DEF Fresh, to
    <2> QED  BY <2>3, <2>4
  <1>4. ASSUME NEW v \in Video, StartAddWatchLater(r, u, v)
        PROVE  \E q : Fresh(q) /\ Begin(r, q)
    <2> DEFINE p0 == Ask(u, "video", "UpsertWatchLater")
               q == [p0 EXCEPT !.video = v]
    <2>1. p0 \in Request /\ p0.by = u /\ p0.step = "video" /\ p0.next = "UpsertWatchLater"
      BY <1>0, AskFields
    <2> HIDE DEF p0
    <2>2. q \in Request /\ q.by = u /\ q.step = p0.step /\ q.next = p0.next /\ q.video = v
      BY <2>1 DEF Request
    <2> HIDE DEF q
    <2>3. Begin(r, q)
      BY <1>4 DEF StartAddWatchLater, q, p0
    <2>4. Fresh(q)
      BY <2>1, <2>2, <2>3 DEF Fresh
    <2> QED  BY <2>3, <2>4
  <1>5. ASSUME NEW v \in Video, StartRemoveWatchLater(r, u, v)
        PROVE  \E q : Fresh(q) /\ Begin(r, q)
    <2> DEFINE p0 == Ask(u, "DeleteWatchLater", "idle")
               q == [p0 EXCEPT !.video = v]
    <2>1. p0 \in Request /\ p0.by = u /\ p0.step = "DeleteWatchLater" /\ p0.next = "idle"
      BY <1>0, AskFields
    <2> HIDE DEF p0
    <2>2. q \in Request /\ q.by = u /\ q.step = p0.step /\ q.next = p0.next /\ q.video = v
      BY <2>1 DEF Request
    <2> HIDE DEF q
    <2>3. Begin(r, q)
      BY <1>5 DEF StartRemoveWatchLater, q, p0
    <2>4. Fresh(q)
      BY <2>1, <2>2, <2>3 DEF Fresh
    <2> QED  BY <2>3, <2>4
  <1>6. ASSUME NEW v \in Video, StartSaveProgress(r, u, v)
        PROVE  \E q : Fresh(q) /\ Begin(r, q)
    <2> DEFINE p0 == Ask(u, "UpsertWatchHistory", "idle")
               q == [p0 EXCEPT !.video = v]
    <2>1. p0 \in Request /\ p0.by = u /\ p0.step = "UpsertWatchHistory" /\ p0.next = "idle"
      BY <1>0, AskFields
    <2> HIDE DEF p0
    <2>2. q \in Request /\ q.by = u /\ q.step = p0.step /\ q.next = p0.next /\ q.video = v
      BY <2>1 DEF Request
    <2> HIDE DEF q
    <2>3. Begin(r, q)
      BY <1>6 DEF StartSaveProgress, q, p0
    <2>4. Fresh(q)
      BY <2>1, <2>2, <2>3 DEF Fresh
    <2> QED  BY <2>3, <2>4
  <1>7. ASSUME NEW v \in Video, StartDeleteHistoryEntry(r, u, v)
        PROVE  \E q : Fresh(q) /\ Begin(r, q)
    <2> DEFINE p0 == Ask(u, "DeleteWatchHistory", "idle")
               q == [p0 EXCEPT !.video = v]
    <2>1. p0 \in Request /\ p0.by = u /\ p0.step = "DeleteWatchHistory" /\ p0.next = "idle"
      BY <1>0, AskFields
    <2> HIDE DEF p0
    <2>2. q \in Request /\ q.by = u /\ q.step = p0.step /\ q.next = p0.next /\ q.video = v
      BY <2>1 DEF Request
    <2> HIDE DEF q
    <2>3. Begin(r, q)
      BY <1>7 DEF StartDeleteHistoryEntry, q, p0
    <2>4. Fresh(q)
      BY <2>1, <2>2, <2>3 DEF Fresh
    <2> QED  BY <2>3, <2>4
  <1>8. ASSUME NEW v \in Video, StartDeleteVideo(r, u, v)
        PROVE  \E q : Fresh(q) /\ Begin(r, q)
    <2> DEFINE p0 == Ask(u, "DeleteVideo", "idle")
               q == [p0 EXCEPT !.video = v]
    <2>1. p0 \in Request /\ p0.by = u /\ p0.step = "DeleteVideo" /\ p0.next = "idle" /\ p0.report = NoReport
      BY <1>0, AskFields
    <2> HIDE DEF p0
    <2>2. q \in Request /\ q.by = u /\ q.step = p0.step /\ q.next = p0.next /\ q.video = v /\ q.report = NoReport
      BY <2>1 DEF Request
    <2> HIDE DEF q
    <2>3. Begin(r, q)
      BY <1>8 DEF StartDeleteVideo, q, p0
    <2>4. Fresh(q)
      BY <2>1, <2>2, <2>3 DEF Fresh
    <2> QED  BY <2>3, <2>4
  <1>9. ASSUME NEW c \in Comment, StartUpdateComment(r, u, c)
        PROVE  \E q : Fresh(q) /\ Begin(r, q)
    <2> DEFINE p0 == Ask(u, "comment", "UpdateComment")
               q == [p0 EXCEPT !.comment = c]
    <2>1. p0 \in Request /\ p0.by = u /\ p0.step = "comment" /\ p0.next = "UpdateComment"
      BY <1>0, AskFields
    <2> HIDE DEF p0
    <2>2. q \in Request /\ q.by = u /\ q.step = p0.step /\ q.next = p0.next /\ q.comment = c
      BY <2>1 DEF Request
    <2> HIDE DEF q
    <2>3. Begin(r, q)
      BY <1>9 DEF StartUpdateComment, q, p0
    <2>4. Fresh(q)
      BY <2>1, <2>2, <2>3 DEF Fresh
    <2> QED  BY <2>3, <2>4
  <1>10. ASSUME NEW c \in Comment, StartDeleteComment(r, u, c)
        PROVE  \E q : Fresh(q) /\ Begin(r, q)
    <2> DEFINE p0 == Ask(u, "comment", "SoftDelete")
               q == [p0 EXCEPT !.comment = c]
    <2>1. p0 \in Request /\ p0.by = u /\ p0.step = "comment" /\ p0.next = "SoftDelete"
      BY <1>0, AskFields
    <2> HIDE DEF p0
    <2>2. q \in Request /\ q.by = u /\ q.step = p0.step /\ q.next = p0.next /\ q.comment = c
      BY <2>1 DEF Request
    <2> HIDE DEF q
    <2>3. Begin(r, q)
      BY <1>10 DEF StartDeleteComment, q, p0
    <2>4. Fresh(q)
      BY <2>1, <2>2, <2>3 DEF Fresh
    <2> QED  BY <2>3, <2>4
  <1>11. ASSUME NEW to \in User, StartSubscribe(r, u, to)
        PROVE  \E q : Fresh(q) /\ Begin(r, q)
    <2> DEFINE p0 == Ask(u, "CreateSubscription", "idle")
               q == [p0 EXCEPT !.user = to]
    <2>1. p0 \in Request /\ p0.by = u /\ p0.step = "CreateSubscription" /\ p0.next = "idle" /\ p0.comment = NoComment /\ p0.video = NoVideo
      BY <1>0, AskFields
    <2> HIDE DEF p0
    <2>2. q \in Request /\ q.by = u /\ q.step = p0.step /\ q.next = p0.next /\ q.user = to /\ q.comment = NoComment /\ q.video = NoVideo
      BY <2>1 DEF Request
    <2> HIDE DEF q
    <2>3. Begin(r, q) /\ u # to
      BY <1>11 DEF StartSubscribe, q, p0
    <2>4. Fresh(q)
      BY <2>1, <2>2, <2>3 DEF Fresh
    <2> QED  BY <2>3, <2>4
  <1>12. ASSUME NEW to \in User, StartUnsubscribe(r, u, to)
        PROVE  \E q : Fresh(q) /\ Begin(r, q)
    <2> DEFINE p0 == Ask(u, "DeleteSubscription", "idle")
               q == [p0 EXCEPT !.user = to]
    <2>1. p0 \in Request /\ p0.by = u /\ p0.step = "DeleteSubscription" /\ p0.next = "idle"
      BY <1>0, AskFields
    <2> HIDE DEF p0
    <2>2. q \in Request /\ q.by = u /\ q.step = p0.step /\ q.next = p0.next /\ q.user = to
      BY <2>1 DEF Request
    <2> HIDE DEF q
    <2>3. Begin(r, q)
      BY <1>12 DEF StartUnsubscribe, q, p0
    <2>4. Fresh(q)
      BY <2>1, <2>2, <2>3 DEF Fresh
    <2> QED  BY <2>3, <2>4
  <1>13. ASSUME NEW to \in User, StartBan(r, u, to)
        PROVE  \E q : Fresh(q) /\ Begin(r, q)
    <2> DEFINE p0 == Ask(u, "Ban", "idle")
               q == [p0 EXCEPT !.user = to]
    <2>1. p0 \in Request /\ p0.by = u /\ p0.step = "Ban" /\ p0.next = "idle" /\ p0.report = NoReport
      BY <1>0, AskFields
    <2> HIDE DEF p0
    <2>2. q \in Request /\ q.by = u /\ q.step = p0.step /\ q.next = p0.next /\ q.user = to /\ q.report = NoReport
      BY <2>1 DEF Request
    <2> HIDE DEF q
    <2>3. Begin(r, q)
      BY <1>13 DEF StartBan, q, p0
    <2>4. Fresh(q)
      BY <2>1, <2>2, <2>3 DEF Fresh
    <2> QED  BY <2>3, <2>4
  <1>14. ASSUME NEW to \in User, StartUnban(r, u, to)
        PROVE  \E q : Fresh(q) /\ Begin(r, q)
    <2> DEFINE p0 == Ask(u, "Unban", "idle")
               q == [p0 EXCEPT !.user = to]
    <2>1. p0 \in Request /\ p0.by = u /\ p0.step = "Unban" /\ p0.next = "idle"
      BY <1>0, AskFields
    <2> HIDE DEF p0
    <2>2. q \in Request /\ q.by = u /\ q.step = p0.step /\ q.next = p0.next /\ q.user = to
      BY <2>1 DEF Request
    <2> HIDE DEF q
    <2>3. Begin(r, q)
      BY <1>14 DEF StartUnban, q, p0
    <2>4. Fresh(q)
      BY <2>1, <2>2, <2>3 DEF Fresh
    <2> QED  BY <2>3, <2>4
  <1>15. ASSUME NEW m \in notes, StartMarkRead(r, u, m)
        PROVE  \E q : Fresh(q) /\ Begin(r, q)
    <2> DEFINE p0 == Ask(u, "MarkRead", "idle")
               q == [p0 EXCEPT !.pos = m.n]
    <2>1. p0 \in Request /\ p0.by = u /\ p0.step = "MarkRead" /\ p0.next = "idle"
      BY <1>0, AskFields
    <2> HIDE DEF p0
    <2>2. q \in Request /\ q.by = u /\ q.step = p0.step /\ q.next = p0.next /\ q.pos = m.n
      BY <2>1 DEF Request, Typed, Note
    <2> HIDE DEF q
    <2>3. Begin(r, q)
      BY <1>15 DEF StartMarkRead, q, p0
    <2>4. Fresh(q)
      BY <2>1, <2>2, <2>3 DEF Fresh
    <2> QED  BY <2>3, <2>4
  <1>16. ASSUME StartMarkAllRead(r, u)
        PROVE  \E q : Fresh(q) /\ Begin(r, q)
    <2> DEFINE p0 == Ask(u, "MarkAllRead", "idle")
               q == p0
    <2>1. p0 \in Request /\ p0.by = u /\ p0.step = "MarkAllRead" /\ p0.next = "idle"
      BY <1>0, AskFields
    <2> HIDE DEF p0
    <2>2. q \in Request /\ q.by = u /\ q.step = p0.step /\ q.next = p0.next
      BY <2>1 DEF Request
    <2> HIDE DEF q
    <2>3. Begin(r, q)
      BY <1>16 DEF StartMarkAllRead, q, p0
    <2>4. Fresh(q)
      BY <2>1, <2>2, <2>3 DEF Fresh
    <2> QED  BY <2>3, <2>4
  <1>17. ASSUME StartClearHistory(r, u)
        PROVE  \E q : Fresh(q) /\ Begin(r, q)
    <2> DEFINE p0 == Ask(u, "ClearWatchHistory", "idle")
               q == p0
    <2>1. p0 \in Request /\ p0.by = u /\ p0.step = "ClearWatchHistory" /\ p0.next = "idle"
      BY <1>0, AskFields
    <2> HIDE DEF p0
    <2>2. q \in Request /\ q.by = u /\ q.step = p0.step /\ q.next = p0.next
      BY <2>1 DEF Request
    <2> HIDE DEF q
    <2>3. Begin(r, q)
      BY <1>17 DEF StartClearHistory, q, p0
    <2>4. Fresh(q)
      BY <2>1, <2>2, <2>3 DEF Fresh
    <2> QED  BY <2>3, <2>4
  <1>18. ASSUME NEW visibility \in Visibility, StartCreatePlaylist(r, u, visibility)
        PROVE  \E q : Fresh(q) /\ Begin(r, q)
    <2> DEFINE p0 == Ask(u, "CreatePlaylist", "idle")
               q == [p0 EXCEPT !.choice = visibility]
    <2>1. p0 \in Request /\ p0.by = u /\ p0.step = "CreatePlaylist" /\ p0.next = "idle"
      BY <1>0, AskFields
    <2> HIDE DEF p0
    <2>2. q \in Request /\ q.by = u /\ q.step = p0.step /\ q.next = p0.next /\ q.choice = visibility
      BY <1>0, <2>1 DEF Request
    <2> HIDE DEF q
    <2>3. Begin(r, q)
      BY <1>18 DEF StartCreatePlaylist, q, p0
    <2>4. Fresh(q)
      BY <2>1, <2>2, <2>3 DEF Fresh
    <2> QED  BY <2>3, <2>4
  <1>19. ASSUME NEW p \in Playlist, NEW choice \in Choice, StartUpdatePlaylist(r, u, p, choice)
        PROVE  \E q : Fresh(q) /\ Begin(r, q)
    <2> DEFINE p0 == Ask(u, "playlist", "UpdatePlaylist")
               q == [p0 EXCEPT !.playlist = p, !.choice = choice]
    <2>1. p0 \in Request /\ p0.by = u /\ p0.step = "playlist" /\ p0.next = "UpdatePlaylist"
      BY <1>0, AskFields
    <2> HIDE DEF p0
    <2>2. q \in Request /\ q.by = u /\ q.step = p0.step /\ q.next = p0.next /\ q.playlist = p /\ q.choice = choice
      BY <1>0, <2>1 DEF Request
    <2> HIDE DEF q
    <2>3. Begin(r, q) /\ choice \in Visibility \cup {"same"}
      BY <1>19 DEF StartUpdatePlaylist, q, p0
    <2>4. Fresh(q)
      BY <2>1, <2>2, <2>3 DEF Fresh
    <2> QED  BY <2>3, <2>4
  <1>20. ASSUME NEW p \in Playlist, StartDeletePlaylist(r, u, p)
        PROVE  \E q : Fresh(q) /\ Begin(r, q)
    <2> DEFINE p0 == Ask(u, "playlist", "DeletePlaylist")
               q == [p0 EXCEPT !.playlist = p]
    <2>1. p0 \in Request /\ p0.by = u /\ p0.step = "playlist" /\ p0.next = "DeletePlaylist"
      BY <1>0, AskFields
    <2> HIDE DEF p0
    <2>2. q \in Request /\ q.by = u /\ q.step = p0.step /\ q.next = p0.next /\ q.playlist = p
      BY <2>1 DEF Request
    <2> HIDE DEF q
    <2>3. Begin(r, q)
      BY <1>20 DEF StartDeletePlaylist, q, p0
    <2>4. Fresh(q)
      BY <2>1, <2>2, <2>3 DEF Fresh
    <2> QED  BY <2>3, <2>4
  <1>21. ASSUME NEW p \in Playlist, NEW v \in Video, StartAddPlaylistVideo(r, u, p, v)
        PROVE  \E q : Fresh(q) /\ Begin(r, q)
    <2> DEFINE p0 == Ask(u, "playlist", "video")
               q == [p0 EXCEPT !.playlist = p, !.video = v]
    <2>1. p0 \in Request /\ p0.by = u /\ p0.step = "playlist" /\ p0.next = "video"
      BY <1>0, AskFields
    <2> HIDE DEF p0
    <2>2. q \in Request /\ q.by = u /\ q.step = p0.step /\ q.next = p0.next /\ q.playlist = p /\ q.video = v
      BY <2>1 DEF Request
    <2> HIDE DEF q
    <2>3. Begin(r, q)
      BY <1>21 DEF StartAddPlaylistVideo, q, p0
    <2>4. Fresh(q)
      BY <2>1, <2>2, <2>3 DEF Fresh
    <2> QED  BY <2>3, <2>4
  <1>22. ASSUME NEW p \in Playlist, NEW v \in Video, StartRemovePlaylistVideo(r, u, p, v)
        PROVE  \E q : Fresh(q) /\ Begin(r, q)
    <2> DEFINE p0 == Ask(u, "playlist", "RemovePlaylistVideo")
               q == [p0 EXCEPT !.playlist = p, !.video = v]
    <2>1. p0 \in Request /\ p0.by = u /\ p0.step = "playlist" /\ p0.next = "RemovePlaylistVideo"
      BY <1>0, AskFields
    <2> HIDE DEF p0
    <2>2. q \in Request /\ q.by = u /\ q.step = p0.step /\ q.next = p0.next /\ q.playlist = p /\ q.video = v
      BY <2>1 DEF Request
    <2> HIDE DEF q
    <2>3. Begin(r, q)
      BY <1>22 DEF StartRemovePlaylistVideo, q, p0
    <2>4. Fresh(q)
      BY <2>1, <2>2, <2>3 DEF Fresh
    <2> QED  BY <2>3, <2>4
  <1>23. ASSUME NEW v \in Video \cup {NoVideo}, NEW target \in User \cup {Nobody}, StartReport(r, u, v, target)
        PROVE  \E q : Fresh(q) /\ Begin(r, q)
    <2> DEFINE to == IF v = NoVideo THEN "CreateReport" ELSE "count"
    <2>0. to \in Step
      BY <1>0
    <2> HIDE DEF to
    <2> DEFINE p0 == Ask(u, to, "CreateReport")
               q == [p0 EXCEPT !.video = v, !.user = target]
    <2>1. p0 \in Request /\ p0.by = u /\ p0.step = to /\ p0.next = "CreateReport"
      BY <1>0, <2>0, AskFields
    <2> HIDE DEF p0
    <2>2. q \in Request /\ q.by = u /\ q.step = p0.step /\ q.next = p0.next /\ q.video = v /\ q.user = target
      BY <2>1 DEF Request
    <2> HIDE DEF q
    <2>3. Begin(r, q)
      BY <1>23 DEF StartReport, q, p0, to
    <2>4. Fresh(q)
      BY <2>1, <2>2, <2>3 DEF Fresh, to
    <2> QED  BY <2>3, <2>4
  <1>24. ASSUME NEW x \in Report, NEW choice \in Choice, StartReview(r, u, x, choice)
        PROVE  \E q : Fresh(q) /\ Begin(r, q)
    <2> DEFINE p0 == Ask(u, "report", "idle")
               q == [p0 EXCEPT !.report = x, !.choice = choice]
    <2>1. p0 \in Request /\ p0.by = u /\ p0.step = "report" /\ p0.next = "idle"
      BY <1>0, AskFields
    <2> HIDE DEF p0
    <2>2. q \in Request /\ q.by = u /\ q.step = p0.step /\ q.next = p0.next /\ q.report = x /\ q.choice = choice
      BY <1>0, <2>1 DEF Request
    <2> HIDE DEF q
    <2>3. Begin(r, q)
      BY <1>24 DEF StartReview, q, p0
    <2>4. Fresh(q)
      BY <2>1, <2>2, <2>3 DEF Fresh
    <2> QED  BY <2>3, <2>4
  <1> QED
    BY <1>1, <1>2, <1>3, <1>4, <1>5, <1>6, <1>7, <1>8, <1>9, <1>10, <1>11, <1>12, <1>13, <1>14, <1>15, <1>16, <1>17, <1>18, <1>19, <1>20, <1>21, <1>22, <1>23, <1>24 DEF Arrive

-----------------------------------------------------------------------------
(* Reads *)

\* A request goes on as q, or ends.
GoesOn(r, q) ==
    /\ Becomes(r, q) /\ Good(q, comment, report, wasBanned)
    /\ q.step # "idle" => q.n = req[r].n /\ req[r].step # "idle"
    /\ q.step \notin {"Notify", "AddPlaylistVideo"}

LEMMA StepFields ==
    ASSUME NEW q \in Request, NEW step \in Step
    PROVE  /\ [q EXCEPT !.step = step] \in Request
           /\ [q EXCEPT !.step = step].step = step
           /\ [q EXCEPT !.step = step].next = q.next
           /\ [q EXCEPT !.step = step].by = q.by
           /\ [q EXCEPT !.step = step].user = q.user
           /\ [q EXCEPT !.step = step].video = q.video
           /\ [q EXCEPT !.step = step].comment = q.comment
           /\ [q EXCEPT !.step = step].parent = q.parent
           /\ [q EXCEPT !.step = step].playlist = q.playlist
           /\ [q EXCEPT !.step = step].report = q.report
           /\ [q EXCEPT !.step = step].choice = q.choice
           /\ [q EXCEPT !.step = step].n = q.n
  BY DEF Request

LEMMA IdleGoesOn ==
    ASSUME NEW r \in Req, Becomes(r, Idle)
    PROVE  GoesOn(r, Idle)
  BY IdleGood DEF GoesOn, Idle

\* A check that succeeds leads to a step the request is ready for.
LEMMA CheckGoesOn ==
    ASSUME Requests, NEW r \in Req, NEW ok \in BOOLEAN, NEW step \in Step, Check(r, ok, step),
           req[r].step # "idle", step \notin {"Notify", "AddPlaylistVideo"},
           ok => Shape([req[r] EXCEPT !.step = step])
                 /\ Vouched([req[r] EXCEPT !.step = step], comment, report, wasBanned)
    PROVE  \E q : GoesOn(r, q)
  <1>1. CASE ok
    <2> DEFINE q == [req[r] EXCEPT !.step = step]
    <2>1. Becomes(r, q)  BY <1>1 DEF Check, Becomes, Requests
    <2>2. q \in Request /\ q.step = step /\ q.n = req[r].n  BY StepFields DEF Requests
    <2> HIDE DEF q
    <2> QED  BY <1>1, <2>1, <2>2 DEF GoesOn, Good, q
  <1>2. CASE ~ok
    <2>1. Becomes(r, Idle)  BY <1>2 DEF Check, Becomes
    <2> QED  BY <2>1, IdleGoesOn
  <1> QED  BY <1>1, <1>2

LEMMA HereUsed ==
    ASSUME Rows
    PROVE  /\ \A c \in Comment : comment[c].here => Used(c)
           /\ \A x \in Report : report[x].here => Filed(x)
  <1>1. ~NoCommentRow.here /\ ~NoReportRow.here
    BY DEF NoCommentRow, NoReportRow
  <1>2. ASSUME NEW c \in Comment, ~Used(c)  PROVE comment[c] = NoCommentRow
    BY <1>2 DEF Rows, CommentRows
  <1>3. ASSUME NEW x \in Report, ~Filed(x)  PROVE report[x] = NoReportRow
    BY <1>3 DEF Rows, ReportRows
  <1> QED  BY <1>1, <1>2, <1>3

LEMMA VideoCheckGood ==
    ASSUME Data, Requests, NEW r \in Req, VideoCheck(r)
    PROVE  \E q : GoesOn(r, q)
  <1> DEFINE old == req[r]
             q == [old EXCEPT !.step = old.next]
  <1>1. old \in Request /\ Shape(old) /\ old.step = "video"
    BY DEF Requests, Good, VideoCheck
  <1>2. old.next \in {"UpsertLike", "CreateComment", "parent", "LockPlaylist", "UpsertWatchLater"}
    BY <1>1 DEF Shape
  <1>3. video[old.video].here \in BOOLEAN
    BY <1>1 DEF Data, Typed, VideoRow, Shape, VideoSteps
  <1>4. /\ q.step = old.next /\ q.by = old.by /\ q.video = old.video /\ q.parent = old.parent
        /\ q.playlist = old.playlist /\ q.choice = old.choice
    BY <1>1, StepFields DEF Request
  <1> HIDE DEF q
  <1>5. Shape(q)
    BY <1>1, <1>2, <1>4
       DEF Shape, Ready, VideoSteps, CommentSteps, PlaylistSteps, UserSteps, ReviewSteps
  <1>6. Vouched(q, comment, report, wasBanned)
    BY <1>1, <1>2, <1>4 DEF Shape, Vouched
  <1>7. old.next \in Step  BY <1>1 DEF Request
  <1> QED  BY <1>1, <1>2, <1>3, <1>5, <1>6, <1>7, CheckGoesOn DEF VideoCheck, q

LEMMA ParentCheckGood ==
    ASSUME Data, Requests, NEW r \in Req, ParentCheck(r)
    PROVE  \E q : GoesOn(r, q)
  <1> DEFINE old == req[r]
             d == old.parent
             ok == Live(d) /\ comment[d].video = old.video
             q == [old EXCEPT !.step = "CreateComment"]
  <1>1. old \in Request /\ Shape(old) /\ old.step = "parent" /\ Check(r, ok, "CreateComment")
    BY DEF Requests, Good, ParentCheck
  <1>2. d \in Comment /\ old.video \in Video /\ old.by \in User
    BY <1>1 DEF Shape, Ready, VideoSteps
  <1>3. ok \in BOOLEAN /\ (ok => Used(d))
    BY <1>2, HereUsed DEF Live, Data, Typed, CommentRow
  <1>4. "CreateComment" \in Step  BY DEF Step
  <1>5. /\ q.step = "CreateComment" /\ q.by = old.by /\ q.video = old.video /\ q.parent = d
    BY <1>1, <1>4, StepFields
  <1> HIDE DEF q
  <1>6. Shape(q)
    BY <1>2, <1>5 DEF Shape, Ready, VideoSteps, CommentSteps, PlaylistSteps, UserSteps, ReviewSteps
  <1>7. ok => Vouched(q, comment, report, wasBanned)
    BY <1>3, <1>5 DEF Vouched, Used
  <1> HIDE DEF ok
  <1> QED  BY <1>1, <1>3, <1>4, <1>6, <1>7, CheckGoesOn DEF q

LEMMA CommentCheckGood ==
    ASSUME Data, Requests, NEW r \in Req, CommentCheck(r) \/ OwnerCheck(r)
    PROVE  \E q : GoesOn(r, q)
  <1> DEFINE old == req[r]
  <1>1. old \in Request /\ Shape(old) /\ old.step \in {"comment", "owner"}
    BY DEF Requests, Good, CommentCheck, OwnerCheck
  <1>2. old.comment \in Comment /\ old.by \in User
    BY <1>1 DEF Shape, CommentSteps
  <1>3. ASSUME NEW ok \in BOOLEAN, NEW step \in {"owner", "UpdateComment", "SoftDelete"}, Check(r, ok, step)
        PROVE  \E q : GoesOn(r, q)
    <2> DEFINE q == [old EXCEPT !.step = step]
    <2>1. step \in Step  BY DEF Step
    <2>2. q.step = step /\ q.by = old.by /\ q.comment = old.comment
      BY <1>1, <2>1, StepFields
    <2> HIDE DEF q
    <2>3. Shape(q)
      BY <1>2, <2>2 DEF Shape, Ready, VideoSteps, CommentSteps, PlaylistSteps, UserSteps, ReviewSteps
    <2>4. Vouched(q, comment, report, wasBanned)
      BY <2>2 DEF Vouched
    <2> QED  BY <1>1, <1>3, <2>1, <2>3, <2>4, CheckGoesOn DEF q
  <1>4. Live(old.comment) \in BOOLEAN
    BY <1>2 DEF Live, Data, Typed, CommentRow
  <1>5. CASE CommentCheck(r)
    <2>1. old.next \in {"UpdateComment", "SoftDelete"}
      BY <1>1, <1>5 DEF Shape, CommentCheck
    <2>2. \/ Check(r, Live(old.comment), "owner")
          \/ Check(r, Live(old.comment) /\ (comment[old.comment].author = old.by \/ old.next = "SoftDelete"), old.next)
      BY <1>5 DEF CommentCheck
    <2> QED  BY <1>3, <1>4, <2>1, <2>2
  <1>6. CASE OwnerCheck(r)
    BY <1>3, <1>6 DEF OwnerCheck
  <1> QED  BY <1>5, <1>6

LEMMA PlaylistCheckGood ==
    ASSUME Data, Requests, NEW r \in Req, PlaylistCheck(r)
    PROVE  \E q : GoesOn(r, q)
  <1> DEFINE old == req[r]
             row == playlist[old.playlist]
             next == IF old.next = "video" THEN "LockPlaylist" ELSE old.next
             choice == IF old.choice = "same" THEN row.visibility ELSE old.choice
             q == [old EXCEPT !.step = old.next, !.next = next, !.choice = choice]
  <1>1. old \in Request /\ Shape(old) /\ old.step = "playlist"
    BY DEF Requests, Good, PlaylistCheck
  <1>2. /\ old.playlist \in Playlist /\ old.by \in User
        /\ old.next \in {"UpdatePlaylist", "DeletePlaylist", "video", "RemovePlaylistVideo"}
        /\ old.next \in {"video", "RemovePlaylistVideo"} => old.video \in Video
        /\ old.next = "UpdatePlaylist" => old.choice \in Visibility \cup {"same"}
    BY <1>1 DEF Shape, PlaylistSteps
  <1>3. row.visibility \in Visibility
    BY <1>2 DEF Data, Typed, PlaylistRow
  <1>4. "LockPlaylist" \in Step /\ Visibility \subseteq Choice
    BY DEF Step, Choice
  <1>5. old.next \in Step /\ next \in Step /\ choice \in Choice
    BY <1>1, <1>3, <1>4 DEF Request
  <1>6. /\ old.next = "video" => next = "LockPlaylist"
        /\ old.next = "UpdatePlaylist" => choice \in Visibility
    BY <1>2, <1>3
  <1>7. \/ Becomes(r, q)
        \/ Becomes(r, Idle)
    BY DEF PlaylistCheck, Becomes, Requests
  <1> HIDE DEF next, choice
  <1>8. /\ q \in Request /\ q.step = old.next /\ q.next = next /\ q.by = old.by /\ q.n = old.n
        /\ q.video = old.video /\ q.playlist = old.playlist /\ q.choice = choice
    BY <1>1, <1>5 DEF Request
  <1> HIDE DEF q
  <1>9. Shape(q)
    BY <1>2, <1>6, <1>8 DEF Shape, Ready, VideoSteps, CommentSteps, PlaylistSteps, UserSteps, ReviewSteps
  <1>10. Vouched(q, comment, report, wasBanned)
    BY <1>2, <1>8 DEF Vouched
  <1> QED
    BY <1>1, <1>2, <1>7, <1>8, <1>9, <1>10, IdleGoesOn DEF GoesOn, Good

LEMMA ReportCheckGood ==
    ASSUME Data, Requests, NEW r \in Req, ReportCheck(r)
    PROVE  \E q : GoesOn(r, q)
  <1> DEFINE old == req[r]
             ok == ~Reported(old.by, old.video)
             q == [old EXCEPT !.step = "CreateReport"]
  <1>1. old \in Request /\ Shape(old) /\ old.step = "count" /\ Check(r, ok, "CreateReport")
    BY DEF Requests, Good, ReportCheck
  <1>2. old.by \in User
    BY <1>1 DEF Shape
  <1>3. ok \in BOOLEAN
    BY DEF Reported
  <1>4. "CreateReport" \in Step  BY DEF Step
  <1>5. q.step = "CreateReport" /\ q.by = old.by
    BY <1>1, <1>4, StepFields
  <1> HIDE DEF q
  <1>6. Shape(q)
    BY <1>2, <1>5 DEF Shape, Ready, VideoSteps, CommentSteps, PlaylistSteps, UserSteps, ReviewSteps
  <1>7. Vouched(q, comment, report, wasBanned)
    BY <1>5 DEF Vouched
  <1> HIDE DEF ok
  <1> QED  BY <1>1, <1>3, <1>4, <1>6, <1>7, CheckGoesOn DEF q

LEMMA ReviewReadGood ==
    ASSUME Data, Requests, NEW r \in Req, ReviewRead(r)
    PROVE  \E q : GoesOn(r, q)
  <1> DEFINE old == req[r]
             row == report[old.report]
             goto == IF old.choice = "delete_video" /\ row.video # NoVideo THEN "target"
                     ELSE IF old.choice # "ban_user" THEN "UpdateReport"
                     ELSE IF row.user # Nobody THEN "Ban"
                     ELSE IF row.video # NoVideo THEN "target" ELSE "idle"
             q == [old EXCEPT !.step = goto, !.user = row.user, !.video = row.video]
  <1>1. old \in Request /\ Shape(old) /\ old.step = "report"
    BY DEF Requests, Good, ReviewRead
  <1>2. old.report \in Report /\ old.by \in User
    BY <1>1 DEF Shape, ReviewSteps
  <1>3. row.user \in User \cup {Nobody} /\ row.video \in Video \cup {NoVideo}
    BY <1>2 DEF Data, Typed, ReportRow
  <1>4. \/ row.here /\ goto # "idle" /\ Becomes(r, q)
        \/ Becomes(r, Idle)
    BY DEF ReviewRead, Becomes, Requests
  <1>5. /\ goto \in {"target", "UpdateReport", "Ban", "idle"}
        /\ goto = "target" => row.video \in Video /\ old.choice \in {"delete_video", "ban_user"}
        /\ goto = "target" /\ old.choice = "ban_user" => row.user = Nobody
        /\ goto = "Ban" => old.choice = "ban_user" /\ row.user \in User
        /\ goto = "UpdateReport" => old.choice # "ban_user"
        /\ goto = "UpdateReport" /\ old.choice = "delete_video" => row.video = NoVideo
    BY <1>3
  <1> HIDE DEF goto
  <1>6. {"target", "UpdateReport", "Ban", "idle"} \subseteq Step
    BY DEF Step
  <1> HIDE DEF row
  <1>7. /\ q \in Request /\ q.step = goto /\ q.by = old.by /\ q.n = old.n /\ q.user = row.user
        /\ q.video = row.video /\ q.report = old.report /\ q.choice = old.choice
    <2> HIDE DEF old
    <2>1. goto \in Step
      BY <1>5, <1>6
    <2>2. q \in Request
      BY <1>1, <1>3, <2>1 DEF Request
    <2>3. q.step = goto /\ q.user = row.user /\ q.video = row.video
      BY <1>1 DEF Request
    <2>4. q.by = old.by /\ q.n = old.n /\ q.report = old.report /\ q.choice = old.choice
      BY <1>1 DEF Request
    <2> QED  BY <2>2, <2>3, <2>4
  <1> HIDE DEF q
  <1> USE DEF row
  <1>8. Shape(q)
    BY <1>2, <1>5, <1>7 DEF Shape, Ready, VideoSteps, CommentSteps, PlaylistSteps, UserSteps, ReviewSteps
  <1>9. row.here => Filed(old.report)
    BY <1>2, HereUsed DEF Data
  <1>10. row.here => Vouched(q, comment, report, wasBanned)
    BY <1>2, <1>5, <1>7, <1>9, CommunityAssumption DEF Vouched, Filed, Culprit
  <1> QED
    BY <1>1, <1>4, <1>5, <1>7, <1>8, <1>10, IdleGoesOn DEF GoesOn, Good

LEMMA ReviewTargetGood ==
    ASSUME Data, Requests, NEW r \in Req, ReviewTarget(r)
    PROVE  \E q : GoesOn(r, q)
  <1> DEFINE old == req[r]
             to == Owner[old.video]
  <1>1. /\ old \in Request /\ Shape(old) /\ Vouched(old, comment, report, wasBanned)
        /\ old.step = "target"
    BY DEF Requests, Good, ReviewTarget
  <1>2. /\ old.report \in Report /\ old.by \in User /\ old.video \in Video
        /\ old.choice \in {"delete_video", "ban_user"}
    BY <1>1 DEF Shape, Ready, ReviewSteps, VideoSteps
  <1>3. /\ report[old.report].reporter # Nobody /\ report[old.report].video = old.video
        /\ old.choice = "ban_user" => report[old.report].user = Nobody
    BY <1>1, <1>2, CommunityAssumption DEF Vouched
  <1>4. {"DeleteVideo", "Ban"} \subseteq Step  BY DEF Step
  <1>5. CASE old.choice = "delete_video"
    <2> DEFINE q == [old EXCEPT !.step = "DeleteVideo"]
               ok == video[old.video].here
    <2>1. Check(r, ok, "DeleteVideo")
      BY <1>5 DEF ReviewTarget
    <2>2. /\ q.step = "DeleteVideo" /\ q.by = old.by /\ q.video = old.video
          /\ q.report = old.report /\ q.choice = old.choice
      BY <1>1, <1>4, StepFields
    <2> HIDE DEF q
    <2>3. Shape(q)
      BY <1>2, <2>2 DEF Shape, Ready, VideoSteps, CommentSteps, PlaylistSteps, UserSteps, ReviewSteps
    <2>4. Vouched(q, comment, report, wasBanned)
      BY <1>3, <1>5, <2>2 DEF Vouched
    <2>5. ok \in BOOLEAN
      BY <1>2 DEF Data, Typed, VideoRow
    <2> HIDE DEF ok
    <2> QED  BY <1>1, <1>4, <2>1, <2>3, <2>4, <2>5, CheckGoesOn DEF q
  <1>6. CASE old.choice # "delete_video"
    <2> DEFINE q == [old EXCEPT !.step = "Ban", !.user = to]
    <2>1. \/ to # Nobody /\ Becomes(r, q)
          \/ Becomes(r, Idle)
      BY <1>6 DEF ReviewTarget, Becomes
    <2>2. CASE to # Nobody /\ Becomes(r, q)
      <3>1. to \in User
        BY <1>2, <2>2, CommunityAssumption
      <3>2. /\ q \in Request /\ q.step = "Ban" /\ q.by = old.by /\ q.n = old.n /\ q.user = to
            /\ q.video = old.video /\ q.report = old.report /\ q.choice = old.choice
        BY <1>1, <1>4, <3>1 DEF Request
      <3> HIDE DEF q
      <3>3. Shape(q)
        BY <1>2, <3>1, <3>2 DEF Shape, Ready, VideoSteps, CommentSteps, PlaylistSteps, UserSteps, ReviewSteps
      <3>4. Vouched(q, comment, report, wasBanned)
        BY <1>2, <1>3, <1>6, <3>2 DEF Vouched, Culprit
      <3> QED  BY <1>1, <2>2, <3>2, <3>3, <3>4 DEF GoesOn, Good
    <2> QED  BY <2>1, <2>2, IdleGoesOn
  <1> QED  BY <1>5, <1>6

\* A read changes its request only, which goes on with what it needs.
LEMMA ReadGood ==
    ASSUME Data, Requests, NEW r \in Req, Reads(r)
    PROVE  /\ \E q : GoesOn(r, q)
           /\ UNCHANGED <<tables, held, started, history>>
  <1>1. \E q : GoesOn(r, q)
    BY VideoCheckGood, ParentCheckGood, CommentCheckGood, PlaylistCheckGood, ReportCheckGood,
       ReviewReadGood, ReviewTargetGood DEF Reads
  <1>2. UNCHANGED <<tables, held, started, history>>
    BY DEF Reads, VideoCheck, ParentCheck, CommentCheck, OwnerCheck, PlaylistCheck, ReportCheck,
           ReviewRead, ReviewTarget, Check
  <1> QED  BY <1>1, <1>2

-----------------------------------------------------------------------------
(* What a statement leaves alone *)

\* No row of a video or comment goes.
Kept ==
    /\ \A v \in Video : video[v].here => video'[v].here
    /\ \A c \in Comment : comment[c].here => comment'[c].here

LEMMA PlacedStay ==
    ASSUME Data, Kept
    PROVE  /\ UNCHANGED comment => CommentsPlaced'
           /\ UNCHANGED <<rating, later, watched>> => MarksPlaced'
           /\ UNCHANGED <<playlist, entry>> => EntriesPlaced'
           /\ UNCHANGED notes => NotesPlaced'
           /\ UNCHANGED report => ReportsPlaced'
  <1>1. ASSUME UNCHANGED comment  PROVE CommentsPlaced'
    <2>1. ASSUME NEW c \in Comment, comment[c].here  PROVE comment[c].video \in Video
      BY <2>1, HereUsed DEF Data, Rows, CommentRows
    <2> QED  BY <1>1, <2>1 DEF Data, Placed, CommentsPlaced, Kept
  <1>2. UNCHANGED <<rating, later, watched>> => MarksPlaced'
    BY DEF Data, Placed, MarksPlaced, Kept
  <1>3. UNCHANGED <<playlist, entry>> => EntriesPlaced'
    BY DEF Data, Placed, EntriesPlaced, Kept
  <1>4. ASSUME UNCHANGED notes  PROVE NotesPlaced'
    <2>1. ASSUME NEW m \in notes, m.video # NoVideo  PROVE m.video \in Video /\ m.comment \in Comment
      BY <2>1 DEF Data, Typed, Note, Rows, NoteRows
    <2> QED  BY <1>4, <2>1 DEF Data, Placed, NotesPlaced, Kept
  <1>5. ASSUME UNCHANGED report  PROVE ReportsPlaced'
    <2>1. ASSUME NEW x \in Report, report[x].video # NoVideo  PROVE report[x].video \in Video
      BY <2>1 DEF Data, Typed, ReportRow
    <2> QED  BY <1>5, <2>1 DEF Data, Placed, ReportsPlaced, Kept
  <1> QED  BY <1>1, <1>2, <1>3, <1>4, <1>5

LEMMA RowsStay ==
    ASSUME Data, Lasting
    PROVE  /\ UNCHANGED comment => CommentRows'
           /\ UNCHANGED report => ReportRows' /\ ReviewIsBacked'
           /\ UNCHANGED notes => NoteRows'
  <1>1. UNCHANGED comment => CommentRows'
    BY DEF Data, Rows, CommentRows, Used
  <1>2. UNCHANGED report => ReportRows' /\ ReviewIsBacked'
    BY DEF Data, Rows, ReportRows, Filed, ReviewIsBacked, Lasting
  <1>3. ASSUME UNCHANGED notes  PROVE NoteRows'
    <2> SUFFICES ASSUME NEW m \in notes, m.comment # NoComment
                 PROVE  News(m.comment, m.video, m.to, m.type = "reply", comment')
      BY <1>3 DEF Data, Rows, NoteRows
    <2>1. News(m.comment, m.video, m.to, m.type = "reply", comment)
      BY DEF Data, Rows, NoteRows
    <2> QED  BY <2>1, NewsLasts
  <1> QED  BY <1>1, <1>2, <1>3

LEMMA SameLasting ==
    ASSUME UNCHANGED <<comment, report>>, wasBanned \subseteq wasBanned'
    PROVE  Lasting
  BY DEF Lasting

\* A step that touches no table.
LEMMA TablesSame ==
    ASSUME Data, UNCHANGED <<tables, history>>
    PROVE  Data' /\ Lasting
  <1>1. Lasting  BY SameLasting DEF tables, history
  <1>2. Kept  BY DEF Kept, tables
  <1>3. Typed'  BY DEF Data, Typed, tables, history
  <1> QED  BY <1>1, <1>2, <1>3, PlacedStay, RowsStay DEF Data, Rows, Placed, tables

-----------------------------------------------------------------------------
(* Statements: the tables *)

LEMMA RateKeeps ==
    ASSUME Data, NEW u \in User, NEW v \in Video, NEW new \in Rating, video[v].here, Rate(u, v, new),
           UNCHANGED <<comment, subs, subscribers, playlist, entry, later, watched, notes, report, banned, history>>
    PROVE  Data' /\ Lasting
  <1>1. Lasting  BY SameLasting DEF history
  <1>2. /\ rating' \in [User \X Video -> Rating]
        /\ \A x \in User \X Video : rating'[x] # rating[x] => x[2] = v
    BY DEF Data, Typed, Rate
  <1>3. /\ video' \in [Video -> VideoRow]
        /\ \A w \in Video : video'[w].here = video[w].here
    <2> DEFINE k == IF new = "like" /\ rating[<<u, v>>] # "like" THEN video[v].likes + 1
                    ELSE IF new # "like" /\ rating[<<u, v>>] = "like" THEN video[v].likes - 1
                    ELSE video[v].likes
    <2>1. video[v].likes \in Int  BY DEF Data, Typed, VideoRow
    <2>2. k \in Int  BY <2>1
    <2>3. video' = [video EXCEPT ![v].likes = k]  BY DEF Rate
    <2> HIDE DEF k
    <2> QED  BY <2>2, <2>3 DEF Data, Typed, VideoRow
  <1>4. Typed'
    BY <1>2, <1>3 DEF Data, Typed, history
  <1>5. Kept  BY <1>3 DEF Kept
  <1>6. MarksPlaced'
    BY <1>2, <1>3 DEF Data, Placed, MarksPlaced
  <1> QED  BY <1>1, <1>4, <1>5, <1>6, PlacedStay, RowsStay DEF Data, Rows, Placed

\* What a statement does to the tables, and to the request.
Does(r) == Data' /\ Lasting /\ Requests'

LEMMA EndDoes ==
    ASSUME Requests, Data', Lasting, NEW r \in Req, End(r)
    PROVE  Does(r)
  BY EndGood DEF End, Done, Becomes, Does

LEMMA LikesDo ==
    ASSUME Data, Requests, NEW r \in Req, UpsertLike(r) \/ DeleteLike(r)
    PROVE  Does(r)
  <1> DEFINE q == req[r]
             new == IF q.step = "UpsertLike" THEN q.choice ELSE "none"
  <1>1. /\ q \in Request /\ Shape(q) /\ q.step \in {"UpsertLike", "DeleteLike"} /\ End(r)
        /\ UNCHANGED <<comment, subs, subscribers, playlist, entry, later, watched, notes, report, banned, history>>
    BY DEF Requests, Good, UpsertLike, DeleteLike, Runs
  <1>2. q.by \in User /\ q.video \in Video /\ new \in Rating
    BY <1>1 DEF Shape, Ready, VideoSteps, Rating
  <1>3. \/ video[q.video].here /\ Rate(q.by, q.video, new)
        \/ UNCHANGED <<rating, video>>
    <2>1. CASE UpsertLike(r)
      BY <2>1 DEF UpsertLike, Runs
    <2>2. CASE DeleteLike(r)
      <3>1. rating[<<q.by, q.video>>] # "none" => video[q.video].here
        BY <1>2 DEF Data, Placed, MarksPlaced
      <3> QED  BY <2>2, <3>1 DEF DeleteLike, Runs
    <2> QED  BY <2>1, <2>2
  <1>4. Data' /\ Lasting
    <2> HIDE DEF new, q
    <2>1. CASE UNCHANGED <<rating, video>>
      BY <1>1, <2>1, TablesSame DEF tables
    <2> QED  BY <1>1, <1>2, <1>3, <2>1, RateKeeps
  <1> QED  BY <1>1, <1>4, EndDoes

\* What a trigger on comments does: nothing but count.
LEMMA Counts ==
    ASSUME Typed, NEW row \in [Comment -> CommentRow], NEW v \in Video,
           NEW d \in Comment \cup {NoComment}, NEW change \in Int, CountComment(row, v, d, change)
    PROVE  /\ video' \in [Video -> VideoRow]
           /\ \A w \in Video : /\ video'[w].here = video[w].here /\ video'[w].likes = video[w].likes
                               /\ video'[w].comments = IF w = v THEN video[w].comments + change
                                                       ELSE video[w].comments
           /\ comment' \in [Comment -> CommentRow]
           /\ \A x \in Comment :
                 /\ comment'[x].here = row[x].here /\ comment'[x].deleted = row[x].deleted
                 /\ comment'[x].author = row[x].author /\ comment'[x].video = row[x].video
                 /\ comment'[x].parent = row[x].parent
                 /\ comment'[x].replies = IF x = d THEN row[x].replies + change ELSE row[x].replies
                 /\ x # d => comment'[x] = row[x]
  <1>1. video[v].comments + change \in Int
    BY DEF Typed, VideoRow
  <1>2. video' = [video EXCEPT ![v].comments = video[v].comments + change]
    BY DEF CountComment
  <1>3. CASE d = NoComment
    <2>1. d \notin Comment /\ comment' = row
      BY <1>3, CommunityAssumption DEF CountComment
    <2>2. video' \in [Video -> VideoRow]
      BY <1>1, <1>2 DEF Typed, VideoRow
    <2> QED  BY <1>1, <1>2, <2>1, <2>2 DEF Typed, VideoRow
  <1>4. CASE d # NoComment
    <2>1. row[d].replies + change \in Int /\ d \in Comment
      BY <1>4 DEF CommentRow
    <2>2. comment' = [row EXCEPT ![d].replies = row[d].replies + change]
      BY <1>4 DEF CountComment
    <2>3. comment' \in [Comment -> CommentRow]
      BY <2>1, <2>2 DEF CommentRow
    <2>4. video' \in [Video -> VideoRow]
      BY <1>1, <1>2 DEF Typed, VideoRow
    <2>5. \A w \in Video : /\ video'[w].here = video[w].here /\ video'[w].likes = video[w].likes
                           /\ video'[w].comments = IF w = v THEN video[w].comments + change
                                                   ELSE video[w].comments
      BY <1>1, <1>2 DEF Typed, VideoRow
    <2>6. \A x \in Comment :
                 /\ comment'[x].here = row[x].here /\ comment'[x].deleted = row[x].deleted
                 /\ comment'[x].author = row[x].author /\ comment'[x].video = row[x].video
                 /\ comment'[x].parent = row[x].parent
                 /\ comment'[x].replies = IF x = d THEN row[x].replies + change ELSE row[x].replies
                 /\ x # d => comment'[x] = row[x]
      BY <2>1, <2>2 DEF CommentRow
    <2> QED  BY <2>3, <2>4, <2>5, <2>6
  <1> QED  BY <1>3, <1>4

\* A name that has not been given away.
LEMMA NewIsUnused ==
    ASSUME NEW table, NEW none, Unused(table, none) # {}
    PROVE  New(table, none) \in DOMAIN table /\ table[New(table, none)] = none
  BY DEF New, Unused

LEMMA SoftDeleteDoes ==
    ASSUME Data, Requests, NEW r \in Req, SoftDelete(r)
    PROVE  Does(r)
  <1> DEFINE c == req[r].comment
             d == comment[c].parent
             v == comment[c].video
             row == [comment EXCEPT ![c].deleted = TRUE]
  <1>1. c \in Comment
    BY DEF Requests, Good, Shape, CommentSteps, SoftDelete, Runs
  <1>2. /\ UNCHANGED <<rating, subs, subscribers, playlist, entry, later, watched, notes, report, banned, history>>
        /\ End(r)
        /\ \/ Live(c) /\ CountComment(row, v, d, -1)
           \/ UNCHANGED <<video, comment>>
    BY DEF SoftDelete
  <1>3. CASE UNCHANGED <<video, comment>>
    BY <1>2, <1>3, TablesSame, EndDoes DEF tables
  <1>4. CASE Live(c) /\ CountComment(row, v, d, -1)
    <2>1. /\ comment[c].here /\ Used(c) /\ v \in Video /\ d \in Comment \cup {NoComment}
          /\ d # NoComment => Used(d)
      BY <1>1, <1>4, HereUsed DEF Live, Data, Typed, CommentRow, Rows, CommentRows, Placed, CommentsPlaced
    <2>2. /\ row \in [Comment -> CommentRow]
          /\ \A x \in Comment : /\ row[x].here = comment[x].here /\ row[x].author = comment[x].author
                                /\ row[x].video = comment[x].video /\ row[x].parent = comment[x].parent
                                /\ x # c => row[x] = comment[x]
      BY <1>1 DEF Data, Typed, CommentRow
    <2> HIDE DEF c, d, v, row
    <2>3. /\ video' \in [Video -> VideoRow]
          /\ \A w \in Video : video'[w].here = video[w].here
          /\ comment' \in [Comment -> CommentRow]
          /\ \A x \in Comment : /\ comment'[x].here = row[x].here
                                /\ comment'[x].author = row[x].author /\ comment'[x].video = row[x].video
                                /\ comment'[x].parent = row[x].parent
                                /\ x # d => comment'[x] = row[x]
      BY <1>4, <2>1, <2>2, Counts DEF Data
    <2>4. \A x \in Comment : /\ comment'[x].here = comment[x].here
                             /\ comment'[x].author = comment[x].author /\ comment'[x].video = comment[x].video
                             /\ comment'[x].parent = comment[x].parent
                             /\ ~Used(x) => comment'[x] = comment[x]
      BY <1>1, <2>1, <2>2, <2>3, CommunityAssumption
    <2>5. Lasting  BY <1>2, <2>4 DEF Lasting, history
    <2>6. Kept  BY <1>2, <2>3, <2>4 DEF Kept
    <2>7. Typed'  BY <1>2, <2>3 DEF Data, Typed, history
    <2>8. CommentRows'  BY <2>4 DEF Data, Rows, CommentRows, Used
    <2>9. CommentsPlaced'
      <3> SUFFICES ASSUME NEW x \in Comment, comment'[x].here
                   PROVE  /\ video'[comment'[x].video].here
                          /\ comment'[x].parent # NoComment =>
                                comment'[comment'[x].parent].here
                                /\ comment'[comment'[x].parent].video = comment'[x].video
        BY DEF CommentsPlaced
      <3>1. comment[x].here /\ comment[x].video \in Video /\ comment[x].parent \in Comment \cup {NoComment}
        BY <2>4, HereUsed DEF Data, Rows, CommentRows, Typed, CommentRow
      <3> QED  BY <2>3, <2>4, <3>1 DEF Data, Placed, CommentsPlaced
    <2> QED
      BY <1>2, <2>5, <2>6, <2>7, <2>8, <2>9, PlacedStay, RowsStay, EndDoes DEF Data, Rows, Placed
  <1> QED  BY <1>2, <1>3, <1>4

\* A comment as it is inserted.
Posted(u, v, d) == [NoCommentRow EXCEPT !.here = TRUE, !.author = u, !.video = v, !.parent = d]

LEMMA PostedFields ==
    ASSUME NEW u \in User, NEW v \in Video, NEW d \in Comment \cup {NoComment}
    PROVE  /\ Posted(u, v, d) \in CommentRow /\ Posted(u, v, d).here /\ ~Posted(u, v, d).deleted
           /\ Posted(u, v, d).author = u /\ Posted(u, v, d).video = v
           /\ Posted(u, v, d).parent = d /\ Posted(u, v, d).replies = 0
  <1>1. NoCommentRow \in CommentRow /\ ~NoCommentRow.deleted /\ NoCommentRow.replies = 0
    BY DEF CommentRow, NoCommentRow
  <1> QED  BY <1>1 DEF Posted, CommentRow

LEMMA CreateCommentDoes ==
    ASSUME Data, Requests, NEW r \in Req, CreateComment(r)
    PROVE  Does(r)
  <1> DEFINE q == req[r]
             d == q.parent
             v == q.video
             to == Addressee(q)
             c == New(comment, NoCommentRow)
             new == Posted(q.by, v, d)
             row == [comment EXCEPT ![c] = new]
             p == [q EXCEPT !.step = "Notify", !.user = to, !.comment = c]
  <1>1. q \in Request /\ Shape(q) /\ Vouched(q, comment, report, wasBanned) /\ q.step = "CreateComment"
    BY DEF Requests, Good, CreateComment, Runs
  <1>2. /\ q.by \in User /\ v \in Video /\ d \in Comment \cup {NoComment}
        /\ d # NoComment => Used(d) /\ comment[d].video = v
    BY <1>1 DEF Shape, VideoSteps, Request, Vouched, Used
  <1>3. /\ UNCHANGED <<rating, subs, subscribers, playlist, entry, later, watched, notes, report, banned, history>>
        /\ \/ /\ video[v].here /\ (d # NoComment => comment[d].here)
              /\ Unused(comment, NoCommentRow) # {}
              /\ CountComment(row, v, d, 1)
              /\ \/ to \in User \ {q.by} /\ Becomes(r, p)
                 \/ End(r)
           \/ UNCHANGED <<video, comment>> /\ End(r)
    BY DEF CreateComment, Done, Becomes, Posted
  <1> HIDE DEF q, d, v, p, to, row, c
  <1>4. CASE UNCHANGED <<video, comment>> /\ End(r)
    BY <1>3, <1>4, TablesSame, EndDoes DEF tables
  <1>5. CASE /\ video[v].here /\ (d # NoComment => comment[d].here)
             /\ Unused(comment, NoCommentRow) # {}
             /\ CountComment(row, v, d, 1)
             /\ \/ to \in User \ {q.by} /\ Becomes(r, p)
                \/ End(r)
    <2>0. Unused(comment, NoCommentRow) # {} /\ DOMAIN comment = Comment
      BY <1>5 DEF Data, Typed
    <2>01. c \in Comment /\ comment[c] = NoCommentRow
      BY <2>0, NewIsUnused DEF c
    <2>1. c \in Comment /\ ~Used(c) /\ ~comment[c].here
      BY <2>01 DEF NoCommentRow, Used
    <2>2. /\ new \in CommentRow /\ new.here /\ new.author = q.by /\ new.video = v /\ new.parent = d
      BY <1>2, PostedFields
    <2> HIDE DEF new
    <2>3. /\ row \in [Comment -> CommentRow] /\ row[c] = new
          /\ \A x \in Comment : x # c => row[x] = comment[x]
      BY <2>1, <2>2 DEF Data, Typed, row
    <2>4. /\ video' \in [Video -> VideoRow]
          /\ \A w \in Video : video'[w].here = video[w].here
          /\ comment' \in [Comment -> CommentRow]
          /\ \A x \in Comment : /\ comment'[x].here = row[x].here
                                /\ comment'[x].author = row[x].author /\ comment'[x].video = row[x].video
                                /\ comment'[x].parent = row[x].parent
                                /\ x # d => comment'[x] = row[x]
      BY <1>2, <1>5, <2>3, Counts DEF Data
    <2>5. /\ comment'[c].here /\ comment'[c].author = q.by /\ comment'[c].video = v
          /\ comment'[c].parent = d
      BY <2>1, <2>2, <2>3, <2>4
    <2>6. \A x \in Comment : x # c =>
             /\ comment'[x].here = comment[x].here
             /\ comment'[x].author = comment[x].author /\ comment'[x].video = comment[x].video
             /\ comment'[x].parent = comment[x].parent
             /\ ~Used(x) => comment'[x] = comment[x]
      BY <1>2, <2>3, <2>4, CommunityAssumption
    <2>7. Lasting  BY <1>3, <2>1, <2>6 DEF Lasting, history
    <2>8. Kept  BY <1>3, <2>1, <2>4, <2>6 DEF Kept
    <2>9. Typed'  BY <1>3, <2>4 DEF Data, Typed, history
    <2>10. CommentRows'
      BY <1>2, <2>5, <2>6, CommunityAssumption DEF Data, Rows, CommentRows, Used
    <2>11. CommentsPlaced'
      <3> SUFFICES ASSUME NEW x \in Comment, comment'[x].here
                   PROVE  /\ video'[comment'[x].video].here
                          /\ comment'[x].parent # NoComment =>
                                comment'[comment'[x].parent].here
                                /\ comment'[comment'[x].parent].video = comment'[x].video
        BY DEF CommentsPlaced
      <3>1. CASE x = c
        BY <1>2, <1>5, <2>1, <2>4, <2>5, <2>6, <3>1
      <3>2. CASE x # c
        <4>1. comment[x].here /\ comment[x].video \in Video /\ comment[x].parent \in Comment \cup {NoComment}
          BY <2>6, <3>2, HereUsed DEF Data, Rows, CommentRows, Typed, CommentRow
        <4>2. /\ video[comment[x].video].here
              /\ comment[x].parent # NoComment =>
                    comment[comment[x].parent].here
                    /\ comment[comment[x].parent].video = comment[x].video
          BY <4>1 DEF Data, Placed, CommentsPlaced
        <4> QED  BY <2>1, <2>4, <2>6, <3>2, <4>1, <4>2
      <3> QED  BY <3>1, <3>2
    <2>12. Data'
      BY <1>3, <2>7, <2>8, <2>9, <2>10, <2>11, PlacedStay, RowsStay DEF Data, Rows, Placed
    <2>13. CASE to \in User \ {q.by} /\ Becomes(r, p)
      <3>1. "Notify" \in Step  BY DEF Step
      <3>2. /\ d # NoComment => to = comment[d].author
            /\ d = NoComment => to = Owner[v]
        BY DEF to, Addressee, d, v, q
      <3>3. /\ p \in Request /\ p.step = "Notify" /\ p.by = q.by /\ p.user = to
            /\ p.comment = c /\ p.video = v /\ p.parent = d
        BY <1>1, <2>1, <2>13, <3>1 DEF p, d, v, Request
      <3>4. Shape(p)
        BY <1>2, <2>1, <2>13, <3>3, CommunityAssumption
           DEF Shape, Ready, VideoSteps, CommentSteps, PlaylistSteps, UserSteps, ReviewSteps
      <3>5. News(c, v, to, d # NoComment, comment')
        BY <1>2, <2>1, <2>5, <2>6, <3>2, CommunityAssumption DEF News, Used
      <3>6. Vouched(p, comment', report', wasBanned')
        BY <3>3, <3>5 DEF Vouched
      <3> QED  BY <2>7, <2>12, <2>13, <3>3, <3>4, <3>6, BecomesGood DEF Good, Does
    <2>14. CASE End(r)
      BY <2>7, <2>12, <2>14, EndDoes
    <2> QED  BY <1>5, <2>13, <2>14
  <1> QED  BY <1>3, <1>4, <1>5

LEMMA SubscriptionsDo ==
    ASSUME Data, Requests, NEW r \in Req, CreateSubscription(r) \/ DeleteSubscription(r)
    PROVE  Does(r)
  <1> DEFINE q == req[r]
             pair == <<q.by, q.user>>
             p == [q EXCEPT !.step = "Notify"]
  <1>1. q \in Request /\ Shape(q) /\ q.step \in {"CreateSubscription", "DeleteSubscription"}
    BY DEF Requests, Good, CreateSubscription, DeleteSubscription, Runs
  <1>2. q.by \in User /\ q.user \in User /\ pair \in User \X User
    BY <1>1 DEF Shape, UserSteps
  <1>3. /\ UNCHANGED <<video, rating, comment, playlist, entry, later, watched, notes, report, banned, wasBanned>>
        /\ \/ End(r)
           \/ q.step = "CreateSubscription" /\ Becomes(r, p)
    BY DEF CreateSubscription, DeleteSubscription, Runs, Done, Becomes, history
  <1>4. /\ subs' \subseteq User \X User
        /\ subscribers' \in [User -> Int]
        /\ joined' \in [User \X User -> Nat]
    <2>1. /\ subs' \in {subs, subs \cup {pair}, subs \ {pair}}
          /\ \/ UNCHANGED subscribers
             \/ subscribers' = [subscribers EXCEPT ![q.user] = @ + 1]
             \/ subscribers' = [subscribers EXCEPT ![q.user] = @ - 1]
          /\ \/ UNCHANGED joined
             \/ joined' = [joined EXCEPT ![pair] = @ + 1]
      BY DEF CreateSubscription, DeleteSubscription, history
    <2> HIDE DEF q, pair
    <2>2. subs' \subseteq User \X User
      BY <1>2, <2>1 DEF Data, Typed
    <2>3. subscribers' \in [User -> Int]
      BY <1>2, <2>1 DEF Data, Typed
    <2>4. joined' \in [User \X User -> Nat]
      BY <1>2, <2>1 DEF Data, Typed
    <2> QED  BY <2>2, <2>3, <2>4
  <1>5. Lasting  BY <1>3, SameLasting
  <1>6. Kept  BY <1>3 DEF Kept
  <1>7. Typed'  BY <1>3, <1>4 DEF Data, Typed
  <1>8. Data'  BY <1>3, <1>5, <1>6, <1>7, PlacedStay, RowsStay DEF Data, Rows, Placed
  <1>9. CASE q.step = "CreateSubscription" /\ Becomes(r, p)
    <2>1. "Notify" \in Step  BY DEF Step
    <2>2. /\ p \in Request /\ p.step = "Notify" /\ p.by = q.by /\ p.user = q.user
          /\ p.comment = q.comment /\ p.video = q.video
      BY <1>1, <2>1, StepFields
    <2> HIDE DEF p
    <2>3. Shape(p)
      BY <1>1, <1>2, <1>9, <2>2
         DEF Shape, Ready, VideoSteps, CommentSteps, PlaylistSteps, UserSteps, ReviewSteps
    <2>4. p.comment = NoComment
      BY <1>1, <1>9, <2>2 DEF Shape, Ready
    <2>5. Vouched(p, comment', report', wasBanned')
      BY <2>2, <2>4 DEF Vouched
    <2> QED  BY <1>5, <1>8, <1>9, <2>2, <2>3, <2>5, BecomesGood DEF Good, Does
  <1> HIDE DEF p, q
  <1> QED  BY <1>3, <1>5, <1>8, <1>9, EndDoes

LEMMA NoteFields ==
    ASSUME NEW q \in Request, q.by \in User, q.user \in User
    PROVE  /\ NoteOf(q) \in Note /\ NoteOf(q).n = q.n
           /\ NoteOf(q).to = q.user /\ NoteOf(q).actor = q.by
           /\ NoteOf(q).video = q.video /\ NoteOf(q).comment = q.comment
           /\ NoteOf(q).type = "subscriber" <=> q.comment = NoComment
           /\ q.comment # NoComment => (NoteOf(q).type = "reply" <=> q.parent # NoComment)
  BY DEF NoteOf, Note, Request

LEMMA NotifyDoes ==
    ASSUME Data, Requests, NEW r \in Req, Notify(r)
    PROVE  Does(r)
  <1> DEFINE q == req[r]
             m == NoteOf(q)
  <1>1. q \in Request /\ Shape(q) /\ Vouched(q, comment, report, wasBanned) /\ q.step = "Notify"
    BY DEF Requests, Good, Notify, Runs
  <1>2. /\ q.by \in User /\ q.user \in User /\ q.user # q.by
        /\ q.comment = NoComment <=> q.video = NoVideo
    BY <1>1 DEF Shape, UserSteps, Ready
  <1>3. /\ UNCHANGED <<video, rating, comment, subs, subscribers, playlist, entry, later, watched, report, banned, history>>
        /\ End(r)
        /\ \/ /\ q.video # NoVideo => video[q.video].here
              /\ q.comment # NoComment => comment[q.comment].here
              /\ notes' = notes \cup {m}
           \/ UNCHANGED notes
    BY DEF Notify
  <1>4. CASE UNCHANGED notes
    BY <1>3, <1>4, TablesSame, EndDoes DEF tables
  <1>5. CASE /\ q.video # NoVideo => video[q.video].here
             /\ q.comment # NoComment => comment[q.comment].here
             /\ notes' = notes \cup {m}
    <2>1. /\ m \in Note /\ m.to = q.user /\ m.actor = q.by /\ m.video = q.video /\ m.comment = q.comment
          /\ m.type = "subscriber" <=> q.comment = NoComment
          /\ q.comment # NoComment => (m.type = "reply" <=> q.parent # NoComment)
      BY <1>1, <1>2, NoteFields
    <2> HIDE DEF m
    <2>2. ASSUME q.comment # NoComment
          PROVE  News(m.comment, m.video, m.to, m.type = "reply", comment)
      <3>1. News(q.comment, q.video, q.user, q.parent # NoComment, comment)
        BY <1>1, <2>2 DEF Vouched
      <3> QED  BY <2>1, <2>2, <3>1 DEF News
    <2> HIDE DEF q
    <2>3. Lasting  BY <1>3, SameLasting DEF history
    <2>4. Kept  BY <1>3 DEF Kept
    <2>5. Typed'  BY <1>3, <1>5, <2>1 DEF Data, Typed, history
    <2>6. NoteRows'
      BY <1>2, <1>3, <1>5, <2>1, <2>2 DEF Data, Rows, NoteRows
    <2>7. NotesPlaced'
      BY <1>2, <1>3, <1>5, <2>1 DEF Data, Placed, NotesPlaced
    <2> QED
      BY <1>3, <2>3, <2>4, <2>5, <2>6, <2>7, PlacedStay, RowsStay, EndDoes DEF Data, Rows, Placed
  <1> QED  BY <1>3, <1>4, <1>5

\* Reading a notification changes nothing else about it.
LEMMA SeenFields ==
    ASSUME Typed, NEW ms \in SUBSET notes, NEW m \in Seen(ms)
    PROVE  /\ m \in Note
           /\ \E l \in notes : /\ m.n = l.n /\ m.to = l.to /\ m.actor = l.actor /\ m.type = l.type
                               /\ m.video = l.video /\ m.comment = l.comment
                               /\ m = IF l \in ms THEN [l EXCEPT !.read = TRUE] ELSE l
  <1>1. CASE m \in notes \ ms
    BY <1>1 DEF Typed
  <1>2. CASE m \notin notes \ ms
    <2>1. PICK l \in ms : m = [l EXCEPT !.read = TRUE]
      BY <1>2 DEF Seen
    <2>2. l \in Note  BY DEF Typed
    <2>3. /\ m \in Note /\ m.n = l.n /\ m.to = l.to /\ m.actor = l.actor /\ m.type = l.type
          /\ m.video = l.video /\ m.comment = l.comment
      BY <2>1, <2>2 DEF Note
    <2> QED  BY <2>1, <2>3
  <1> QED  BY <1>1, <1>2

LEMMA MarksDo ==
    ASSUME Data, Requests, NEW r \in Req, MarkRead(r) \/ MarkAllRead(r)
    PROVE  Does(r) /\ \E ms \in SUBSET notes : notes' = Seen(ms)
  <1>1. /\ UNCHANGED <<video, rating, comment, subs, subscribers, playlist, entry, later, watched, report, banned, history>>
        /\ End(r)
        /\ \E ms \in SUBSET notes : notes' = Seen(ms)
    <2>1. CASE MarkRead(r)
      <3> DEFINE ms == {m \in notes : m.n = req[r].pos /\ m.to = req[r].by}
      <3>1. ms \in SUBSET notes /\ notes' = Seen(ms)  BY <2>1 DEF MarkRead
      <3> QED  BY <2>1, <3>1 DEF MarkRead
    <2>2. CASE MarkAllRead(r)
      <3> DEFINE ms == {m \in notes : m.to = req[r].by}
      <3>1. ms \in SUBSET notes /\ notes' = Seen(ms)  BY <2>2 DEF MarkAllRead
      <3> QED  BY <2>2, <3>1 DEF MarkAllRead
    <2> QED  BY <2>1, <2>2
  <1>2. \A m \in notes' : m \in Note /\ \E l \in notes :
            m.to = l.to /\ m.actor = l.actor /\ m.type = l.type /\ m.video = l.video /\ m.comment = l.comment
    BY <1>1, SeenFields DEF Data
  <1>3. Lasting  BY <1>1, SameLasting DEF history
  <1>4. Kept  BY <1>1 DEF Kept
  <1>5. Typed'  BY <1>1, <1>2 DEF Data, Typed, history
  <1>6. NoteRows'
    <2> SUFFICES ASSUME NEW m \in notes'
                 PROVE  /\ m.to # m.actor
                        /\ m.type = "subscriber" <=> m.comment = NoComment
                        /\ m.comment = NoComment <=> m.video = NoVideo
                        /\ m.comment # NoComment =>
                              News(m.comment, m.video, m.to, m.type = "reply", comment')
      BY DEF NoteRows
    <2>1. PICK l \in notes :
            m.to = l.to /\ m.actor = l.actor /\ m.type = l.type /\ m.video = l.video /\ m.comment = l.comment
      BY <1>2
    <2>2. comment' = comment  BY <1>1
    <2> QED  BY <2>1, <2>2 DEF Data, Rows, NoteRows
  <1>7. NotesPlaced'
    BY <1>1, <1>2 DEF Data, Placed, NotesPlaced
  <1> QED
    BY <1>1, <1>3, <1>4, <1>5, <1>6, <1>7, PlacedStay, RowsStay, EndDoes DEF Data, Rows, Placed

\* A statement about playlists leaves every entry in a playlist that is there and on a video
\* that is.
LEMMA PlaylistTables ==
    ASSUME Data, playlist' \in [Playlist -> PlaylistRow], entry' \in [Playlist \X Video -> Int],
           EntriesPlaced',
           UNCHANGED <<video, rating, comment, subs, subscribers, later, watched, notes, report, banned, history>>
    PROVE  Data' /\ Lasting
  <1>1. Lasting  BY SameLasting DEF history
  <1>2. Kept  BY DEF Kept
  <1>3. Typed'  BY DEF Data, Typed, history
  <1> QED  BY <1>1, <1>2, <1>3, PlacedStay, RowsStay DEF Data, Rows, Placed

LEMMA PlaylistsDo ==
    ASSUME Data, Requests, NEW r \in Req, CreatePlaylist(r) \/ UpdatePlaylist(r)
    PROVE  Does(r)
  <1> DEFINE q == req[r]
  <1>1. /\ UNCHANGED <<video, rating, comment, subs, subscribers, entry, later, watched, notes, report, banned, history>>
        /\ End(r)
        /\ q \in Request /\ Shape(q) /\ q.step \in {"CreatePlaylist", "UpdatePlaylist"}
    BY DEF Requests, Good, CreatePlaylist, UpdatePlaylist, Runs
  <1>2. q.by \in User /\ q.choice \in Visibility
    BY <1>1 DEF Shape, Ready
  <1>3. /\ playlist' \in [Playlist -> PlaylistRow]
        /\ \A x \in Playlist : playlist[x].here => playlist'[x].here
    <2>1. CASE CreatePlaylist(r)
      <3> DEFINE p == New(playlist, NoPlaylistRow)
                 new == [here |-> TRUE, owner |-> q.by, visibility |-> q.choice, count |-> 0]
      <3>1. p \in Playlist
        BY <2>1, NewIsUnused DEF CreatePlaylist, Data, Typed
      <3>2. playlist' = [playlist EXCEPT ![p] = new]
        BY <2>1 DEF CreatePlaylist
      <3>3. new \in PlaylistRow /\ new.here
        BY <1>2 DEF PlaylistRow
      <3> HIDE DEF p, new
      <3> QED  BY <3>1, <3>2, <3>3 DEF Data, Typed
    <2>2. CASE UpdatePlaylist(r)
      <3>1. q.playlist \in Playlist
        BY <1>1, <2>2 DEF UpdatePlaylist, Runs, Shape, PlaylistSteps
      <3>2. \/ UNCHANGED playlist
            \/ playlist' = [playlist EXCEPT ![q.playlist].visibility = q.choice]
        BY <2>2 DEF UpdatePlaylist
      <3> HIDE DEF q
      <3> QED  BY <1>2, <3>1, <3>2 DEF Data, Typed, PlaylistRow
    <2> QED  BY <1>1, <2>1, <2>2
  <1>4. entry' \in [Playlist \X Video -> Int] /\ EntriesPlaced'
    BY <1>1, <1>3 DEF Data, Typed, Placed, EntriesPlaced
  <1> QED  BY <1>1, <1>3, <1>4, PlaylistTables, EndDoes

LEMMA DeletePlaylistDoes ==
    ASSUME Data, Requests, NEW r \in Req, DeletePlaylist(r)
    PROVE  Does(r)
  <1> DEFINE p == req[r].playlist
  <1>1. p \in Playlist
    BY DEF Requests, Good, DeletePlaylist, Runs, Shape, PlaylistSteps
  <1>2. /\ UNCHANGED <<video, rating, comment, subs, subscribers, later, watched, notes, report, banned, history>>
        /\ End(r)
        /\ playlist' = [playlist EXCEPT ![p].here = FALSE]
        /\ entry' = [x \in DOMAIN entry |-> IF x[1] = p THEN Absent ELSE entry[x]]
    BY DEF DeletePlaylist
  <1> HIDE DEF p
  <1>3. playlist' \in [Playlist -> PlaylistRow]
        /\ \A x \in Playlist : x # p => playlist'[x].here = playlist[x].here
    BY <1>1, <1>2 DEF Data, Typed, PlaylistRow
  <1>4. /\ entry' \in [Playlist \X Video -> Int]
        /\ \A x \in Playlist \X Video : entry'[x] # Absent => x[1] # p /\ entry[x] # Absent
    BY <1>2 DEF Data, Typed, Absent
  <1>5. EntriesPlaced'
    BY <1>2, <1>3, <1>4 DEF Data, Placed, EntriesPlaced
  <1> QED  BY <1>2, <1>3, <1>4, <1>5, PlaylistTables, EndDoes

LEMMA CountSet ==
    ASSUME Typed, NEW p \in Playlist, NEW n \in Int, playlist' = [playlist EXCEPT ![p].count = n]
    PROVE  /\ playlist' \in [Playlist -> PlaylistRow]
           /\ \A y \in Playlist : /\ playlist'[y].here = playlist[y].here
                                 /\ playlist'[y].count = IF y = p THEN n ELSE playlist[y].count
  BY DEF Typed, PlaylistRow

LEMMA EntriesDo ==
    ASSUME Data, Requests, NEW r \in Req, AddPlaylistVideo(r) \/ RemovePlaylistVideo(r)
    PROVE  Does(r)
  <1> DEFINE q == req[r]
             x == <<q.playlist, q.video>>
  <1>1. /\ UNCHANGED <<video, rating, comment, subs, subscribers, later, watched, notes, report, banned, history>>
        /\ End(r)
        /\ q \in Request /\ Shape(q) /\ q.step \in {"AddPlaylistVideo", "RemovePlaylistVideo"}
    BY DEF Requests, Good, AddPlaylistVideo, RemovePlaylistVideo, Runs
  <1>2. q.playlist \in Playlist /\ q.video \in Video /\ x \in Playlist \X Video /\ q.pos \in Int
    BY <1>1 DEF Shape, PlaylistSteps, VideoSteps, Request
  <1>3. \/ UNCHANGED <<entry, playlist>>
        \/ /\ video[q.video].here /\ playlist[q.playlist].here
           /\ entry' = [entry EXCEPT ![x] = q.pos]
           /\ playlist' = [playlist EXCEPT ![q.playlist].count = @ + 1]
        \/ /\ entry' = [entry EXCEPT ![x] = Absent]
           /\ playlist' = [playlist EXCEPT ![q.playlist].count = @ - 1]
    BY DEF AddPlaylistVideo, RemovePlaylistVideo
  <1>4. /\ playlist' \in [Playlist -> PlaylistRow]
        /\ \A y \in Playlist : playlist'[y].here = playlist[y].here
    <2> DEFINE n == playlist[q.playlist].count
    <2>1. n + 1 \in Int /\ n - 1 \in Int
      BY <1>2 DEF Data, Typed, PlaylistRow
    <2>2. \/ UNCHANGED playlist
          \/ playlist' = [playlist EXCEPT ![q.playlist].count = n + 1]
          \/ playlist' = [playlist EXCEPT ![q.playlist].count = n - 1]
      BY <1>3
    <2> HIDE DEF q, n
    <2>3. CASE UNCHANGED playlist  BY <2>3 DEF Data, Typed
    <2> QED  BY <1>2, <2>1, <2>2, <2>3, CountSet DEF Data
  <1>5. entry' \in [Playlist \X Video -> Int]
    <2> HIDE DEF x, q
    <2> QED  BY <1>2, <1>3 DEF Data, Typed, Absent
  <1>6. EntriesPlaced'
    <2> SUFFICES ASSUME NEW y \in Playlist \X Video, entry'[y] # Absent
                 PROVE  playlist[y[1]].here /\ video[y[2]].here
      BY <1>1, <1>4 DEF EntriesPlaced
    <2>1. CASE entry[y] # Absent
      BY <2>1 DEF Data, Placed, EntriesPlaced
    <2>2. CASE entry[y] = Absent
      <3>1. y = x /\ video[q.video].here /\ playlist[q.playlist].here
        <4> HIDE DEF x, q
        <4> QED  BY <1>2, <1>3, <2>2 DEF Data, Typed
      <3> QED  BY <3>1
    <2> QED  BY <2>1, <2>2
  <1> QED  BY <1>1, <1>4, <1>5, <1>6, PlaylistTables, EndDoes

LEMMA LaterAndWatchedDo ==
    ASSUME Data, Requests, NEW r \in Req,
           \/ UpsertWatchLater(r) \/ DeleteWatchLater(r)
           \/ UpsertWatchHistory(r) \/ DeleteWatchHistory(r)
    PROVE  Does(r)
  <1> DEFINE q == req[r]
             x == <<q.by, q.video>>
  <1>1. /\ UNCHANGED <<video, rating, comment, subs, subscribers, playlist, entry, notes, report, banned, history>>
        /\ End(r)
    BY DEF UpsertWatchLater, DeleteWatchLater, UpsertWatchHistory, DeleteWatchHistory
  <1>2. /\ \/ later' \subseteq later
           \/ later' = later \cup {x} /\ video[q.video].here /\ q.step = "UpsertWatchLater"
        /\ \/ watched' \subseteq watched
           \/ watched' = watched \cup {x} /\ video[q.video].here /\ q.step = "UpsertWatchHistory"
    BY DEF UpsertWatchLater, DeleteWatchLater, UpsertWatchHistory, DeleteWatchHistory, Runs
  <1>3. q.step \in {"UpsertWatchLater", "UpsertWatchHistory"} => x \in User \X Video
    BY DEF Requests, Good, Shape, VideoSteps
  <1>4. Lasting  BY <1>1, SameLasting DEF history
  <1>5. Kept  BY <1>1 DEF Kept
  <1>6. /\ \A y \in later' : y \in later \/ (y = x /\ x \in User \X Video /\ video[q.video].here)
        /\ \A y \in watched' : y \in watched \/ (y = x /\ x \in User \X Video /\ video[q.video].here)
    BY <1>2, <1>3
  <1>7. Typed'  BY <1>1, <1>6 DEF Data, Typed, history
  <1>8. MarksPlaced'
    BY <1>1, <1>6 DEF Data, Placed, MarksPlaced
  <1> QED
    BY <1>1, <1>4, <1>5, <1>7, <1>8, PlacedStay, RowsStay, EndDoes DEF Data, Rows, Placed

\* A report as it is filed.
Complaint(u, v, target) ==
    [NoReportRow EXCEPT !.here = TRUE, !.reporter = u, !.video = v, !.user = target]

LEMMA ComplaintFields ==
    ASSUME NEW u \in User, NEW v \in Video \cup {NoVideo}, NEW target \in User \cup {Nobody}
    PROVE  /\ Complaint(u, v, target) \in ReportRow /\ Complaint(u, v, target).reporter = u
           /\ Complaint(u, v, target).video = v /\ Complaint(u, v, target).status = "pending"
  <1>1. NoReportRow \in ReportRow /\ NoReportRow.status = "pending"
    BY DEF ReportRow, NoReportRow, Choice
  <1> QED  BY <1>1 DEF Complaint, ReportRow

\* One report, filed or reviewed.
LEMMA ReportTables ==
    ASSUME Data, NEW x \in Report, NEW row \in ReportRow, report' = [report EXCEPT ![x] = row],
           row.reporter # Nobody,
           Filed(x) => /\ row.reporter = report[x].reporter /\ row.video = report[x].video
                       /\ row.user = report[x].user /\ (row.here => report[x].here),
           row.here /\ row.video # NoVideo => video[row.video].here,
           row.here /\ row.status = "resolved" =>
               /\ row.action = "delete_video" => row.video = NoVideo
               /\ row.action = "ban_user" => Culprit(row) \in wasBanned,
           UNCHANGED <<video, rating, comment, subs, subscribers, playlist, entry, later, watched, notes, banned, history>>
    PROVE  Data' /\ Lasting
  <1>1. /\ report' \in [Report -> ReportRow] /\ report'[x] = row
        /\ \A y \in Report : y # x => report'[y] = report[y]
    BY DEF Data, Typed
  <1>2. Lasting  BY <1>1 DEF Lasting, history
  <1>3. Kept  BY DEF Kept
  <1>4. Typed'  BY <1>1 DEF Data, Typed, history
  <1>5. ReportRows'
    BY <1>1 DEF Data, Rows, ReportRows, Filed
  <1>6. ReportsPlaced'
    BY <1>1 DEF Data, Placed, ReportsPlaced
  <1>7. ReviewIsBacked'
    BY <1>1 DEF Data, ReviewIsBacked, Culprit, history
  <1> QED  BY <1>2, <1>3, <1>4, <1>5, <1>6, <1>7, PlacedStay, RowsStay DEF Data, Rows, Placed

LEMMA CreateReportDoes ==
    ASSUME Data, Requests, NEW r \in Req, CreateReport(r)
    PROVE  Does(r)
  <1> DEFINE q == req[r]
             x == New(report, NoReportRow)
             row == Complaint(q.by, q.video, q.user)
  <1>1. q \in Request /\ Shape(q) /\ q.step = "CreateReport"
    BY DEF Requests, Good, CreateReport, Runs
  <1>2. q.by \in User /\ q.video \in Video \cup {NoVideo} /\ q.user \in User \cup {Nobody}
    BY <1>1 DEF Shape, Request
  <1>3. /\ UNCHANGED <<video, rating, comment, subs, subscribers, playlist, entry, later, watched, notes, banned, history>>
        /\ End(r)
        /\ \/ /\ q.video # NoVideo => video[q.video].here
              /\ Unused(report, NoReportRow) # {}
              /\ report' = [report EXCEPT ![x] = row]
           \/ UNCHANGED report
    BY DEF CreateReport, Complaint
  <1>4. CASE UNCHANGED report
    BY <1>3, <1>4, TablesSame, EndDoes DEF tables
  <1>5. CASE /\ q.video # NoVideo => video[q.video].here
             /\ Unused(report, NoReportRow) # {}
             /\ report' = [report EXCEPT ![x] = row]
    <2>1. x \in Report /\ report[x] = NoReportRow
      BY <1>5, NewIsUnused DEF Data, Typed
    <2>2. /\ row \in ReportRow /\ row.reporter = q.by /\ row.video = q.video /\ row.status = "pending"
      BY <1>2, ComplaintFields
    <2> HIDE DEF x, row, q
    <2>3. ~Filed(x)
      <3>1. NoReportRow.reporter = Nobody  BY DEF NoReportRow
      <3> QED  BY <2>1, <3>1 DEF Filed
    <2>4. row.reporter # Nobody
      BY <1>2, <2>2, CommunityAssumption
    <2>5. Data' /\ Lasting
      BY <1>3, <1>5, <2>1, <2>2, <2>3, <2>4, ReportTables
    <2> QED  BY <1>3, <2>5, EndDoes
  <1> QED  BY <1>3, <1>4, <1>5

LEMMA UpdateReportDoes ==
    ASSUME Data, Requests, NEW r \in Req, UpdateReport(r)
    PROVE  Does(r)
  <1> DEFINE q == req[r]
             x == q.report
             old == report[x]
             row == IF q.choice = "dismiss" THEN [old EXCEPT !.status = "dismissed"]
                    ELSE [old EXCEPT !.status = "resolved", !.action = q.choice]
  <1>1. /\ q \in Request /\ Shape(q) /\ Vouched(q, comment, report, wasBanned)
        /\ q.step = "UpdateReport"
    BY DEF Requests, Good, UpdateReport, Runs
  <1>2. x \in Report
    BY <1>1 DEF Shape, ReviewSteps
  <1>3. /\ UNCHANGED <<video, rating, comment, subs, subscribers, playlist, entry, later, watched, notes, banned, history>>
        /\ End(r)
        /\ \/ old.here /\ report' = [report EXCEPT ![x] = row]
           \/ UNCHANGED report
    BY <1>2 DEF UpdateReport, Data, Typed
  <1>4. CASE UNCHANGED report
    BY <1>3, <1>4, TablesSame, EndDoes DEF tables
  <1>5. CASE old.here /\ report' = [report EXCEPT ![x] = row]
    <2>1. q.choice \in Choice
      BY <1>1 DEF Request
    <2>2. old \in ReportRow /\ Filed(x)
      BY <1>2, <1>5, HereUsed DEF Data, Typed
    <2>3. /\ q.choice = "delete_video" => old.video = NoVideo
          /\ q.choice = "ban_user" => Culprit(old) \in wasBanned
      BY <1>1, <1>5 DEF Vouched
    <2> HIDE DEF old
    <2>4. /\ row \in ReportRow /\ row.reporter = old.reporter /\ row.video = old.video
          /\ row.user = old.user /\ row.here = old.here
          /\ row.status = "resolved" => row.action = q.choice
      BY <2>1, <2>2 DEF ReportRow
    <2> HIDE DEF row, x, q
    <2>5. /\ row.reporter # Nobody /\ Culprit(row) = Culprit(old)
          /\ row.here /\ row.video # NoVideo => video[row.video].here
      BY <1>2, <1>5, <2>2, <2>4 DEF Filed, Culprit, old, Data, Placed, ReportsPlaced
    <2>6. row.here /\ row.status = "resolved" =>
               /\ row.action = "delete_video" => row.video = NoVideo
               /\ row.action = "ban_user" => Culprit(row) \in wasBanned
      BY <2>3, <2>4, <2>5
    <2>7. Filed(x) => /\ row.reporter = report[x].reporter /\ row.video = report[x].video
                      /\ row.user = report[x].user /\ (row.here => report[x].here)
      BY <2>4 DEF old
    <2>8. Data' /\ Lasting
      BY <1>2, <1>3, <1>5, <2>4, <2>5, <2>6, <2>7, ReportTables
    <2> QED  BY <1>3, <2>8, EndDoes
  <1> QED  BY <1>3, <1>4, <1>5

\* A review that has done its deed goes on to say so.
LEMMA ReviewedDoes ==
    ASSUME Requests, Data', Lasting, NEW r \in Req, Reviewed(r), Active(r),
           req[r].report # NoReport =>
               /\ report[req[r].report].reporter # Nobody
               /\ req[r].choice = "delete_video" => ~report'[req[r].report].here
               /\ req[r].choice = "ban_user" => Culprit(report[req[r].report]) \in wasBanned'
    PROVE  Does(r)
  <1> DEFINE q == req[r]
             p == [q EXCEPT !.step = "UpdateReport"]
  <1>1. q \in Request /\ Shape(q) /\ q.by \in User
    BY DEF Requests, Good, Shape, Active
  <1>2. "UpdateReport" \in Step  BY DEF Step
  <1>3. /\ p \in Request /\ p.step = "UpdateReport" /\ p.by = q.by
        /\ p.report = q.report /\ p.choice = q.choice
    BY <1>1, <1>2, StepFields
  <1>4. \/ End(r)
        \/ q.report # NoReport /\ Becomes(r, p)
    BY DEF Reviewed, Done, Becomes
  <1> HIDE DEF p
  <1>5. CASE q.report # NoReport /\ Becomes(r, p)
    <2>1. q.report \in Report
      BY <1>1, <1>5 DEF Request
    <2>2. Shape(p)
      BY <1>1, <1>3, <2>1 DEF Shape, Ready, VideoSteps, CommentSteps, PlaylistSteps, UserSteps, ReviewSteps
    <2>3. /\ report'[q.report].reporter # Nobody
          /\ Culprit(report'[q.report]) = Culprit(report[q.report])
      BY <1>5, <2>1 DEF Lasting, Filed, Culprit
    <2>4. Vouched(p, comment', report', wasBanned')
      BY <1>3, <1>5, <2>3 DEF Vouched
    <2> QED  BY <1>3, <1>5, <2>2, <2>4, BecomesGood DEF Good, Does
  <1> QED  BY <1>4, <1>5, EndDoes

LEMMA BansDo ==
    ASSUME Data, Requests, NEW r \in Req, Ban(r) \/ Unban(r)
    PROVE  Does(r)
  <1> DEFINE q == req[r]
  <1>1. /\ q \in Request /\ Shape(q) /\ Vouched(q, comment, report, wasBanned)
        /\ q.step \in {"Ban", "Unban"}
    BY DEF Requests, Good, Ban, Unban, Runs
  <1>2. q.user \in User
    BY <1>1 DEF Shape, UserSteps
  <1>3. UNCHANGED <<video, rating, comment, subs, subscribers, playlist, entry, later, watched, notes, report, joined>>
    BY DEF Ban, Unban, history
  <1>4. banned' \subseteq User /\ wasBanned' \subseteq User /\ wasBanned \subseteq wasBanned'
    BY <1>2 DEF Ban, Unban, history, Data, Typed
  <1>5. Lasting  BY <1>3, <1>4, SameLasting
  <1>6. Kept  BY <1>3 DEF Kept
  <1>7. Typed'  BY <1>3, <1>4 DEF Data, Typed
  <1>8. Data'  BY <1>3, <1>5, <1>6, <1>7, PlacedStay, RowsStay DEF Data, Rows, Placed
  <1>9. CASE Unban(r)
    BY <1>5, <1>8, <1>9, EndDoes DEF Unban
  <1>10. CASE Ban(r)
    <2>1. q.step = "Ban" /\ q.user \in wasBanned' /\ Reviewed(r) /\ Active(r)
      BY <1>10 DEF Ban, Runs, Active
    <2>2. q.report # NoReport => /\ report[q.report].reporter # Nobody
                                 /\ q.choice = "ban_user" /\ Culprit(report[q.report]) = q.user
      BY <1>1, <2>1 DEF Vouched
    <2> QED  BY <1>5, <1>8, <2>1, <2>2, ReviewedDoes
  <1> QED  BY <1>9, <1>10

LEMMA DeleteVideoDoes ==
    ASSUME Data, Requests, NEW r \in Req, DeleteVideo(r)
    PROVE  Does(r) /\ notes' \subseteq notes
  <1> DEFINE q == req[r]
             v == q.video
  <1>1. /\ q \in Request /\ Shape(q) /\ Vouched(q, comment, report, wasBanned)
        /\ q.step = "DeleteVideo" /\ Active(r)
    BY DEF Requests, Good, DeleteVideo, Runs, Active
  <1>2. v \in Video
    BY <1>1 DEF Shape, VideoSteps
  <1>3. UNCHANGED <<subs, subscribers, banned, history>>
    BY DEF DeleteVideo
  <1>4. CASE ~video[v].here
    <2>1. End(r) /\ UNCHANGED <<video, rating, comment, entry, playlist, later, watched, notes, report>>
      BY <1>4 DEF DeleteVideo
    <2> QED  BY <1>3, <2>1, TablesSame, EndDoes DEF tables
  <1>5. CASE video[v].here
    <2>1. /\ video' = [video EXCEPT ![v].here = FALSE]
          /\ rating' = [x \in DOMAIN rating |-> IF x[2] = v THEN "none" ELSE rating[x]]
          /\ comment' = [c \in Comment |-> IF comment[c].video = v THEN [comment[c] EXCEPT !.here = FALSE]
                                           ELSE comment[c]]
          /\ entry' = [x \in DOMAIN entry |-> IF x[2] = v THEN Absent ELSE entry[x]]
          /\ playlist' = [p \in Playlist |->
                IF entry[<<p, v>>] # Absent THEN [playlist[p] EXCEPT !.count = @ - 1] ELSE playlist[p]]
          /\ later' = {x \in later : x[2] # v}
          /\ watched' = {x \in watched : x[2] # v}
          /\ notes' = {m \in notes : m.video # v}
          /\ report' = [x \in Report |->
                IF report[x].video = v THEN [report[x] EXCEPT !.here = FALSE] ELSE report[x]]
          /\ Reviewed(r)
      BY <1>5 DEF DeleteVideo
    <2> HIDE DEF v, q
    <2>2. /\ video' \in [Video -> VideoRow]
          /\ \A w \in Video : w # v => video'[w].here = video[w].here
      BY <1>2, <2>1 DEF Data, Typed, VideoRow
    <2>3. /\ rating' \in [User \X Video -> Rating]
          /\ \A x \in User \X Video : rating'[x] # "none" => x[2] # v /\ rating[x] # "none"
      BY <2>1 DEF Data, Typed, Rating
    <2>4. ASSUME NEW c \in Comment
          PROVE  /\ comment'[c] \in CommentRow
                 /\ comment'[c].author = comment[c].author /\ comment'[c].video = comment[c].video
                 /\ comment'[c].parent = comment[c].parent
                 /\ comment'[c].here => comment[c].here /\ comment[c].video # v
                 /\ comment[c].video # v => comment'[c] = comment[c]
      <3>1. comment[c] \in CommentRow  BY DEF Data, Typed
      <3>2. CASE comment[c].video = v
        <4>1. comment'[c] = [comment[c] EXCEPT !.here = FALSE]
          BY <2>1, <3>2
        <4> QED  BY <3>1, <3>2, <4>1 DEF CommentRow
      <3>3. CASE comment[c].video # v
        <4>1. comment'[c] = comment[c]  BY <2>1, <3>3
        <4> QED  BY <3>1, <3>3, <4>1
      <3> QED  BY <3>2, <3>3
    <2>5. comment' \in [Comment -> CommentRow]
      BY <2>1, <2>4
    <2>6. /\ entry' \in [Playlist \X Video -> Int]
          /\ \A x \in Playlist \X Video : entry'[x] # Absent => x[2] # v /\ entry[x] # Absent
      BY <2>1 DEF Data, Typed, Absent
    <2>7. ASSUME NEW p \in Playlist
          PROVE  playlist'[p] \in PlaylistRow /\ playlist'[p].here = playlist[p].here
      <3>1. playlist[p] \in PlaylistRow  BY DEF Data, Typed
      <3>2. CASE entry[<<p, v>>] # Absent
        <4> DEFINE n == playlist[p].count - 1
        <4>1. n \in Int  BY <3>1 DEF PlaylistRow
        <4>2. playlist'[p] = [playlist[p] EXCEPT !.count = n]
          BY <2>1, <3>2
        <4> HIDE DEF n
        <4> QED  BY <3>1, <4>1, <4>2 DEF PlaylistRow
      <3>3. CASE entry[<<p, v>>] = Absent
        <4>1. playlist'[p] = playlist[p]  BY <2>1, <3>3
        <4> QED  BY <3>1, <4>1
      <3> QED  BY <3>2, <3>3
    <2>8. playlist' \in [Playlist -> PlaylistRow]
      BY <2>1, <2>7
    <2>9. ASSUME NEW x \in Report
          PROVE  /\ report'[x] \in ReportRow
                 /\ report'[x].reporter = report[x].reporter /\ report'[x].video = report[x].video
                 /\ report'[x].user = report[x].user
                 /\ report[x].video = v => ~report'[x].here
                 /\ report[x].video # v => report'[x] = report[x]
      <3>1. report[x] \in ReportRow  BY DEF Data, Typed
      <3>2. CASE report[x].video = v
        <4>1. report'[x] = [report[x] EXCEPT !.here = FALSE]
          BY <2>1, <3>2
        <4> QED  BY <3>1, <3>2, <4>1 DEF ReportRow
      <3>3. CASE report[x].video # v
        <4>1. report'[x] = report[x]  BY <2>1, <3>3
        <4> QED  BY <3>1, <3>3, <4>1
      <3> QED  BY <3>2, <3>3
    <2>10. report' \in [Report -> ReportRow]
      BY <2>1, <2>9
    <2>11. /\ later' \subseteq later /\ \A x \in later' : x[2] # v
           /\ watched' \subseteq watched /\ \A x \in watched' : x[2] # v
           /\ notes' \subseteq notes /\ \A m \in notes' : m.video # v
      BY <2>1
    <2>12. Lasting
      BY <1>3, <2>4, <2>9 DEF Lasting, history
    <2>13. Typed'
      BY <1>3, <2>2, <2>3, <2>5, <2>6, <2>8, <2>10, <2>11 DEF Data, Typed, history
    <2>14. CommentRows'
      <3>1. NoCommentRow.video = NoVideo  BY DEF NoCommentRow
      <3> QED  BY <1>2, <2>4, <3>1, CommunityAssumption DEF Data, Rows, CommentRows, Used
    <2>15. ReportRows'
      <3>1. NoReportRow.video = NoVideo  BY DEF NoReportRow
      <3> QED  BY <1>2, <2>9, <3>1, CommunityAssumption DEF Data, Rows, ReportRows, Filed
    <2>16. NoteRows'
      <3> SUFFICES ASSUME NEW m \in notes'
                   PROVE  /\ m.to # m.actor
                          /\ m.type = "subscriber" <=> m.comment = NoComment
                          /\ m.comment = NoComment <=> m.video = NoVideo
                          /\ m.comment # NoComment =>
                                News(m.comment, m.video, m.to, m.type = "reply", comment')
        BY DEF NoteRows
      <3>1. m \in notes  BY <2>11
      <3> QED  BY <2>12, <3>1, NewsLasts DEF Data, Rows, NoteRows
    <2>17. CommentsPlaced'
      <3> SUFFICES ASSUME NEW c \in Comment, comment'[c].here
                   PROVE  /\ video'[comment'[c].video].here
                          /\ comment'[c].parent # NoComment =>
                                comment'[comment'[c].parent].here
                                /\ comment'[comment'[c].parent].video = comment'[c].video
        BY DEF CommentsPlaced
      <3>1. /\ comment[c].here /\ comment[c].video # v /\ comment[c].video \in Video
            /\ comment[c].parent \in Comment \cup {NoComment}
        BY <2>4, HereUsed DEF Data, Rows, CommentRows, Typed, CommentRow
      <3>2. /\ video[comment[c].video].here
            /\ comment[c].parent # NoComment =>
                  comment[comment[c].parent].here
                  /\ comment[comment[c].parent].video = comment[c].video
        BY <3>1 DEF Data, Placed, CommentsPlaced
      <3> QED  BY <2>2, <2>4, <3>1, <3>2
    <2>18. MarksPlaced'
      BY <2>2, <2>3, <2>11 DEF Data, Placed, MarksPlaced
    <2>19. EntriesPlaced'
      BY <2>2, <2>6, <2>7 DEF Data, Placed, EntriesPlaced
    <2>20. NotesPlaced'
      <3> SUFFICES ASSUME NEW m \in notes', m.video # NoVideo
                   PROVE  video'[m.video].here /\ comment'[m.comment].here
        BY DEF NotesPlaced
      <3>1. m \in notes /\ m.video # v /\ m.video \in Video /\ m.comment # NoComment
        BY <2>11 DEF Data, Typed, Note, Rows, NoteRows
      <3>2. m.comment \in Comment /\ comment[m.comment].video = m.video
        BY <3>1 DEF Data, Rows, NoteRows, News
      <3>3. video[m.video].here /\ comment[m.comment].here
        BY <3>1 DEF Data, Placed, NotesPlaced
      <3> QED  BY <2>2, <2>4, <3>1, <3>2, <3>3
    <2>21. ReportsPlaced'
      <3> SUFFICES ASSUME NEW x \in Report, report'[x].here, report'[x].video # NoVideo
                   PROVE  video'[report'[x].video].here
        BY DEF ReportsPlaced
      <3>1. report[x].video # v /\ report'[x] = report[x] /\ report[x].video \in Video
        BY <2>9 DEF Data, Typed, ReportRow
      <3> QED  BY <2>2, <3>1 DEF Data, Placed, ReportsPlaced
    <2>22. ReviewIsBacked'
      BY <1>3, <2>9 DEF Data, ReviewIsBacked, history
    <2>23. Data'
      BY <2>13, <2>14, <2>15, <2>16, <2>17, <2>18, <2>19, <2>20, <2>21, <2>22 DEF Data, Rows, Placed
    <2>24. q.report # NoReport => /\ report[q.report].reporter # Nobody /\ ~report'[q.report].here
                                  /\ q.choice = "delete_video"
      BY <1>1, <2>9 DEF Vouched, Request, v
    <2> QED  BY <1>1, <2>1, <2>11, <2>12, <2>23, <2>24, ReviewedDoes DEF q
  <1>6. video[v].here \in BOOLEAN
    BY <1>2 DEF Data, Typed, VideoRow
  <1> QED  BY <1>4, <1>5, <1>6

-----------------------------------------------------------------------------
(* Locks, and appending to a playlist *)

LEMMA TakeLocks ==
    ASSUME Locks, NEW r \in Req, NEW needs, Take(r, needs)
    PROVE  Locks' /\ \A s \in Req : held[s] \subseteq held'[s]
  <1>1. PICK l \in Missing(r, needs) :
            /\ \A s \in Req \ {r} : ~Denies(s, l)
            /\ held' = [held EXCEPT ![r] = @ \cup {l}]
    BY DEF Take
  <1>2. DOMAIN held = Req  BY DEF Locks
  <1>3. /\ held'[r] = held[r] \cup {l}
        /\ \A s \in Req : s # r => held'[s] = held[s]
    BY <1>1, <1>2
  <1>4. held' = [s \in Req |-> held'[s]]
    BY <1>1 DEF Locks
  <1>5. ASSUME NEW s \in Req, NEW t \in Req, s # t, NEW m \in held'[s], NEW h \in held'[t],
               h.row = m.row, Conflicting(h.mode, m.mode)
        PROVE  FALSE
    <2>1. \A x \in held[s] : \A y \in held[t] : y.row = x.row => ~Conflicting(y.mode, x.mode)
      BY <1>5 DEF Locks, Exclusive, Denies
    <2>2. Conflicting(m.mode, h.mode)
      BY <1>5 DEF Conflicting
    <2>3. CASE s = r
      BY <1>1, <1>3, <1>5, <2>1, <2>3 DEF Denies
    <2>4. CASE t = r
      BY <1>1, <1>3, <1>5, <2>1, <2>2, <2>4 DEF Denies
    <2>5. CASE s # r /\ t # r
      BY <1>3, <1>5, <2>1, <2>5
    <2> QED  BY <2>3, <2>4, <2>5
  <1>6. Exclusive'
    BY <1>5 DEF Exclusive, Denies
  <1> QED  BY <1>3, <1>4, <1>6 DEF Locks

LEMMA ReleaseLocks ==
    ASSUME Locks, NEW r \in Req, Release(r)
    PROVE  Locks' /\ \A s \in Req : s # r => held'[s] = held[s]
  <1>1. held' = [s \in Req |-> held'[s]]
    BY DEF Locks, Release
  <1>2. /\ held'[r] = {}
        /\ \A s \in Req : s # r => held'[s] = held[s]
    BY DEF Locks, Release
  <1>3. Exclusive'
    BY <1>2 DEF Locks, Exclusive, Denies
  <1> QED  BY <1>1, <1>2, <1>3 DEF Locks

\* Positions are given back, never taken, unless someone appends.
LEMMA AppendingStays ==
    ASSUME Appending, Requests, NEW r \in Req, NEW q, Becomes(r, q), q.step # "AddPlaylistVideo",
           \A s \in Req : s # r => held[s] \subseteq held'[s],
           \A x \in Playlist \X Video : entry'[x] \in {entry[x], Absent}
    PROVE  Appending'
  <1> SUFFICES ASSUME NEW s \in Req, req'[s].step = "AddPlaylistVideo"
               PROVE  /\ Lock("playlist", req'[s].playlist, "delete") \in held'[s]
                      /\ req'[s].pos \in Nat
                      /\ \A v \in Video : entry'[<<req'[s].playlist, v>>] # req'[s].pos
    BY DEF Appending
  <1>1. s # r /\ req'[s] = req[s]
    BY DEF Becomes, Requests
  <1>2. /\ Lock("playlist", req[s].playlist, "delete") \in held[s]
        /\ req[s].pos \in Nat
        /\ \A v \in Video : entry[<<req[s].playlist, v>>] # req[s].pos
    BY <1>1 DEF Appending
  <1>3. req[s].playlist \in Playlist
    BY <1>1 DEF Requests, Good, Shape, PlaylistSteps
  <1> QED  BY <1>1, <1>2, <1>3 DEF Absent

\* The one who appends is the only one about to append to that playlist.
LEMMA AppendingAppends ==
    ASSUME Appending, Locks, Requests, Typed, NEW r \in Req, AddPlaylistVideo(r)
    PROVE  Appending'
  <1> DEFINE p == req[r].playlist
  <1>1. Becomes(r, Idle) /\ Release(r) /\ req[r].step = "AddPlaylistVideo"
    BY DEF AddPlaylistVideo, Runs, End, Done, Becomes
  <1>2. \A s \in Req : s # r => held'[s] = held[s]
    BY <1>1, ReleaseLocks
  <1>3. \A x \in Playlist \X Video : x[1] # p => entry'[x] = entry[x]
    <2> DEFINE x0 == <<p, req[r].video>>
    <2>1. \/ UNCHANGED entry
          \/ entry' = [entry EXCEPT ![x0] = req[r].pos]
      BY DEF AddPlaylistVideo
    <2>2. x0[1] = p  OBVIOUS
    <2> HIDE DEF x0
    <2> QED  BY <2>1, <2>2 DEF Typed
  <1> SUFFICES ASSUME NEW s \in Req, req'[s].step = "AddPlaylistVideo"
               PROVE  /\ Lock("playlist", req'[s].playlist, "delete") \in held'[s]
                      /\ req'[s].pos \in Nat
                      /\ \A v \in Video : entry'[<<req'[s].playlist, v>>] # req'[s].pos
    BY DEF Appending
  <1>4. s # r /\ req'[s] = req[s]
    BY <1>1 DEF Becomes, Requests, Idle
  <1>5. /\ Lock("playlist", req[s].playlist, "delete") \in held[s]
        /\ req[s].pos \in Nat
        /\ \A v \in Video : entry[<<req[s].playlist, v>>] # req[s].pos
    BY <1>4 DEF Appending
  <1>6. req[s].playlist \in Playlist
    BY <1>4 DEF Requests, Good, Shape, PlaylistSteps
  <1>7. req[s].playlist # p
    <2>1. Lock("playlist", p, "delete") \in held[r]
      BY <1>1 DEF Appending
    <2>2. Conflicting("delete", "delete")
      BY DEF Conflicting
    <2> QED  BY <1>4, <1>5, <2>1, <2>2 DEF Locks, Exclusive, Denies, Lock
  <1> QED  BY <1>2, <1>3, <1>4, <1>5, <1>6, <1>7

\* What a statement with all of its locks holds of its first stage.
LEMMA FirstStage ==
    ASSUME NEW r \in Req, NEW locks, Missing(r, << locks >>) = {}
    PROVE  locks \subseteq held[r]
  <1> SUFFICES ASSUME NEW l \in locks, l \notin held[r]  PROVE FALSE
    OBVIOUS
  <1> DEFINE stages == << locks >>
  <1>1. 1 \in {n \in DOMAIN stages : \A k \in 1..(n - 1) : stages[k] \subseteq held[r]}
    OBVIOUS
  <1>2. l \in stages[1] \ held[r]
    OBVIOUS
  <1> HIDE DEF stages
  <1>3. l \in Missing(r, stages)
    BY <1>1, <1>2 DEF Missing
  <1> QED  BY <1>3 DEF stages

LEMMA Greatest ==
    ASSUME NEW S \in SUBSET Int, IsFiniteSet(S), S # {}
    PROVE  \E n \in S : \A m \in S : m <= n
  <1> DEFINE Bad == {T \in FiniteSubsetsOf(S) : T # {} /\ \A n \in T : \E m \in T : ~(m <= n)}
  <1> SUFFICES ASSUME Bad # {}  PROVE FALSE
    BY FS_FiniteSubsetsOfFinite
  <1>1. PICK T \in Bad : \A U \in Bad : <<U, T>> \notin StrictSubsetOrdering(S)
    <2>1. IsWellFoundedOn(StrictSubsetOrdering(S), FiniteSubsetsOf(S))
      BY FS_StrictSubsetOrderingWellFounded
    <2> QED  BY <2>1, WFMin
  <1>2. T \in SUBSET S /\ IsFiniteSet(T) /\ T # {} /\ \A n \in T : \E m \in T : ~(m <= n)
    BY DEF FiniteSubsetsOf
  <1>3. PICK x \in T : TRUE
    BY <1>2
  <1> DEFINE U == T \ {x}
  <1>4. U \in FiniteSubsetsOf(S) /\ <<U, T>> \in StrictSubsetOrdering(S)
    BY <1>2, <1>3, FS_RemoveElement DEF FiniteSubsetsOf, StrictSubsetOrdering
  <1>5. U # {} /\ \E y \in U : \A m \in U : m <= y
    <2>1. U # {}
      BY <1>2, <1>3
    <2> QED  BY <1>1, <1>4, <2>1
  <1>6. PICK y \in U : \A m \in U : m <= y
    BY <1>5
  <1>7. x \in Int /\ y \in Int /\ \A m \in T : m \in Int /\ (m = x \/ m <= y)
    BY <1>2, <1>3, <1>6
  <1> QED  BY <1>2, <1>3, <1>6, <1>7

LEMMA NextIsFree ==
    ASSUME Typed, NEW p \in Playlist
    PROVE  /\ NextPosition(p) \in Nat
           /\ \A v \in Video : entry[<<p, v>>] # NextPosition(p)
  <1> DEFINE at == {entry[<<p, v>>] : v \in Video}
             used == at \cup {-1}
             f == [v \in Video |-> entry[<<p, v>>]]
             max == CHOOSE n \in used : \A m \in used : m <= n
  <1>1. f \in Surjection(Video, at)
    BY DEF Surjection
  <1>2. IsFiniteSet(at)
    BY <1>1, FS_Surjection, CommunityAssumption
  <1>3. used \in SUBSET Int /\ used # {} /\ -1 \in used /\ \A v \in Video : entry[<<p, v>>] \in used
    <2>1. \A v \in Video : entry[<<p, v>>] \in Int
      BY DEF Typed
    <2>2. at \in SUBSET Int  BY <2>1
    <2>3. \A v \in Video : entry[<<p, v>>] \in at  OBVIOUS
    <2> HIDE DEF at
    <2> QED  BY <2>2, <2>3
  <1>4. IsFiniteSet(used)
    BY <1>2, FS_AddElement
  <1>5. NextPosition(p) = 1 + max
    BY DEF NextPosition
  <1> HIDE DEF used
  <1>6. max \in used /\ \A m \in used : m <= max
    BY <1>3, <1>4, Greatest
  <1> HIDE DEF max
  <1> QED  BY <1>3, <1>5, <1>6

LEMMA AppendFields ==
    ASSUME NEW q \in Request, NEW pos \in Int
    PROVE  LET p == [q EXCEPT !.step = "AddPlaylistVideo", !.pos = pos]
           IN  /\ p \in Request /\ p.step = "AddPlaylistVideo" /\ p.by = q.by
               /\ p.playlist = q.playlist /\ p.video = q.video /\ p.pos = pos /\ p.n = q.n
  <1>1. "AddPlaylistVideo" \in Step  BY DEF Step
  <1> QED  BY <1>1 DEF Request

LEMMA LockPlaylistAppends ==
    ASSUME Data, Requests, Locks, Appending, NEW r \in Req, LockPlaylist(r)
    PROVE  Requests' /\ Locks' /\ Appending' /\ UNCHANGED <<tables, history, started>>
  <1> DEFINE old == req[r]
             p == old.playlist
             pos == NextPosition(p)
             q == [old EXCEPT !.step = "AddPlaylistVideo", !.pos = pos]
  <1>1. /\ old \in Request /\ Shape(old) /\ old.step = "LockPlaylist" /\ Missing(r, Needs(old)) = {}
        /\ UNCHANGED <<tables, history, started>>
    BY DEF Requests, Good, LockPlaylist, Runs, Waiting, End, Done
  <1>2. p \in Playlist /\ old.video \in Video /\ old.by \in User
    BY <1>1 DEF Shape, PlaylistSteps, VideoSteps
  <1>3. UNCHANGED entry /\ Lasting
    BY <1>1, SameLasting DEF tables, history
  <1>4. \/ playlist[p].here /\ Becomes(r, q) /\ UNCHANGED held
        \/ End(r)
    BY DEF LockPlaylist, Becomes, Requests
  <1>5. CASE End(r)
    <2>1. Becomes(r, Idle) /\ Release(r)
      BY <1>5 DEF End, Done, Becomes
    <2>2. Idle.step # "AddPlaylistVideo"  BY DEF Idle
    <2>3. Locks' /\ \A s \in Req : s # r => held[s] \subseteq held'[s]
      BY <2>1, ReleaseLocks
    <2> QED  BY <1>1, <1>3, <2>1, <2>2, <2>3, EndGood, AppendingStays
  <1>6. CASE playlist[p].here /\ Becomes(r, q) /\ UNCHANGED held
    <2>1. Lock("playlist", p, "delete") \in held[r]
      <3>1. Needs(old) = << {Lock("playlist", p, "delete")} >>
        BY <1>1, <1>2, <1>6 DEF Needs, OnPlaylist
      <3> QED  BY <1>1, <3>1, FirstStage
    <2>2. pos \in Nat /\ \A v \in Video : entry[<<p, v>>] # pos
      BY <1>2, NextIsFree DEF Data
    <2>3. pos \in Int  BY <2>2
    <2> HIDE DEF pos
    <2>4. /\ q \in Request /\ q.step = "AddPlaylistVideo" /\ q.by = old.by /\ q.playlist = p
          /\ q.video = old.video /\ q.pos = pos
      BY <1>1, <2>3, AppendFields
    <2> HIDE DEF q, p
    <2>5. Shape(q)
      BY <1>2, <2>4 DEF Shape, Ready, VideoSteps, CommentSteps, PlaylistSteps, UserSteps, ReviewSteps
    <2>6. Vouched(q, comment', report', wasBanned')
      BY <2>4 DEF Vouched
    <2>7. Requests'
      BY <1>3, <1>6, <2>4, <2>5, <2>6, BecomesGood DEF Good
    <2>8. Appending'
      <3>1. ASSUME NEW s \in Req  PROVE req'[s] = IF s = r THEN q ELSE req[s]
        BY <1>6 DEF Becomes, Requests
      <3> QED  BY <1>3, <1>6, <2>1, <2>2, <2>4, <3>1 DEF Appending
    <2>9. Locks'  BY <1>6 DEF Locks, Exclusive, Denies
    <2> QED  BY <1>1, <2>7, <2>8, <2>9
  <1> QED  BY <1>4, <1>5, <1>6

-----------------------------------------------------------------------------
(* Notifications *)

\* A request goes on under its number, or ends.
SameNumber(r, q) == q.step # "idle" => q.n = req[r].n /\ Active(r)

LEMMA NumberedStays ==
    ASSUME Numbered, Requests, NEW r \in Req, NEW q, Becomes(r, q), SameNumber(r, q),
           UNCHANGED started,
           \A m \in notes' : \/ \E l \in notes : l.n = m.n
                             \/ m.n = req[r].n /\ Active(r) /\ q.step = "idle",
           \A l, m \in notes' : l.n = m.n => l = m
    PROVE  Numbered'
  <1>1. \A s \in Req : req'[s] = IF s = r THEN q ELSE req[s]
    BY DEF Becomes, Requests
  <1>2. \A s \in Req : Active(s)' => Active(s) /\ req'[s].n = req[s].n
    BY <1>1 DEF Active, SameNumber
  <1>3. \A s \in Req : Active(s)' => req'[s].n \in 1..started
    BY <1>2 DEF Numbered
  <1>4. \A s, t \in Req : Active(s)' /\ Active(t)' /\ req'[s].n = req'[t].n => s = t
    BY <1>2 DEF Numbered
  <1>5. ASSUME NEW m \in notes'
        PROVE  m.n <= started /\ \A s \in Req : Active(s)' => m.n # req'[s].n
    <2>1. CASE \E l \in notes : l.n = m.n
      BY <1>2, <2>1 DEF Numbered
    <2>2. CASE m.n = req[r].n /\ Active(r) /\ q.step = "idle"
      <3>1. ~Active(r)'  BY <1>1, <2>2 DEF Active
      <3> QED  BY <1>2, <2>2, <3>1 DEF Numbered
    <2> QED  BY <1>5, <2>1, <2>2
  <1> QED  BY <1>3, <1>4, <1>5 DEF Numbered

LEMMA NumberedFewer ==
    ASSUME Numbered, Requests, NEW r \in Req, NEW q, Becomes(r, q), SameNumber(r, q),
           UNCHANGED started, notes' \subseteq notes
    PROVE  Numbered'
  <1>1. \A l, m \in notes' : l.n = m.n => l = m
    BY DEF Numbered
  <1>2. \A m \in notes' : \E l \in notes : l.n = m.n
    OBVIOUS
  <1> QED  BY <1>1, <1>2, NumberedStays

LEMMA EarnedStays ==
    ASSUME Typed, Earned, \A s, u \in User : Telling(s, u)' \subseteq Telling(s, u), UNCHANGED joined
    PROVE  Earned'
  <1> SUFFICES ASSUME NEW s \in User, NEW u \in User
               PROVE  Cardinality(Telling(s, u)') <= joined[<<s, u>>]
    BY DEF Earned
  <1>1. IsFiniteSet(Telling(s, u))
    <2>1. IsFiniteSet(0..MaxRequests)
      BY FS_Interval, CommunityAssumption
    <2>2. Telling(s, u) \in SUBSET (0..MaxRequests)
      BY DEF Telling
    <2> QED  BY <2>1, <2>2, FS_Subset
  <1>2. Telling(s, u)' \in SUBSET Telling(s, u)
    OBVIOUS
  <1>3. Cardinality(Telling(s, u)') <= Cardinality(Telling(s, u))
    BY <1>1, <1>2, FS_Subset
  <1>4. Cardinality(Telling(s, u)) <= joined[<<s, u>>]
    BY DEF Earned
  <1>5. Cardinality(Telling(s, u)) \in Nat /\ Cardinality(Telling(s, u)') \in Nat
    BY <1>1, <1>2, FS_CardinalityType, FS_Subset
  <1>6. joined[<<s, u>>] \in Nat
    BY DEF Typed
  <1> QED  BY <1>3, <1>4, <1>5, <1>6

\* Nobody is told more than before.
LEMMA TellingStays ==
    ASSUME Requests, NEW r \in Req, NEW q, Becomes(r, q), NEW s, NEW u, ~WillTell(q, s, u),
           \A m \in notes' : Tells(m, s, u) => m.n \in Telling(s, u)
    PROVE  Telling(s, u)' \subseteq Telling(s, u)
  <1>1. \A t \in Req : req'[t] = IF t = r THEN q ELSE req[t]
    BY DEF Becomes, Requests
  <1> SUFFICES ASSUME NEW n \in Telling(s, u)'  PROVE n \in Telling(s, u)
    OBVIOUS
  <1>2. /\ n \in 0..MaxRequests
        /\ \/ \E m \in notes' : m.n = n /\ Tells(m, s, u)
           \/ \E t \in Req : req'[t].n = n /\ WillTell(req'[t], s, u)
    BY DEF Telling, WillTell, Tells
  <1>3. CASE \E m \in notes' : m.n = n /\ Tells(m, s, u)
    BY <1>3
  <1>4. ASSUME NEW t \in Req, req'[t].n = n, WillTell(req'[t], s, u)  PROVE n \in Telling(s, u)
    <2>1. req'[t] = req[t]
      BY <1>1, <1>4
    <2> QED  BY <1>2, <1>4, <2>1 DEF Telling
  <1> QED  BY <1>2, <1>3, <1>4

LEMMA EarnedFewer ==
    ASSUME Typed, Earned, Requests, NEW r \in Req, NEW q, Becomes(r, q),
           q.step # "Notify" \/ q.comment # NoComment, notes' \subseteq notes, UNCHANGED joined
    PROVE  Earned'
  <1> SUFFICES ASSUME NEW s \in User, NEW u \in User
               PROVE  Telling(s, u)' \subseteq Telling(s, u)
    BY EarnedStays
  <1>1. ~WillTell(q, s, u)
    BY DEF WillTell
  <1>2. \A m \in notes : m.n \in 0..MaxRequests
    BY DEF Typed, Note
  <1>3. \A m \in notes' : Tells(m, s, u) => m.n \in Telling(s, u)
    BY <1>2 DEF Telling
  <1> QED  BY <1>1, <1>3, TellingStays

LEMMA BeginNumbers ==
    ASSUME Typed, Numbered, Earned, Requests, NEW r \in Req, NEW q, Fresh(q), Begin(r, q)
    PROVE  Numbered' /\ Earned'
  <1> DEFINE p == [q EXCEPT !.n = started + 1]
  <1>1. started + 1 \in 0..MaxRequests /\ started' = started + 1 /\ started \in Nat
    BY CommunityAssumption DEF Begin, Numbered
  <1>2. p \in Request /\ p.step = q.step /\ p.n = started + 1
    BY <1>1 DEF Request, Fresh
  <1>3. Becomes(r, p) /\ UNCHANGED <<notes, joined>>
    BY DEF Begin, Becomes, tables, history
  <1> HIDE DEF p
  <1>4. \A s \in Req : req'[s] = IF s = r THEN p ELSE req[s]
    BY <1>3 DEF Becomes, Requests
  <1>5. \A m \in notes : m.n \in 0..MaxRequests
    BY DEF Typed, Note
  <1>6. \A s \in Req : Active(s)' =>
            IF s = r THEN req'[s].n = started + 1
            ELSE req'[s].n = req[s].n /\ Active(s) /\ req[s].n \in 1..started
    BY <1>2, <1>4 DEF Active, Numbered
  <1>7. Numbered'
    <2>1. \A s \in Req : Active(s)' => req'[s].n \in 1..started'
      BY <1>1, <1>6
    <2>2. \A s, t \in Req : Active(s)' /\ Active(t)' /\ req'[s].n = req'[t].n => s = t
      BY <1>1, <1>6 DEF Numbered
    <2>3. \A m \in notes' : m.n <= started'
      BY <1>1, <1>3, <1>5 DEF Numbered
    <2>4. \A m \in notes', s \in Req : Active(s)' => m.n # req'[s].n
      BY <1>1, <1>3, <1>5, <1>6 DEF Numbered
    <2>5. \A l, m \in notes' : l.n = m.n => l = m
      BY <1>3 DEF Numbered
    <2> QED  BY <1>1, <2>1, <2>2, <2>3, <2>4, <2>5 DEF Numbered
  <1>8. p.step # "Notify"
    BY <1>2 DEF Fresh
  <1> QED  BY <1>3, <1>7, <1>8, EarnedFewer

LEMMA SubscriptionsEarn ==
    ASSUME Data, Numbered, Earned, Requests, NEW r \in Req, CreateSubscription(r)
    PROVE  Numbered' /\ Earned'
  <1> DEFINE q == req[r]
             pair == <<q.by, q.user>>
             p == [q EXCEPT !.step = "Notify"]
  <1>1. q \in Request /\ Shape(q) /\ q.step = "CreateSubscription"
    BY DEF Requests, Good, CreateSubscription, Runs
  <1>2. q.by \in User /\ q.user \in User /\ pair \in User \X User /\ q.comment = NoComment
    BY <1>1 DEF Shape, Ready, UserSteps
  <1>3. /\ UNCHANGED <<notes, started>>
        /\ \/ Becomes(r, Idle) /\ UNCHANGED joined
           \/ Becomes(r, p) /\ joined' = [joined EXCEPT ![pair] = @ + 1]
    BY DEF CreateSubscription, End, Done, Becomes
  <1> HIDE DEF q
  <1>4. "Notify" \in Step  BY DEF Step
  <1>5. /\ p \in Request /\ p.step = "Notify" /\ p.by = q.by /\ p.user = q.user
        /\ p.comment = q.comment /\ p.n = q.n
    BY <1>1, <1>4, StepFields
  <1> HIDE DEF p
  <1>6. CASE Becomes(r, Idle) /\ UNCHANGED joined
    <2>1. Idle.step = "idle" /\ Idle.step # "Notify"
      BY DEF Idle
    <2> QED  BY <1>3, <1>6, <2>1, NumberedFewer, EarnedFewer DEF Data, SameNumber
  <1>7. CASE Becomes(r, p) /\ joined' = [joined EXCEPT ![pair] = @ + 1]
    <2>1. SameNumber(r, p)
      BY <1>1, <1>5 DEF SameNumber, Active, q
    <2>2. Numbered'
      BY <1>3, <1>7, <2>1, NumberedFewer
    <2>3. \A t \in Req : req'[t] = IF t = r THEN p ELSE req[t]
      BY <1>7 DEF Becomes, Requests
    <2>4. ASSUME NEW s \in User, NEW u \in User
          PROVE  Cardinality(Telling(s, u)') <= joined'[<<s, u>>]
      <3>1. IsFiniteSet(Telling(s, u))
        <4>1. IsFiniteSet(0..MaxRequests)
          BY FS_Interval, CommunityAssumption
        <4>2. Telling(s, u) \in SUBSET (0..MaxRequests)
          BY DEF Telling
        <4> QED  BY <4>1, <4>2, FS_Subset
      <3>2. Telling(s, u)' \subseteq Telling(s, u) \cup (IF <<s, u>> = pair THEN {q.n} ELSE {})
        <4>1. /\ notes' = notes
              /\ Telling(s, u)' = {n \in 0..MaxRequests : 
                    \/ \E m \in notes' : m.n = n /\ Tells(m, s, u)
                    \/ \E t \in Req : req'[t].n = n /\ WillTell(req'[t], s, u)}
          BY <1>3 DEF Telling, Tells, WillTell
        <4>2. \A t \in Req : WillTell(req'[t], s, u) =>
                  \/ req'[t] = req[t]
                  \/ req'[t].n = q.n /\ <<s, u>> = pair
          BY <1>5, <2>3 DEF WillTell
        <4> HIDE DEF pair
        <4> QED  BY <4>1, <4>2 DEF Telling
      <3>3. Cardinality(Telling(s, u)) <= joined[<<s, u>>]
        BY DEF Earned
      <3>4. joined \in [User \X User -> Nat]
        BY DEF Data, Typed
      <3>5. Cardinality(Telling(s, u)) \in Nat
        BY <3>1, FS_CardinalityType
      <3>6. CASE <<s, u>> = pair
        <4> DEFINE T == Telling(s, u) \cup {q.n}
        <4>1. IsFiniteSet(T) /\ Cardinality(T) <= Cardinality(Telling(s, u)) + 1
          BY <3>1, <3>5, FS_AddElement
        <4>2. Telling(s, u)' \in SUBSET T
          BY <3>2, <3>6
        <4> HIDE DEF T
        <4>3. /\ Cardinality(Telling(s, u)') <= Cardinality(T)
              /\ Cardinality(Telling(s, u)') \in Nat /\ Cardinality(T) \in Nat
          BY <4>1, <4>2, FS_Subset, FS_CardinalityType
        <4>4. joined'[<<s, u>>] = joined[<<s, u>>] + 1
          BY <1>2, <1>7, <3>4, <3>6
        <4>5. joined[<<s, u>>] \in Nat
          BY <3>4
        <4> QED  BY <3>3, <3>5, <4>1, <4>3, <4>4, <4>5
      <3>7. CASE <<s, u>> # pair
        <4>1. Telling(s, u)' \in SUBSET Telling(s, u)
          BY <3>2, <3>7
        <4>2. /\ Cardinality(Telling(s, u)') <= Cardinality(Telling(s, u))
              /\ Cardinality(Telling(s, u)') \in Nat
          BY <3>1, <4>1, FS_Subset, FS_CardinalityType
        <4>3. joined'[<<s, u>>] = joined[<<s, u>>]
          BY <1>7, <3>4, <3>7
        <4>4. joined[<<s, u>>] \in Nat
          BY <3>4
        <4> QED  BY <3>3, <3>5, <4>2, <4>3, <4>4
      <3> QED  BY <3>6, <3>7
    <2> QED  BY <2>2, <2>4 DEF Earned
  <1> QED  BY <1>3, <1>6, <1>7

\* The notification takes the place of the request that owed it.
LEMMA NotifyNumbers ==
    ASSUME Data, Numbered, Earned, Requests, NEW r \in Req, Notify(r)
    PROVE  Numbered' /\ Earned'
  <1> DEFINE q == req[r]
             new == NoteOf(q)
  <1>1. q \in Request /\ Shape(q) /\ q.step = "Notify" /\ Active(r) /\ q.n \in 0..MaxRequests
    BY DEF Requests, Good, Notify, Runs, Active, Request
  <1>2. q.by \in User /\ q.user \in User
    BY <1>1 DEF Shape, UserSteps
  <1>3. /\ Becomes(r, Idle) /\ UNCHANGED <<started, joined>>
        /\ notes' = notes \cup {new} \/ UNCHANGED notes
    BY DEF Notify, End, Done, Becomes, history
  <1>4. /\ new.n = q.n /\ new.to = q.user /\ new.actor = q.by
        /\ new.type = "subscriber" <=> q.comment = NoComment
    BY <1>1, <1>2, NoteFields
  <1>5. Idle.step = "idle" /\ SameNumber(r, Idle)
    BY DEF Idle, SameNumber
  <1> HIDE DEF new
  <1>6. \A m \in notes' : m \in notes \/ m = new
    BY <1>3
  <1>7. Numbered'
    <2>1. \A m \in notes' : \/ \E l \in notes : l.n = m.n
                            \/ m.n = req[r].n /\ Active(r) /\ Idle.step = "idle"
      BY <1>1, <1>4, <1>5, <1>6
    <2>2. \A l, m \in notes' : l.n = m.n => l = m
      BY <1>1, <1>4, <1>6 DEF Numbered
    <2> QED  BY <1>3, <1>5, <2>1, <2>2, NumberedStays
  <1>8. ASSUME NEW s \in User, NEW u \in User  PROVE Telling(s, u)' \subseteq Telling(s, u)
    <2>1. ~WillTell(Idle, s, u)
      BY <1>5 DEF WillTell
    <2>2. \A m \in notes : Tells(m, s, u) => m.n \in Telling(s, u)
      BY DEF Data, Typed, Note, Telling
    <2>3. Tells(new, s, u) => new.n \in Telling(s, u)
      BY <1>1, <1>4 DEF Tells, WillTell, Telling
    <2> QED  BY <1>3, <1>6, <2>1, <2>2, <2>3, TellingStays
  <1>9. Earned'
    BY <1>3, <1>8, EarnedStays DEF Data
  <1> QED  BY <1>7, <1>9

LEMMA MarksNumber ==
    ASSUME Data, Numbered, Earned, Requests, NEW r \in Req, MarkRead(r) \/ MarkAllRead(r)
    PROVE  Numbered' /\ Earned'
  <1>1. Becomes(r, Idle) /\ UNCHANGED <<started, joined>>
    BY DEF MarkRead, MarkAllRead, End, Done, Becomes, history
  <1>2. PICK ms \in SUBSET notes : notes' = Seen(ms)
    BY MarksDo
  <1>3. \A m \in notes' : \E l \in notes :
            /\ m.n = l.n /\ m.to = l.to /\ m.actor = l.actor /\ m.type = l.type
            /\ m = IF l \in ms THEN [l EXCEPT !.read = TRUE] ELSE l
    BY <1>2, SeenFields DEF Data
  <1>4. Idle.step = "idle" /\ SameNumber(r, Idle)
    BY DEF Idle, SameNumber
  <1>5. Numbered'
    <2>1. \A m \in notes' : \E l \in notes : l.n = m.n
      BY <1>3
    <2>2. ASSUME NEW k \in notes', NEW m \in notes', k.n = m.n  PROVE k = m
      <3>1. PICK l1 \in notes : k.n = l1.n /\ k = IF l1 \in ms THEN [l1 EXCEPT !.read = TRUE] ELSE l1
        BY <1>3
      <3>2. PICK l2 \in notes : m.n = l2.n /\ m = IF l2 \in ms THEN [l2 EXCEPT !.read = TRUE] ELSE l2
        BY <1>3
      <3>3. l1 = l2
        BY <2>2, <3>1, <3>2 DEF Numbered
      <3> QED  BY <3>1, <3>2, <3>3
    <2> QED  BY <1>1, <1>4, <2>1, <2>2, NumberedStays
  <1>6. ASSUME NEW s \in User, NEW u \in User  PROVE Telling(s, u)' \subseteq Telling(s, u)
    <2>1. ~WillTell(Idle, s, u)
      BY <1>4 DEF WillTell
    <2>2. \A m \in notes : Tells(m, s, u) => m.n \in Telling(s, u)
      BY DEF Data, Typed, Note, Telling
    <2>3. \A m \in notes' : Tells(m, s, u) => m.n \in Telling(s, u)
      BY <1>3, <2>2 DEF Tells
    <2> QED  BY <1>1, <2>1, <2>3, TellingStays
  <1>7. Earned'
    BY <1>1, <1>6, EarnedStays DEF Data
  <1> QED  BY <1>5, <1>7

-----------------------------------------------------------------------------
(* Steps *)

LEMMA StatementDoes ==
    ASSUME Data, Requests, NEW r \in Req, Statement(r), ~LockPlaylist(r)
    PROVE  Does(r)
  <1>1. CASE UpdateComment(r)
    <2>1. End(r) /\ UNCHANGED <<tables, history>>
      BY <1>1 DEF UpdateComment
    <2> QED  BY <2>1, TablesSame, EndDoes
  <1> QED
    BY <1>1, LikesDo, CreateCommentDoes, SoftDeleteDoes, SubscriptionsDo, NotifyDoes, MarksDo,
       PlaylistsDo, DeletePlaylistDoes, EntriesDo, LaterAndWatchedDo, CreateReportDoes,
       UpdateReportDoes, BansDo, DeleteVideoDoes
       DEF Statement

\* What becomes of the request and of its locks.
LEMMA StatementEnds ==
    ASSUME Data, Requests, NEW r \in Req, Statement(r), ~LockPlaylist(r)
    PROVE  /\ Release(r) /\ UNCHANGED started
           /\ \E q : /\ Becomes(r, q) /\ SameNumber(r, q) /\ q.step # "AddPlaylistVideo"
                     /\ CreateSubscription(r) \/ q.step # "Notify" \/ q.comment # NoComment
  <1> DEFINE old == req[r]
             Goal == \E q : /\ Becomes(r, q) /\ SameNumber(r, q) /\ q.step # "AddPlaylistVideo"
                            /\ CreateSubscription(r) \/ q.step # "Notify" \/ q.comment # NoComment
  <1>1. ASSUME End(r)  PROVE Release(r) /\ UNCHANGED started /\ Goal
    <2>1. Becomes(r, Idle) /\ Release(r) /\ UNCHANGED started
      BY <1>1 DEF End, Done, Becomes
    <2>2. SameNumber(r, Idle) /\ Idle.step = "idle"
      BY DEF SameNumber, Idle
    <2> QED  BY <2>1, <2>2
  <1>2. old \in Request
    BY DEF Requests
  <1>3. ASSUME NEW step \in {"UpdateReport", "Notify"}, Active(r), Done(r, [old EXCEPT !.step = step]),
               step = "Notify" => CreateSubscription(r)
        PROVE  Release(r) /\ UNCHANGED started /\ Goal
    <2> DEFINE q == [old EXCEPT !.step = step]
    <2>1. step \in Step  BY DEF Step
    <2>2. q.step = step /\ q.n = old.n
      BY <1>2, <2>1, StepFields
    <2>3. Becomes(r, q) /\ Release(r) /\ UNCHANGED started
      BY <1>3 DEF Done, Becomes
    <2> HIDE DEF q
    <2> QED  BY <1>3, <2>2, <2>3 DEF SameNumber
  <1>4. ASSUME Reviewed(r), Active(r)  PROVE Release(r) /\ UNCHANGED started /\ Goal
    BY <1>1, <1>3, <1>4 DEF Reviewed
  <1>5. CASE Ban(r) \/ DeleteVideo(r)
    <2>1. Active(r)  BY <1>5 DEF Ban, DeleteVideo, Runs, Active
    <2>2. End(r) \/ Reviewed(r)  BY <1>5 DEF Ban, DeleteVideo
    <2> QED  BY <1>1, <1>4, <2>1, <2>2
  <1>6. CASE CreateSubscription(r)
    <2>1. Active(r)  BY <1>6 DEF CreateSubscription, Runs, Active
    <2>2. End(r) \/ Done(r, [old EXCEPT !.step = "Notify"])  BY <1>6 DEF CreateSubscription
    <2> QED  BY <1>1, <1>3, <1>6, <2>1, <2>2
  <1>7. CASE CreateComment(r)
    <2> DEFINE to == Addressee(old)
               c == New(comment, NoCommentRow)
               q == [old EXCEPT !.step = "Notify", !.user = to, !.comment = c]
    <2>1. Active(r)  BY <1>7 DEF CreateComment, Runs, Active
    <2>2. \/ End(r)
          \/ Unused(comment, NoCommentRow) # {} /\ Done(r, q)
      BY <1>7 DEF CreateComment
    <2>3. CASE Unused(comment, NoCommentRow) # {} /\ Done(r, q)
      <3>1. c \in Comment
        BY <2>3, NewIsUnused DEF Data, Typed
      <3> HIDE DEF c, to
      <3>2. q.step = "Notify" /\ q.comment = c /\ q.n = old.n
        BY <1>2 DEF Request
      <3>3. Becomes(r, q) /\ Release(r) /\ UNCHANGED started
        BY <2>3 DEF Done, Becomes
      <3> HIDE DEF q
      <3> QED  BY <2>1, <3>1, <3>2, <3>3, CommunityAssumption DEF SameNumber
    <2> HIDE DEF q
    <2> QED  BY <1>1, <2>2, <2>3
  <1>8. CASE ~(Ban(r) \/ DeleteVideo(r) \/ CreateSubscription(r) \/ CreateComment(r))
    <2>1. End(r)
      BY <1>8 DEF Statement, UpsertLike, DeleteLike, UpdateComment, SoftDelete, DeleteSubscription,
         Notify, MarkRead, MarkAllRead, CreatePlaylist, UpdatePlaylist, DeletePlaylist,
         AddPlaylistVideo, RemovePlaylistVideo, UpsertWatchLater, DeleteWatchLater,
         UpsertWatchHistory, DeleteWatchHistory, CreateReport, UpdateReport, Unban
    <2> QED  BY <1>1, <2>1
  <1> QED  BY <1>5, <1>6, <1>7, <1>8

LEMMA StatementFrames ==
    ASSUME Data, Requests, NEW r \in Req, Statement(r), ~LockPlaylist(r)
    PROVE  /\ \/ CreateSubscription(r) \/ Notify(r) \/ MarkRead(r) \/ MarkAllRead(r)
              \/ notes' \subseteq notes /\ UNCHANGED joined
           /\ \/ AddPlaylistVideo(r)
              \/ \A x \in Playlist \X Video : entry'[x] \in {entry[x], Absent}
  <1>1. CASE DeleteVideo(r)
    <2>1. notes' \subseteq notes  BY <1>1, DeleteVideoDoes
    <2>2. UNCHANGED joined  BY <1>1 DEF DeleteVideo, history
    <2>3. \A x \in Playlist \X Video : entry'[x] \in {entry[x], Absent}
      BY <1>1 DEF DeleteVideo, Data, Typed
    <2> QED  BY <2>1, <2>2, <2>3
  <1>2. CASE DeletePlaylist(r)
    <2>1. UNCHANGED <<notes, joined>>
      BY <1>2 DEF DeletePlaylist, history
    <2>2. \A x \in Playlist \X Video : entry'[x] \in {entry[x], Absent}
      BY <1>2 DEF DeletePlaylist, Data, Typed
    <2> QED  BY <2>1, <2>2
  <1>3. CASE RemovePlaylistVideo(r)
    <2> DEFINE y == <<req[r].playlist, req[r].video>>
    <2>1. UNCHANGED <<notes, joined>>
      BY <1>3 DEF RemovePlaylistVideo, history
    <2>2. UNCHANGED entry \/ entry' = [entry EXCEPT ![y] = Absent]
      BY <1>3 DEF RemovePlaylistVideo
    <2> HIDE DEF y
    <2>3. \A x \in Playlist \X Video : entry'[x] \in {entry[x], Absent}
      BY <2>2 DEF Data, Typed
    <2> QED  BY <2>1, <2>3
  <1>4. CASE AddPlaylistVideo(r)
    BY <1>4 DEF AddPlaylistVideo, history
  <1>5. CASE ~(DeleteVideo(r) \/ DeletePlaylist(r) \/ RemovePlaylistVideo(r) \/ AddPlaylistVideo(r))
    <2>1. UNCHANGED entry
      BY <1>5 DEF Statement, UpsertLike, DeleteLike, CreateComment, UpdateComment, SoftDelete,
         CreateSubscription, DeleteSubscription, Notify, MarkRead, MarkAllRead, CreatePlaylist,
         UpdatePlaylist, UpsertWatchLater, DeleteWatchLater, UpsertWatchHistory,
         DeleteWatchHistory, CreateReport, UpdateReport, Ban, Unban, tables
    <2>2. \/ CreateSubscription(r) \/ Notify(r) \/ MarkRead(r) \/ MarkAllRead(r)
          \/ UNCHANGED <<notes, joined>>
      BY <1>5 DEF Statement, UpsertLike, DeleteLike, CreateComment, UpdateComment, SoftDelete,
         DeleteSubscription, CreatePlaylist, UpdatePlaylist, UpsertWatchLater, DeleteWatchLater,
         UpsertWatchHistory, DeleteWatchHistory, CreateReport, UpdateReport, Ban, Unban, tables,
         history
    <2> QED  BY <2>1, <2>2
  <1> QED  BY <1>1, <1>2, <1>3, <1>4, <1>5

LEMMA InitInv ==
    ASSUME Init  PROVE CommunityInv
  <1> USE DEF Init
  <1>1. Typed
    <2>1. [here |-> TRUE, likes |-> 0, comments |-> 0] \in VideoRow  BY DEF VideoRow
    <2>2. NoCommentRow \in CommentRow  BY DEF CommentRow, NoCommentRow
    <2>3. NoPlaylistRow \in PlaylistRow  BY DEF PlaylistRow, NoPlaylistRow, Visibility
    <2>4. NoReportRow \in ReportRow  BY DEF ReportRow, NoReportRow, Choice
    <2>5. "none" \in Rating /\ Absent \in Int  BY DEF Rating, Absent
    <2> QED  BY <2>1, <2>2, <2>3, <2>4, <2>5 DEF Typed
  <1>2. /\ \A c \in Comment : comment[c] = NoCommentRow
        /\ \A x \in Report : report[x] = NoReportRow
        /\ ~NoCommentRow.here /\ NoCommentRow.author = Nobody /\ ~NoReportRow.here
    BY DEF NoCommentRow, NoReportRow
  <1>3. Rows
    BY <1>2 DEF Rows, CommentRows, ReportRows, NoteRows, Used
  <1>4. Placed
    <2>1. CommentsPlaced /\ ReportsPlaced  BY <1>2 DEF CommentsPlaced, ReportsPlaced
    <2>2. MarksPlaced  BY DEF MarksPlaced
    <2>3. EntriesPlaced  BY DEF EntriesPlaced
    <2>4. NotesPlaced  BY DEF NotesPlaced
    <2> QED  BY <2>1, <2>2, <2>3, <2>4 DEF Placed
  <1>5. ReviewIsBacked
    BY <1>2 DEF ReviewIsBacked
  <1>6. Requests
    <2>1. Idle \in Request  BY IdleGood DEF Good
    <2> QED  BY <2>1, IdleGood DEF Requests
  <1>7. Locks
    BY DEF Locks, Exclusive, Denies
  <1>8. \A r \in Req : req[r].step = "idle"
    BY DEF Idle
  <1>9. Appending
    BY <1>8 DEF Appending
  <1>10. Numbered
    BY <1>8, CommunityAssumption DEF Numbered, Active
  <1>11. Earned
    <2> SUFFICES ASSUME NEW s \in User, NEW u \in User
                 PROVE  Cardinality(Telling(s, u)) <= joined[<<s, u>>]
      BY DEF Earned
    <2>1. Telling(s, u) = {}
      BY <1>8 DEF Telling, WillTell
    <2> QED  BY <2>1, FS_EmptySet
  <1> QED  BY <1>1, <1>3, <1>4, <1>5, <1>6, <1>7, <1>9, <1>10, <1>11 DEF CommunityInv, Data

\* A step that changes a request and at most gives back its locks.
LEMMA QuietInv ==
    ASSUME CommunityInv, NEW r \in Req, NEW q, Becomes(r, q), SameNumber(r, q),
           Good(q, comment', report', wasBanned'),
           q.step \notin {"Notify", "AddPlaylistVideo"},
           UNCHANGED held \/ Release(r), UNCHANGED <<tables, history, started>>
    PROVE  CommunityInv'
  <1> USE DEF CommunityInv
  <1>1. Data' /\ Lasting
    BY TablesSame
  <1>2. Requests'
    BY <1>1, BecomesGood
  <1>3. Locks' /\ \A s \in Req : s # r => held[s] \subseteq held'[s]
    <2>1. CASE UNCHANGED held
      BY <2>1 DEF Locks, Exclusive, Denies
    <2>2. CASE Release(r)
      BY <2>2, ReleaseLocks
    <2> QED  BY <2>1, <2>2
  <1>4. UNCHANGED <<entry, notes, joined>>
    BY DEF tables, history
  <1>5. Appending'
    BY <1>3, <1>4, AppendingStays
  <1>6. Numbered'
    BY <1>4, NumberedFewer
  <1>7. Earned'
    BY <1>4, EarnedFewer DEF Data
  <1> QED  BY <1>1, <1>2, <1>3, <1>5, <1>6, <1>7

LEMMA EndInv ==
    ASSUME CommunityInv, NEW r \in Req, End(r), UNCHANGED <<tables, history>>
    PROVE  CommunityInv'
  <1>1. Becomes(r, Idle) /\ Release(r) /\ UNCHANGED started
    BY DEF End, Done, Becomes
  <1>2. Idle.step = "idle" /\ SameNumber(r, Idle)
    BY DEF Idle, SameNumber
  <1> QED  BY <1>1, <1>2, IdleGood, QuietInv

LEMMA BeginInv ==
    ASSUME CommunityInv, NEW r \in Req, NEW q, Fresh(q), Begin(r, q)
    PROVE  CommunityInv'
  <1> USE DEF CommunityInv
  <1> DEFINE p == [q EXCEPT !.n = started + 1]
  <1>1. Becomes(r, p) /\ UNCHANGED <<tables, held, history>>
    BY DEF Begin, Becomes
  <1>2. p.step = q.step
    BY DEF Fresh, Request
  <1> HIDE DEF p
  <1>3. Data' /\ Lasting
    BY <1>1, TablesSame
  <1>4. Requests'
    BY BeginGood DEF Numbered
  <1>5. Locks'
    BY <1>1 DEF Locks, Exclusive, Denies
  <1>6. Appending'
    <2>1. UNCHANGED entry  BY <1>1 DEF tables
    <2> QED  BY <1>1, <1>2, <2>1, AppendingStays DEF Fresh
  <1>7. Numbered' /\ Earned'
    BY BeginNumbers DEF Data
  <1> QED  BY <1>3, <1>4, <1>5, <1>6, <1>7

LEMMA ReadInv ==
    ASSUME CommunityInv, NEW r \in Req, Reads(r)
    PROVE  CommunityInv'
  <1>1. PICK q : GoesOn(r, q)
    BY ReadGood DEF CommunityInv
  <1>2. UNCHANGED <<tables, held, started, history>>
    BY ReadGood DEF CommunityInv
  <1>3. UNCHANGED <<comment, report, wasBanned>>
    BY <1>2 DEF tables, history
  <1>4. SameNumber(r, q) /\ Good(q, comment', report', wasBanned')
    BY <1>1, <1>3 DEF GoesOn, SameNumber, Active
  <1> QED  BY <1>1, <1>2, <1>4, QuietInv DEF GoesOn

LEMMA TakeInv ==
    ASSUME CommunityInv, NEW r \in Req, TakeLock(r)
    PROVE  CommunityInv'
  <1> USE DEF CommunityInv
  <1>1. UNCHANGED <<tables, req, started, history>> /\ Take(r, Waiting[r])
    BY DEF TakeLock
  <1>2. Data' /\ Lasting
    BY <1>1, TablesSame
  <1>3. Requests'
    BY <1>1, <1>2, StayGood
  <1>4. Locks' /\ \A s \in Req : held[s] \subseteq held'[s]
    BY <1>1, TakeLocks
  <1>5. UNCHANGED <<entry, notes, joined, req, started>>
    BY <1>1 DEF tables, history
  <1>6. Appending'
    BY <1>4, <1>5 DEF Appending
  <1>7. Numbered'
    BY <1>5 DEF Numbered, Active
  <1>8. Earned'
    BY <1>5 DEF Earned, Telling, Tells, WillTell
  <1> QED  BY <1>2, <1>3, <1>4, <1>6, <1>7, <1>8

LEMMA LockPlaylistInv ==
    ASSUME CommunityInv, NEW r \in Req, LockPlaylist(r)
    PROVE  CommunityInv'
  <1> USE DEF CommunityInv
  <1>1. Requests' /\ Locks' /\ Appending' /\ UNCHANGED <<tables, history, started>>
    BY LockPlaylistAppends
  <1>2. Data'
    BY <1>1, TablesSame
  <1>3. UNCHANGED <<notes, joined>>
    BY <1>1 DEF tables, history
  <1>4. \E q : Becomes(r, q) /\ SameNumber(r, q) /\ q.step # "Notify"
    <2> DEFINE old == req[r]
               pos == NextPosition(old.playlist)
               q == [old EXCEPT !.step = "AddPlaylistVideo", !.pos = pos]
    <2>1. old \in Request /\ Shape(old) /\ old.step = "LockPlaylist" /\ Active(r)
      BY DEF Requests, Good, LockPlaylist, Runs, Active
    <2>2. pos \in Int
      BY <2>1, NextIsFree DEF Shape, PlaylistSteps, Data
    <2>3. Becomes(r, q) \/ Becomes(r, Idle)
      BY DEF LockPlaylist, Becomes, Requests, End, Done
    <2> HIDE DEF pos
    <2>4. q.step = "AddPlaylistVideo" /\ q.n = old.n
      BY <2>1, <2>2, AppendFields
    <2>5. Idle.step = "idle"  BY DEF Idle
    <2> HIDE DEF q
    <2> QED  BY <2>1, <2>3, <2>4, <2>5 DEF SameNumber
  <1>5. Numbered' /\ Earned'
    BY <1>1, <1>3, <1>4, NumberedFewer, EarnedFewer DEF Data
  <1> QED  BY <1>1, <1>2, <1>5

LEMMA StatementInv ==
    ASSUME CommunityInv, NEW r \in Req, Statement(r), ~LockPlaylist(r)
    PROVE  CommunityInv'
  <1> USE DEF CommunityInv
  <1>1. Data' /\ Requests'
    BY StatementDoes DEF Does
  <1>2. Release(r) /\ UNCHANGED started
    BY StatementEnds
  <1>3. PICK q : /\ Becomes(r, q) /\ SameNumber(r, q) /\ q.step # "AddPlaylistVideo"
                 /\ CreateSubscription(r) \/ q.step # "Notify" \/ q.comment # NoComment
    BY StatementEnds
  <1>4. Locks' /\ \A s \in Req : s # r => held'[s] = held[s]
    BY <1>2, ReleaseLocks
  <1>5. Appending'
    <2>1. CASE AddPlaylistVideo(r)
      BY <2>1, AppendingAppends DEF Data
    <2>2. CASE ~AddPlaylistVideo(r)
      <3>1. \A x \in Playlist \X Video : entry'[x] \in {entry[x], Absent}
        BY <2>2, StatementFrames
      <3> QED  BY <1>3, <1>4, <3>1, AppendingStays
    <2> QED  BY <2>1, <2>2
  <1>6. Numbered' /\ Earned'
    <2>1. CASE CreateSubscription(r)  BY <2>1, SubscriptionsEarn
    <2>2. CASE Notify(r)  BY <2>2, NotifyNumbers
    <2>3. CASE MarkRead(r) \/ MarkAllRead(r)  BY <2>3, MarksNumber
    <2>4. CASE ~(CreateSubscription(r) \/ Notify(r) \/ MarkRead(r) \/ MarkAllRead(r))
      <3>1. notes' \subseteq notes /\ UNCHANGED joined
        BY <2>4, StatementFrames
      <3> QED  BY <1>2, <1>3, <2>4, <3>1, NumberedFewer, EarnedFewer DEF Data
    <2> QED  BY <2>1, <2>2, <2>3, <2>4
  <1> QED  BY <1>1, <1>4, <1>5, <1>6

LEMMA NextInv ==
    ASSUME CommunityInv, [Next]_vars  PROVE CommunityInv'
  <1>1. ASSUME NEW r \in Req, NEW u \in User, Arrive(r, u)  PROVE CommunityInv'
    <2>1. PICK q : Fresh(q) /\ Begin(r, q)
      BY <1>1, ArriveFresh DEF CommunityInv, Data
    <2> QED  BY <2>1, BeginInv
  <1>2. ASSUME NEW r \in Req, Proceed(r)  PROVE CommunityInv'
    <2>1. CASE Reads(r)  BY <2>1, ReadInv
    <2>2. CASE TakeLock(r)  BY <2>2, TakeInv
    <2>3. CASE Statement(r)
      BY <2>3, LockPlaylistInv, StatementInv
    <2>4. CASE BreakDeadlock(r)
      <3>1. End(r) /\ UNCHANGED <<tables, history>>  BY <2>4 DEF BreakDeadlock
      <3> QED  BY <3>1, EndInv
    <2> QED  BY <1>2, <2>1, <2>2, <2>3, <2>4 DEF Proceed
  <1>3. ASSUME NEW r \in Req, BreakOff(r)  PROVE CommunityInv'
    <2>1. End(r) /\ UNCHANGED <<tables, history>>  BY <1>3 DEF BreakOff
    <2> QED  BY <2>1, EndInv
  <1>4. CASE UNCHANGED vars
    <2>1. UNCHANGED <<tables, req, held, started, history>>
      BY <1>4 DEF vars
    <2>2. UNCHANGED <<entry, notes, joined>>
      BY <2>1 DEF tables, history
    <2>3. Data' /\ Requests'
      BY <2>1, TablesSame, StayGood DEF CommunityInv
    <2>4. Locks' /\ Appending' /\ Numbered'
      BY <2>1, <2>2 DEF CommunityInv, Locks, Exclusive, Denies, Appending, Numbered, Active
    <2>5. Earned'
      BY <2>1, <2>2 DEF CommunityInv, Earned, Telling, Tells, WillTell
    <2> QED  BY <2>3, <2>4, <2>5 DEF CommunityInv
  <1> QED  BY <1>1, <1>2, <1>3, <1>4 DEF Next

\* Whatever overlaps and breaks off, the tables, the requests and the locks stay in the
\* relation the properties below rest on.
THEOREM CommunityInvariant == Spec => []CommunityInv
  <1>1. Init => CommunityInv
    BY InitInv
  <1>2. CommunityInv /\ [Next]_vars => CommunityInv'
    BY NextInv
  <1> QED  BY <1>1, <1>2, PTL DEF Spec

-----------------------------------------------------------------------------
(* The properties *)

\* Every table keeps to its columns, every request to what it may ask, and no two requests
\* hold conflicting locks: the counters, identities and numbers that social_repository.go and
\* report_repository.go write are of their types.
THEOREM CommunityTypes == Spec => []TypeOK
  <1>1. CommunityInv => TypeOK
    BY DEF CommunityInv, Data, Typed, Requests, Locks, Numbered, TypeOK
  <1> QED  BY <1>1, CommunityInvariant, PTL

\* "With the playlist locked, a position collision is impossible" (AddPlaylistVideo): whoever
\* is about to append holds the lock under which it has read the last position.
THEOREM AppendsAreApart == Spec => []AppendsNeverCollide
  <1>1. CommunityInv => AppendsNeverCollide
    BY DEF CommunityInv, Appending, AppendsNeverCollide
  <1> QED  BY <1>1, CommunityInvariant, PTL

\* Checks and the statements that rely on them are apart, and deletes cascade in between:
\* still nothing refers to a video, comment or playlist that has gone.
THEOREM NothingIsLeftDangling == Spec => []NothingDangles
  <1>1. ASSUME Placed  PROVE NothingDangles
    BY <1>1 DEF Placed, CommentsPlaced, MarksPlaced, EntriesPlaced, NotesPlaced, ReportsPlaced,
       NothingDangles
  <1>2. CommunityInv => NothingDangles
    BY <1>1 DEF CommunityInv, Data
  <1> QED  BY <1>2, CommunityInvariant, PTL

\* ReviewReport acts first and closes the report last: a report says "banned" only of who
\* was banned, and none that names a video says "deleted" while it is there itself, however
\* many reviews overlap.  (One that names no video may say "deleted" of nothing.)
THEOREM ReviewsAreBacked == Spec => []ReviewIsBacked
  <1>1. CommunityInv => ReviewIsBacked
    BY DEF CommunityInv, Data
  <1> QED  BY <1>1, CommunityInvariant, PTL

\* Each notification is the work of one request that really added what it tells of, to the
\* one it concerns (notifyForComment, Subscribe).
THEOREM NotesWereEarned == Spec => []NotesAreEarned
  <1>1. ASSUME CommunityInv  PROVE NotesAreEarned
    <2>1. ASSUME NEW m \in notes
          PROVE  /\ m.to # m.actor
                 /\ m.type = "reply" => m.to = comment[comment[m.comment].parent].author
                 /\ m.type = "comment" => m.to = Owner[m.video]
      <3>1. /\ m.to # m.actor
            /\ m.type = "subscriber" <=> m.comment = NoComment
            /\ m.comment # NoComment => News(m.comment, m.video, m.to, m.type = "reply", comment)
        BY <1>1 DEF CommunityInv, Data, Rows, NoteRows
      <3> QED  BY <3>1 DEF News
    <2>2. ASSUME NEW s \in User, NEW u \in User
          PROVE  Cardinality({m \in notes : m.type = "subscriber" /\ m.actor = s /\ m.to = u})
                     <= joined[<<s, u>>]
      <3> DEFINE S == {m \in notes : m.type = "subscriber" /\ m.actor = s /\ m.to = u}
                 T == Telling(s, u)
                 f == [m \in S |-> m.n]
      <3>1. IsFiniteSet(T)
        <4>1. IsFiniteSet(0..MaxRequests)
          BY FS_Interval, CommunityAssumption
        <4>2. T \in SUBSET (0..MaxRequests)
          BY DEF Telling
        <4> QED  BY <4>1, <4>2, FS_Subset
      <3>2. \A m \in S : m.n \in T
        BY <1>1 DEF CommunityInv, Data, Typed, Note, Telling, Tells
      <3>3. \A l, m \in S : l.n = m.n => l = m
        BY <1>1 DEF CommunityInv, Numbered
      <3>4. f \in Injection(S, T)
        BY <3>2, <3>3 DEF Injection, IsInjective
      <3>5. IsFiniteSet(S) /\ Cardinality(S) <= Cardinality(T)
        BY <3>1, <3>4, FS_Injection
      <3>6. Cardinality(T) <= joined[<<s, u>>] /\ joined[<<s, u>>] \in Nat
        BY <1>1 DEF CommunityInv, Earned, Data, Typed
      <3>7. Cardinality(S) \in Nat /\ Cardinality(T) \in Nat
        BY <3>1, <3>5, FS_CardinalityType
      <3> HIDE DEF S, T
      <3>8. Cardinality(S) <= joined[<<s, u>>]
        BY <3>5, <3>6, <3>7
      <3> QED  BY <3>8 DEF S
    <2> QED  BY <2>1, <2>2 DEF NotesAreEarned
  <1> QED  BY <1>1, CommunityInvariant, PTL
=============================================================================
