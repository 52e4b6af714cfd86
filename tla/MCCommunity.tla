---------------------------- MODULE MCCommunity ----------------------------
(***************************************************************************)
(* A small instance of Community for TLC: two videos, one of them without  *)
(* an owner, and a history every overlap of requests can work on.          *)
(***************************************************************************)
EXTENDS Community, TLC

CONSTANTS ann, bob, v1, v2, c1, c2, p1, x1

MCRoleOf == ann :> "user" @@ bob :> "admin"
MCOwner == v1 :> ann @@ v2 :> Nobody

\* What ann and bob have done so far: bob has liked, commented, subscribed and
\* reported, ann has answered and made a playlist.
Populated ==
    /\ video = [v \in Video |-> IF v = v1 THEN [here |-> TRUE, likes |-> 1, comments |-> 2]
                                ELSE [here |-> TRUE, likes |-> 0, comments |-> 0]]
    /\ rating = [x \in User \X Video |-> IF x = <<bob, v1>> THEN "like" ELSE "none"]
    /\ comment = [c \in Comment |->
          CASE c = c1 -> [NoCommentRow EXCEPT !.here = TRUE, !.author = bob, !.video = v1, !.replies = 1]
            [] c = c2 -> [NoCommentRow EXCEPT !.here = TRUE, !.author = ann, !.video = v1, !.parent = c1]
            [] OTHER -> NoCommentRow]
    /\ subs = {<<bob, ann>>}
    /\ subscribers = [u \in User |-> IF u = ann THEN 1 ELSE 0]
    /\ playlist = [p \in Playlist |->
          IF p = p1 THEN [here |-> TRUE, owner |-> ann, visibility |-> "public", count |-> 1]
          ELSE NoPlaylistRow]
    /\ entry = [x \in Playlist \X Video |-> IF x = <<p1, v1>> THEN 0 ELSE Absent]
    /\ later = {<<bob, v1>>}
    /\ watched = {<<bob, v1>>}
    /\ notes = {[n |-> 0, to |-> ann, actor |-> bob, type |-> "comment", video |-> v1,
                 comment |-> c1, read |-> FALSE]}
    /\ report = [x \in Report |-> IF x = x1 THEN [NoReportRow EXCEPT !.here = TRUE, !.reporter = bob, !.video = v1]
                                  ELSE NoReportRow]
    /\ banned = {}
    /\ req = [r \in Req |-> Idle]
    /\ held = [r \in Req |-> {}]
    /\ started = 0
    /\ joined = [x \in User \X User |-> IF x = <<bob, ann>> THEN 1 ELSE 0]
    /\ wasBanned = {}

\* Which requests arrive; what they do is up to them.  Every behaviour goes on to its end.
Begins(r) == req[r] = Idle /\ req'[r] # Idle

\* The second request begins while the first is in progress.
Overlapping == \A r \in Req : Begins(r) => started = 0 \/ \E s \in Req : req[s] # Idle

\* Steps that work on what only its owner sees.
Private == {"UpsertWatchLater", "DeleteWatchLater", "UpsertWatchHistory", "DeleteWatchHistory",
            "ClearWatchHistory", "MarkRead", "MarkAllRead"}

\* Either request may be on a private list, but not both; and both on the video without an
\* owner only in a playlist.
Telling ==
    \A r \in Req : Begins(r) /\ started = 1 =>
        /\ {req'[r].step, req'[r].next} \cap Private = {}
        /\ req'[r].video = v2 => req'[r].playlist # NoPlaylist

\* A new report names a video or a user.
OneTarget ==
    \A r \in Req : Begins(r) /\ req'[r].next = "CreateReport" =>
        req'[r].video = NoVideo \/ req'[r].user = Nobody

MCSpec == Populated /\ [][Next]_vars /\ Fairness
=============================================================================
