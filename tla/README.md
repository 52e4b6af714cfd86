# Verification of the video streaming service

TLA+ models of the service in this repository, the TLC instances that check
them, and theorems about them that TLAPS checks.  Paths below are relative to
the repository; line numbers are those of this commit.

- `PROJECT.json` maps every definition to the lines it models and lists the
  runs, their mutants, the findings, the hazards and the theorems.
- A run: `tlc -config video_local.cfg MCVideoPipeline`, and likewise with the other
  `.cfg` files and the MC module of sections 3 to 6 each belongs to.
- The proofs: `tlapm M.tla` for `M` in `VideoPipelineProofs`, `VideoLifecycleProofs`,
  `VideoFilesProofs`, `SessionsProofs`, `AccountsProofs`, `DeliveryProofs`,
  `CommunityProofs`, `CommunityCounters`.

Sections 1 and 2 are the inventory and the plan, 3 to 7 the models and their runs,
8 the proofs, 9 and 10 what is left to TLC and what is left out.

## 1. Inventory

The service is an API process and a worker process (`cmd/`), a PostgreSQL
database, Redis (task queue, token revocation, cache, rate limits), and a file
store that is either a shared directory or MinIO.

| Component | State | Operations | Correct means |
|---|---|---|---|
| Upload, retry, delete (`service/upload_service.go`, `handler/video_handler.go`, `handler/admin_handler.go`) | `videos` row, stored files | `Upload`, `RetryVideo`, `DeleteVideo`, `RemoveVideoFiles` | no row without its raw file, no raw file without its row, a failed step can be repaired |
| Queue (`queue/client.go`, asynq) | task: pending, active, retry, archived | enqueue, deliver, retry with delay, archive, recover | at-least-once; a bounded number of attempts |
| Worker (`queue/handlers.go`, `service/transcoding_service.go`) | the row, files on disk, loop state of the attempt | `ProcessTask`, `ProcessVideo`, `stageRawFile`, `syncOutputsToStore` | what the row promises exists; the status moves along its lifecycle and ends |
| Object storage (`storage/`) | objects by key | `Save`, `Open`, `Delete`, `DeletePrefix` | a failed save leaves nothing; deletes are idempotent |
| Streaming and cache (`handler/streaming_handler.go`, `cache/cache.go`) | a map in each API process, Redis behind them | serve playlists; clear a video's cache; sweep once a minute | a copy is not served for longer than the two levels keep it one after the other; a clearing sticks; the map is bounded |
| View tracking (`service/view_tracker.go`, `postgres/analytics_repository.go`) | claims in Redis, `video_views` | record a view, save progress | one view per viewer and window; a view is refused as a repeat only of one that counted, but for faults |
| Rate limiting (`middleware/rate_limiter.go`) | one counter per rule, caller and window in Redis | count up and decide | within its window a counter admits no more than its budget; whoever it cannot count passes |
| Sessions (`service/auth_service.go`, `service/session_service.go`, `middleware/auth.go`) | JWTs held by clients, two kinds of denylist entries in Redis | sign, check, revoke one, revoke all | what was revoked stays useless although its entry expires, as far as the lifetimes of the entries allow |
| Accounts (`service/auth_service.go`, `service/email_service.go`, `postgres/user_repository.go`, `cmd/admin`) | the `users` table | register, login, refresh, verify, reset, change password, promote, ban | links work once, old passwords are out, bans hold; overlapping writes of a row do not undo each other |
| Social (`service/social_service.go`, `postgres/social_repository.go`, the triggers of the migrations) | likes, comments, subscriptions, playlists, watch-later, notifications and their counters | add, change, remove, list | a counter equals what counting anew would give; playlist positions are distinct; nothing refers to what has gone |
| Moderation (`service/moderation_service.go`, `postgres/report_repository.go`) | reports, bans | report, review, ban, lift | a report says only what has been done |
| TypeScript client (`clients/typescript`) | a token pair, one shared refresh | call, refresh on a 401, retry once | not modelled, see section 10 |
| Search, analytics, monitoring, audit, configuration, pages, validation, mail transport | none of their own | queries, formatting, wiring | not modelled, see section 10 |

How they interact.  The API writes the raw file, then the row, then enqueues a
task; three writes to three systems with nothing that makes them atomic.  asynq
delivers the task to a worker, possibly several times.  The worker reads the
row, checks its status, overwrites it, runs ffmpeg for minutes, and overwrites
the row again; with a remote store it then uploads what it made.  Meanwhile an
administrator may retry the video, which enqueues a second task, and its owner
or a moderator may delete the row and then the files.  No statement on the row
is conditional on what was read before.

API processes keep nothing but the playlist map in memory; everything else two
requests share is a row in PostgreSQL or a key in Redis.  Every flow on an account
but the bans reads the whole row, decides, and writes the whole row back.  The social
tables are written by single statements at READ COMMITTED whose triggers maintain
the counters, and only `AddPlaylistVideo` runs two statements in one transaction.
Redis is asked before (rate limit, revocation, view claim) or around (playlists) what
PostgreSQL or the store is asked for; each use has its own way of failing open or
closed.

What is hard: the check and the update of the status are two statements; an
attempt can be cut short by its deadline, by a crash or by a restart of the
worker; two attempts may share one output directory; a delete may fall between
any two steps; the row and the files are written separately and promise things
about each other.  Redis keys expire by themselves while what they deny, claim or
copy lives on; two levels of cache refill each other; the write of a whole row
restores what another request has changed since it was read; statements collect
row locks one by one and may deadlock; a command may fail after it has been
carried out.  `PROJECT.json` lists these hazards one by one at the lines where they
bite, with the properties aimed at them.

## 2. Plan

| Order | Module | Content | State |
|---|---|---|---|
| 1 | `VideoLifecycle` | the lifecycle a client may rely on (abstract) | done |
| 2 | `VideoPipeline`, `MCVideoPipeline` | upload, queue, worker, retry, delete for one video | done |
| 3 | `VideoPipelineProofs`, `VideoLifecycleProofs`, `VideoFilesProofs` | types, ownership of `processing`; the pipeline implements the lifecycle; the files on disk, the raw file, progress | done |
| 4 | `Roles`, `Sessions`, `SessionsProofs` | permissions; tokens and the denylist, operations in any order (abstract) | done |
| 5 | `Accounts`, `MCAccounts`, `MCAccountScenes`, `AccountsProofs` | the requests on the `users` table, composed with the denylist | done |
| 6 | `RowLocks`, `Community`, `MCCommunity` | row locks and deadlocks; social features and moderation over them | done |
| 7 | `Clock`, `RateLimiter`, `PlaylistCache`, `ViewTracker`, `Delivery`, `MCDelivery`, `DeliveryProofs` | what players ask for, composed of the three things Redis keeps for it | done |
| 8 | `CommunityProofs`, `CommunityCounters` | the safety properties of `Community`: what requests may rely on, locks, positions, notifications; counters | done |
| 9 | further theorems, in the proof modules above | the remote store (`StagedRawIsWhole`, `PublishedIsNeverLost`, `DoneIsServed`); `BanOnlyByModerators`, `RevokedBuysNothing`, `LinksEndOnce`; `ViewsAreDistinct` | done |
| 10 | further theorems, in the proof modules above | what the violated properties come to once their cause is excluded: `NothingStranded`, `ReadyIsFinal`, `UnqueuedIsRetryable`, `CancelledLinkIsDead`; the raw file and its row | done |

There is one run per question: three that show what holds of the pipeline (local store, overlapping attempts, remote
store), and one for each composed module; six that show a
disagreement with what the repository says of itself.

## 3. The video pipeline

One video stands for all: rows, keys and tasks are keyed by the video's UUID,
and no statement touches two videos.  The concurrency is among the tasks of the
video, the administrator and the delete.

State and its counterpart:

| Variable | Code |
|---|---|
| `row` | the `videos` row: `status`, `transcoding_progress`, `available_qualities`, `hls_ready`, `thumbnail_path` set or not; `none` when there is no row |
| `height` | the number of rungs of the ladder that would not upscale the source (`metadata.Height < spec.Height`) |
| `disk`, `outDir` | files and the output directory under the worker's `STORAGE_*` paths |
| `store` | objects in MinIO; untouched with the local store, whose files *are* `disk` |
| `listed` | the renditions named in the last master playlist |
| `del` | how far the delete request has come |
| `stage`, `tries`, `alive` | per task: position of its handler or state in asynq, asynq's retry count, whether its context is still live |
| `cursor`, `made`, `cut`, `poster` | the attempt's loop index, `transcoded`, `hlsQualities`, `thumbnailPath != ""` |

A file is `absent`, `partial` or `complete`.  A file is partial while ffmpeg or a
copy is writing it, when ffmpeg failed, and when it was made from a partial
input.  The segments and the playlist of one rendition are one file here; it is
complete when all of them are there.

A handler is cut into actions at every call that leaves the process (SQL
statement, ffmpeg, storage, Redis), because something else may happen there.
A statement on the row and the start of the ffmpeg process that follows it are
one action (`Transcode`, `Snap`), since starting a process is not observed by
anyone; its end is another (`Encoded`, `Segmented`, `Snapped`).

| Actions | Code |
|---|---|
| `UploadSave`, `UploadRecord`, `Enqueue` | `VideoHandler.Upload`, `UploadService.UploadVideo`, `QueueClient.EnqueueVideoProcessing` |
| `AdminLoad`, `AdminReset`, `Enqueue` | `AdminHandler.RetryVideo` |
| `DeleteRow`, `DeleteRaw`, `DeleteOutputs`, `DeleteDir`, `DeleteThumb` | `VideoHandler.DeleteVideo` or `ReviewReport`'s `delete_video`, then `RemoveVideoFiles` |
| `Dequeue`, `Load`, `StageRaw`, `StagedRaw` | `ProcessTask` up to `ProcessVideo` |
| `Check`, `Claim`, `Probe`, `GiveUp` | `ProcessVideo`: status check, `processing`, metadata, `MarkAsFailed` |
| `Transcode`, `Encoded`, `Transcoded` | the ladder loop |
| `Segment`, `SegmentOn`, `Segmented`, `WriteMaster`, `SetHLSInfo` | `ConvertToHLS`, `GenerateMasterPlaylist`, `UpdateHLSInfo` |
| `Snap`, `Snapped`, `MarkReady`, `Finish` | thumbnail, `MarkAsReady`, final progress |
| `SyncFile`, `SyncDone` | `syncOutputsToStore` |
| `Timeout`, `Crash`, `Shutdown`, `ApiCrash`, `DeleteCrash` | the environment |

Failures are parameters.  `Faults` names what the environment may do: `api`
(the API process dies inside a request), `client` (the client goes away, and with it the
context of the request's calls to PostgreSQL, Redis and MinIO), `crash` (the worker dies), `shutdown`
(it is restarted), `timeout` (the attempt's one-hour deadline passes), `db`,
`enqueue`, `storage`, `ffmpeg` (the call fails).  A failure that the code itself
can cause, an UPDATE of a row that is gone, a missing input file, a dead context,
needs no entry.

Outside the repository, and modelled from how the code uses it: asynq.  A task
whose handler returns an error is retried up to `MaxRetry` times and then
archived; a task whose worker died is recovered as a retry; a task the worker
gave back at shutdown returns to its queue and its count does not change.  An
attempt whose deadline has passed runs on with a dead context; asynq's next
attempt comes a minute later at the earliest (`cmd/worker/main.go:87`), by which
time the first one, whose every further call fails at once, is over.

Abstractions a reader should know of:

- The local `os.RemoveAll` is two steps: it unlinks the files it finds (`DeleteOutputs`) and
  then the directories, unless something has been created in them since (`DeleteDir`).
  MinIO's list-and-remove is one.
- ffmpeg creates the segments one after the other and the playlist last.  When they are removed
  under it, it creates the rest all the same as long as the directory is there or another attempt makes
  it again (`SegmentOn`); what is left is partial, and the playlist may be there too.  Renditions
  may therefore survive a delete, and nothing is claimed about them.  For an MP4, which is
  one file, unlinking it is final.  ffmpeg opens its input and creates its first output in one
  step.
- `os.Remove` of a file the same function just created succeeds.
- Two ffmpeg processes on one output path leave a file that may be partial
  (`Contended`); a file unlinked while ffmpeg writes it stays unlinked.
- A failure injected by `Faults` hits before the effect: the case of a statement
  that commits although its reply is lost is not modelled.
- `UpdateDuration`, `UpdateResolution` and `normalizeThumbnailPath` are left out:
  no property is about those columns, and on Unix the last writes nothing.
- The initial probe of an upload is left out: its failure is only logged.

### Properties and runs

`MCVideoPipeline` names the fault sets; the `.cfg` files fix the rest.

| Run | Instance | Checks |
|---|---|---|
| `video_local` | local store, 2 rungs, 3 tasks, 1 retry, every fault, administrator waits | `TypeOK`, `ReadyIsPlayable`, `HLSFlagIsBacked`, `ProgressIsHonest`, `FollowsLifecycle` |
| `video_overlap` | local store, 2 rungs, 2 tasks, 1 retry, failing tools and queue, clients who leave, retry at any time | `ProcessingIsOwned`, `RawFollowsRow`, `ProcessingEnds` |
| `video_remote` | MinIO, 2 rungs, 2 tasks, 1 retry, every fault but `crash` and `shutdown` | `StagedRawIsWhole`, `DoneIsServed`, `PublishedIsNeverLost`, `ReadyGetsServed` |
| `video_unqueued` | the queue is down | `UnqueuedIsRetryable` is violated |
| `video_stranded` | deadline or restart | `NothingStranded` is violated |
| `video_halfstaged` | MinIO, the worker may die | `StagedRawIsWhole` is violated |
| `video_overtaken` | retry at any time | `ReadyIsFinal` is violated |

What they show:

- *What the row promises is there* (`ReadyIsPlayable`, `HLSFlagIsBacked`): with the
  local store, whatever fails and however often attempts are repeated, a `ready`
  video has at least one complete, not upscaled MP4 for every quality it lists, and
  `hls_ready` is only set over a master playlist whose entries are complete.  Both
  need an administrator who waits: two attempts in one directory truncate each
  other's files.
- *Progress is honest*: 100 exactly when `ready`.
- *The statuses follow `VideoLifecycle`* (refinement): picked up from `uploading` or
  `failed`, published from `processing` with a non-empty set of renditions that
  never changes again, gone for good after a delete.  That is the lifecycle as the code has it.
  The diagram of `README.md:193` has `failed --> processing : POST /admin/videos/:id/retry`,
  which the code does not do: `RetryVideo` writes `uploading`
  (`admin_handler.go:70`), an edge the diagram lacks, and `processing` comes when a worker picks the
  task up; between the two, or for good when the task cannot be queued (`video_unqueued`), a client sees
  a retried video as `uploading`.  With the diagram's edges alone the refinement fails at the first retry.
- *`processing` has an owner and an end*, as long as attempts are not cut short: also
  when attempts overlap, some attempt is at work on a video in `processing`, and it
  leaves that status.
- *The raw file follows the row* (`RawFollowsRow`): it is stored, whole, from its save until the
  insert has failed or the delete has come to it, and not otherwise: `upload_service.go:87`,
  "Any failure past this point must not leave an orphaned file behind".  This is with the local store,
  whose `Delete` does not look at the context.  MinIO's does, and the clean-up is given the context of the
  request: a client who leaves during the insert makes both fail, and the file stays.  What a worker
  under way makes of a deleted video may survive it.
- *Remote store*, while the worker lives: ffmpeg is never given half of a raw object; a published rendition
  is always in the store or still on the worker's disk; a task that ends well has put
  everything into the store; and what is published does get there unless asynq has
  given up.

The four disagreements with what the repository says of itself:

1. `video_unqueued`.  `video_handler.go:84` calls a failure to enqueue "recoverable
   via the admin retry endpoint", but that endpoint accepts only `failed` videos and
   this one is `uploading`.  The same holds for `RetryVideo`'s own enqueue.
2. `video_stranded`.  `README.md:191-192` has `processing` end in `ready` or `failed`.
   The trace: the deadline passes, the attempt calls `MarkAsFailed` with its dead
   context, the error is ignored, and every retry refuses a video in `processing`.
   A restart of the worker in the middle of an attempt has the same effect.
3. `video_overtaken`.  `README.md:194` has `ready` final.  The trace: `RetryVideo` has
   read `failed` when asynq's own retry picks the video up and publishes it; the
   unconditional `UpdateStatus(uploading)` takes it back.  Two overlapping attempts
   do the same to each other with `processing` and `failed`.
4. `video_halfstaged`.  `queue/handlers.go:127` has `stageRawFile` "materialize the raw
   object", reusing a file that is already there.  The trace: the worker dies in the
   middle of the copy, the recovered task finds the truncated file by `os.Stat`, and
   ffmpeg is given a part of the video.  This is why `video_remote` excludes `crash`
   and `shutdown`.

Bounds.  Two rungs give a first, a last, a skipped and a failing one, and a loop
that goes on after a failure.  Two tasks are the smallest overlap; the third task of
`video_local` allows a retry of a retry.  One retry gives the retried, the exhausted
and the archived task.  `height` ranges over all values, 0 (source below the lowest
rung) included.  Nothing else is bounded: the other variables are finite by the
structure of the code.  `SYMMETRY` permutes the tasks enqueued by `RetryVideo`, in
a run without liveness properties.  `CHECK_DEADLOCK FALSE`: when every task has
ended and no user acts the system does stop.

Fairness (`FairSpec`).  `WF` of the step each task's handler is at: the worker runs
it and asynq delivers again after a delay.  `WF` of the rest of a request the API has
begun.  Nothing is assumed of users, of the administrator, of the delete, or of the
faults; in particular a fault may hit every attempt, which is why `ReadyGetsServed`
excepts an archived task.

## 4. Sessions and accounts

`Sessions` is about tokens that nobody stores and the Redis entries that
revoke them, with the operations in any order.  `Accounts` extends it by the requests
that call those operations: who may call what, and when.  The marker lives for
`MarkerTTL`, which is `AccessTTL`, as `app.go:119` has it.

| Variable | Code |
|---|---|
| `now` | the milliseconds of the `iat_ms` claim |
| `issued`, `tok` | the JWTs signed so far and their claims: user, type, role, `iat_ms`, `exp` |
| `denied`, `marker` | `auth:revoked:jti:<jti>` and `auth:revoked:user:ms:<user>`, as the time they expire; the marker holds its cutoff too |
| `storeUp` | does Redis answer |
| `dead`, `revived` | history: tokens that a revocation which reported success was to cover; those of them that a marker with an older cutoff has uncovered again |
| `row` | the `users` table: password hash, role, `is_verified`, the digests of the two links with the expiry of one, the ban |
| `req` | the requests in progress: kind, position, the row it has read, the token or link it was given |
| `fate`, `lastSet`, `raced` | history: what became of each link, the password last accepted and when, whether a write has undone one its request had not seen |

| Actions | Code |
|---|---|
| `Sign`, `RevokeToken`, `RevokeAllUserSessions`, `IsRevoked` | `TokenService.sign`, `SessionService` |
| `Accepted`, `Permitted` | `middleware/auth.go`: `RequireAuth`, `RequirePermission` |
| `StartRegister`, `Register`, `StartLogin`, `LoginLookup`, `LoginRecord`, `IssueRefresh`, `RenewAccess` | `AuthService.Register`, `Login`, `issueTokens` |
| `StartRefresh`, `RefreshCheck`, `RefreshLookup` | `AuthService.Refresh` |
| `StartLogout`, `LogoutAccess`, `LogoutRefresh`, `StartLogoutAll`, `RevokeSessions`, `MarkSessions` | `Logout`, `RevokeAllSessions`: the cutoff is computed, then stored |
| `StartSend`, `SendRead`, `SendVerificationEmail`, `StartVerify`, `VerifyRead`, `VerifyWrite` | `EmailService`, verification |
| `StartForgot`, `ForgotRead`, `RequestPasswordReset`, `StartReset`, `ResetRead`, `ResetWrite` | `EmailService`, password reset |
| `StartChange`, `ChangeRead`, `ChangeWrite` | `ChangePassword` |
| `CreateByAdmin`, `StartPromote`, `Promote` | `cmd/admin` |
| `BanUser`, `UnbanUser` | `UserRepository.BanUser`, `UnbanUser`: the only updates of some columns alone |
| `Tick`, `Outage`, `BreakOff` | time; Redis goes and comes back; a request ends between two of its steps |

A request is cut into actions at every statement and every Redis command.  A
password stands for its hash and a link for the digest of its secret.  A link that was
mailed may be followed by anybody, twice, and with another user's address in front.

| Run | Instance | Checks |
|---|---|---|
| `accounts` | one user, 2 requests at once and 3 in all, 3 tokens, 2 passwords, 2 links, 2 roles, every failure | `TypeOK`, `RevokedStayUseless`, `EntriesDieWithTokens`, `LinksEndOnce`, `OldPasswordBuysNothing`, `BannedMintsNothing`, `BanOnlyByModerators`, `RevokedBuysNothing` |
| `accounts_marker` | nothing fails | `DeadStaysDead` is violated |
| `accounts_link` | nothing fails | `CancelledLinkIsDead` is violated |

What they show:

- *Revocation holds although its entries expire* (`RevokedStayUseless`): an access token that
  a logout, a logout-all or a new password covered is accepted nowhere, and a refresh token that was
  logged out buys nothing, as long as Redis answers or the middleware fails closed.  A
  refresh token that only the marker denied is useless as long as the marker lives (`Forgotten`),
  which is shorter than the token: `accounts_marker`.  The
  other exception is `revived`: the cutoff is computed before the SET that stores it, and
  of two revocations of one user the older cutoff may be stored last
  (`session_service.go:80-81`); then the tokens issued between the two cutoffs work again.
  `session_service.go:70` says "invalidates every token issued to userID up to now".
  Conversely no single entry outlives its token (`EntriesDieWithTokens`).
- *A refresh pays attention*: none gets past its check with a token revoked before it,
  the same two cases excepted (`RevokedBuysNothing`), and no login or refresh that starts after a ban gets on its
  way to a token (`BannedMintsNothing`).
- *Bans survive whole-row writes* (`BanOnlyByModerators`): a request that read the row
  before a ban does not lift it, since `Update` leaves those columns alone.
- *Links end, passwords end* (`LinksEndOnce`, `OldPasswordBuysNothing`), as long as no
  write has undone another.  Both are false without that reservation, and `raced` says
  exactly when it applies.

Two more disagreements with what the repository says of itself:

5. `accounts_marker`.  `app.go:119` passes `AccessTokenTTL` as the longest lifetime a
   token can have, and the comment above it relies on that.  The trace: logout-all
   covers a refresh token, the marker expires, the refresh token buys a new pair.
6. `accounts_link`.  `email_service.go:220-221` has a password change cancel a live
   reset link.  The trace: a login reads the row, the password is changed, the login
   records its time by writing back the whole row it had read, with the reset link
   (and the old password hash) in it.

Bounds.  Two requests at once are the smallest overlap; with three in all, an
account is registered and two requests overlap on it.  Three tokens are a pair and
the one it is exchanged for.  An access token lives for one tick and a refresh token for two.
Two links let one replace another.  `MCAccountScenes` plays two scenes, for two questions: every operation
up to tick 2, which passes the ends of access tokens, markers, links and bans; and, from an account that
has just been given its first two tokens, the operations on tokens alone (refresh, logout, logout-all, outages) up
to tick 3, which passes the end of a refresh token and of whatever denied it, and in which
revocations overtake each other (566 367 distinct states in all).  In the second, markers expire before the tokens
they deny and tokens are uncovered: all of `Forgotten`, `revived` and the expiry of refresh
tokens occur.  Two constraints keep the run small.  `AccountFirst`: the account is made before
anything else happens to time, with one of
the passwords and roles, which only names them.  `OneStore`: Redis is not down while
a ban lasts; a ban is kept and read in PostgreSQL alone.  The theorems of
`AccountsProofs` hold without scenes and constraints.  `SYMMETRY` permutes tokens and request
names; no property of the run is a liveness property.  None is stated here: requests end by
themselves, and no user is obliged to come back.

## 5. Community and moderation

`RowLocks` is PostgreSQL as the social statements use it.  A statement asks for
the locks of its own rows, then for those of the rows its foreign keys refer to, then
for those of the rows its triggers update, each stage in any order; it takes effect, with its
triggers and cascades, when it holds them all.  A transaction keeps its locks until
it ends.  When requests wait for each other in a circle the database fails one of
them (`BreakDeadlock`).

`Community` has one variable per table (`rating` is `likes`, `entry` is
`playlist_videos`, `later` is `watch_later`, `watched` is `watch_history`) with the
counters in the rows that carry them, `req` for the requests in progress and `held` for their locks.  A request reads
(`VideoCheck`, `ParentCheck`, `CommentCheck`, `OwnerCheck`, `PlaylistCheck`,
`ReportCheck`, `ReviewRead`, `ReviewTarget`), decides, and then runs the statement its
`step` names.  The `Start...` actions are the handlers up to their first access to the
database, with the permission checks of the middleware.  `joined` and `wasBanned`
are histories.

| Actions | Code |
|---|---|
| `UpsertLike`, `DeleteLike` | `SetLike`, `RemoveLike`, trigger `update_video_like_counts` |
| `CreateComment`, `UpdateComment`, `SoftDelete` | comments, the triggers for `comment_count` and `reply_count` |
| `CreateSubscription`, `DeleteSubscription`, `Notify`, `MarkRead`, `MarkAllRead` | subscriptions and notifications |
| `CreatePlaylist`, `UpdatePlaylist`, `DeletePlaylist`, `LockPlaylist`, `AddPlaylistVideo`, `RemovePlaylistVideo` | playlists; `AddPlaylistVideo` is one transaction of two statements |
| `UpsertWatchLater`, `DeleteWatchLater` | the watch-later list |
| `UpsertWatchHistory`, `DeleteWatchHistory` | `SaveProgress`, `DeleteHistoryEntry`, `ClearHistory` of the view handler |
| `CreateReport`, `ReviewRead`, `ReviewTarget`, `UpdateReport`, `Ban`, `Unban` | `ModerationService` |
| `DeleteVideo` | the delete of a video row, with every cascade |

The run `community` starts from the populated state of `MCCommunity` and lets two
requests overlap, with failures (86 623 distinct states).  Two users (one an
administrator) and two videos, one
of which has no owner, give every pair of roles a request can have: author and
stranger, owner and moderator, self and other.  The populated state contains one
row of every table, so that each request finds something to do; identities for new rows
suffice for two requests.  Three action constraints choose which requests begin, and cut off nothing of
what they do then, so that every behaviour goes on to its end:
`Overlapping`, the second begins while the first is in progress; `Telling`, they do not
both work on lists only their owner sees, nor both on the video without an owner outside a
playlist; `OneTarget`, a new report names a video or a user, not both.  The safety properties
are proved without them (`CommunityProofs`, `CommunityCounters`).

- `CountersMatch`: every counter a trigger maintains equals what counting anew would give, as
  `migrations/000011_fix_count_triggers.up.sql:93-98` did, over turned likes, soft deletes and cascades.
  For `comment_count` that is all live comments of the video, replies
  included; the comment listing and its `CountComments` (`social_repository.go:170-185`) stop at
  the top level, so that the two numbers differ on a video with a reply.
- `AppendsNeverCollide`: the comment on `AddPlaylistVideo` is right that a collision of
  positions is impossible with the playlist locked.
- `NothingDangles`: nothing refers to a deleted video, comment or playlist, although
  checks and inserts are separate statements, and a reply is on its parent's video;
  this covers likes, lists, the watch history, notifications and reports.
- `NotesAreEarned`: a notification goes to the right person, never to oneself, and for
  a subscription only as often as one came into being.
- `ReviewIsBacked`: a report resolved as `ban_user` had its deed done first, and none resolved as
  `delete_video` names a video that is still there, whatever broke off.  A report that names no video
  can be resolved as `delete_video` although nothing is deleted (`moderation_service.go:131-146` skips
  the delete and records the action); of such reports nothing is claimed.
- `EveryRequestEnds`: no request waits for ever.  Nobody keeps a lock beyond the end of the
  transaction, whichever way that goes; and where requests wait for each other in a circle, it is
  PostgreSQL's deadlock detection that ends it (`BreakDeadlock`), not the code: nothing orders the locks.
- `TypeOK` contains `Exclusive`: no two requests hold conflicting locks.

Fairness: `WF` of `Proceed(r)` for every request, in what it changes of the request or
its locks: the server and the database go on with what has been begun.  Weak fairness is enough for a contended lock
because the number of requests is bounded: once the competitors are through, the lock
stays free.  Nothing is assumed of users, nor is a failure obliged to happen.

## 6. Delivery

`Delivery` composes `RateLimiter`, `PlaylistCache` and `ViewTracker`, which share the
`Clock` and are bound together by what a request does: every playlist and every view
passes the limiter, then goes on to the two cache levels or to the claim.  There is one
video; the cache keys, claims and counters of another are others.

| Variable | Code |
|---|---|
| `counter` | `ratelimit:<rule>:<key>:<window>` with its expiry |
| `local`, `redis` | `LocalCache` of each API process; `playlist:<video>:<key>`. A copy is a version, the time it was read from the store, and its expiry |
| `claim`, `viewed` | `video:view_dedupe:<video>:<viewer>`; the rows of `video_views` |
| `row`, `stored` | may the video be watched; the version of its playlists in the store |
| `req` | the requests in progress, with the API process that serves them |
| `admitted`, `leaked`, `trouble`, `orphaned`, `floor`, `cleared`, `late` | histories the properties refer to |

| Actions | Code |
|---|---|
| `Limit` | `RateLimitWithLogger`, `RateLimiter.Allow` |
| `StartPlaylist`, `RowCheck`, `LocalGet`, `LocalDrop`, `RedisGet`, `StoreRead`, `RedisPut`, `LocalFill` | `ServeMasterPlaylist`, `ServeQualityPlaylist`, `CacheService` |
| `StartClear`, `Scan`, `Del` | `ClearPlaylistCache`, `DeletePattern` |
| `StartView`, `Claim`, `Record`, `Unclaim` | `ViewHandler.RecordView`, `ViewTracker` |
| `CleanUp`, `Crash` | `LocalCache.cleanup`; an API process starts again with an empty map |
| `Publish`, `DeleteRow`, `RemoveFiles`, `Tick` | the worker, a delete, time |

A command to Redis or PostgreSQL may fail with or without having been carried out.
The pipeline of INCR and EXPIRE may break between the two.  The Redis client is built without
`MaxRetries` (`app.go:261-267`), so the driver repeats what seems to have failed: a
repeated pipeline counts a request twice (`Limit`), and a repeated SETNX finds its own claim
(`Claim`).  Repeating the other commands changes nothing that carrying them out late would not.

The run `delivery`: two API processes with room for one playlist, a master and a
variant playlist, one viewer at one address, windows of two ticks, budgets of one
playlist and one view (1 844 511 distinct states).

- `WithinBudget`: within its window no counter admits more than its budget, and a counter without
  an expiry is always the work of a pipeline that broke.  It is no bound on what gets through: a
  request whose check fails passes uncounted (`rate_limiter.go:157-164`), and one checked after its
  window has ended is not charged to it.
- `CopiesAgeOut`: a copy in either level expires a fixed time after it left the store,
  however the levels refill each other.
- `ClearSticks`: after a clearing, older copies survive only in API processes for at most
  a minute, or because a request under way then stored them.
- `ViewsAreDistinct`: within one window a viewer counts once, plus at most once for each
  failed command.
- `ClaimsAreBacked`: a claim stands for a view that was counted or is being counted, with three
  exceptions (`orphaned`): the DEL that gives it back failed, the process that was counting died, or the driver
  repeated the SETNX.  The last is no failure the code sees: `TrackView` gets `false`
  without an error and drops the view, and a player that tries again is turned away until the
  claim expires, which the comment at `view_tracker.go:102-103` ("so the player's retry is not
  swallowed as a duplicate") and the one at line 80 ("silently dropping real views during an outage is the worse
  failure") mean to avoid.

Bounds.  `MaxEvents` counts requests and faults together; three of them are two
requests that overlap and a fault, or three requests.  `MaxVersions` 2: playlists rewritten
once.  `MaxTime` 3 passes the end of every window and every lifetime, lets a copy be
handed on by Redis at the end of its time there and kept locally after that, and a budget of
one is exceeded by the second request.  `Patience` bounds how long a
request takes; without it a copy read long ago could be stored at any time, in the
code as in the model.  The constraint `OneKind` drops
behaviours in which both views and playlists are asked for: they share nothing but
the clock, and have different rules in the limiter.  `PublishedFirst` drops those in which
time passes, or something is asked for, before the video is published: every such request ends at the
row check.  The theorems of `DeliveryProofs` hold without these bounds and constraints.
`SYMMETRY` permutes API processes and playlists, and all properties of the run are invariants.

## 7. Conventions

Actions are named for what has happened or is attempted at that point of the
handler.  Values of `stage` and `step` name the position *before* the action: a task
whose stage is `"claim"` is about to execute `Claim`.

Every property of a passing run has a mutant: an operator next to the one it replaces,
whose comment begins "Mutant of", that changes it as a plausible bug would and makes
TLC find the property violated.

Histories record what happened for the properties to refer to; no step of the code's
reads one.  The only guard on a history is `Followed`: a user can follow a link that
was mailed to somebody.

## 8. Proofs

The assumptions on the constants are the named `ASSUME`s of the modules, which TLC
evaluates in every run.  Every other hypothesis stands in the statement of its
theorem.

`VideoPipelineProofs`, for every number of rungs, every set of tasks, every
retry limit, both stores and every set of faults:

- `TypeCorrect`: `Spec => []TypeOK`.  `TypeOK` alone is not inductive: the rung an
  ffmpeg process is working on enters `made`, so `cursor[t]` must be a rung in the two
  stages in which ffmpeg runs (`InLadder`).  The inductive invariant is
  `TypeOK /\ InLadder`; `TypeNext` and `LadderNext` go through the actions one by one.
- `ProcessingOwned`: `Spec => []ProcessingIsOwned` under `NeverCut`, the assumption
  that the faults `crash`, `db`, `shutdown` and `timeout` are excluded.  It needs
  `AllAlive` (no context dies), and then: an attempt changes the status only where it claims,
  gives up or publishes (`WorkOnStatus`), a step of one task leaves the stage of the others alone
  (`WorksOnOwnStage`), and an attempt that holds the row leaves `Claimed` only through
  `GiveUp` or `MarkReady`, which cannot fail and move the row on (`HolderKeeps`).
  Without `NeverCut` the property is false; `video_stranded` shows how.
- `ProcessingMovesOn`: with `NeverCut`, `NothingStranded` follows, the very property that
  `video_stranded` refutes: the deadline, the loss of a worker and a database that
  fails are the only ways to be stranded.

`VideoLifecycleProofs` builds on the first of them:

- `PipelineFollowsLifecycle`: `Spec => FollowsLifecycle` under `AdminWaits`, the
  assumption that `RetryVideo` is only called while no task of the video is pending;
  every fault is allowed.  What a client observes of a state is `Observed`, which tells
  a video not yet inserted from a deleted one.  The code's updates do not test the
  status they overwrite, so a step maps to a step of `VideoLifecycle` only because of
  where its task stands.  `LifeInv` says so: at most one task is pending
  (`OneAtATime`), its stage determines the status (`Fits`), nothing happens to a video
  before its row is inserted or after it is deleted (`Ordered`), and only a ready video
  offers renditions.  Without `AdminWaits` the refinement fails; `video_overtaken` shows how.
- `ReadyStaysReady`: the property `video_overtaken` refutes, `ReadyIsFinal`, from the same
  invariant and hypothesis: a step is one of the lifecycle's, and none of those leads from
  `ready` anywhere but to the delete.

`VideoFilesProofs` is about what is on disk:

- `ReadyVideosPlay` (local store) and `ProgressHonest`, under `AdminWaits`, and `AnnouncedPlaylistsExist` under
  both.  `FilesInv` says of a recorded video that its raw file is whole, that what it
  offers is on disk and what it announces leads to finished playlists (`Offered`, `Flagged`),
  and, for each attempt, that what it believes to have made is there, made well and cut
  well (`Attempt`, with `Backed`, `MadeWell`, `CutWell`).  It stands on `LifeInv`: with one attempt at
  a time nobody truncates what another has finished.
- `RawFilesAreWhole`, `PublishedIsKept` and `UploadsAreComplete`, of the remote store, under `AdminWaits` and
  for a worker that stays up (neither `crash` nor `shutdown` among the faults; the database,
  the store and ffmpeg may fail at any time).  `StoreInv` says of a recorded video that a raw file
  at its final path is partial only while its copy is being made (`Staged`); that
  whatever it offers is on the worker's disk or in the store, and uploads that an attempt has behind
  it are in the store (`Published`); and that nothing is pending after a task that succeeded
  (`Settled`), so that no later attempt overwrites what it left.  `Attempt` holds of both stores and is shared with
  `FilesInv`.  A worker that is stopped during the copy does leave part of the raw file where
  the next attempt takes it for the whole; `video_halfstaged` shows it.
- `NoRawIsOrphaned`, with either store, retries at any time and every fault but `api` and
  `storage`, and with MinIO `client` (`StoreAnswers`): `RawFollowsRow`, the raw file is stored, whole, from the save of the upload until the
  insert fails or the delete has reached it, and is not there otherwise.  `RawInv` adds that the
  row comes after the save and before the delete.  `video_overlap` checks it with the local store.
- `IdleIsRetryable`: the property `video_unqueued` refutes, `UnqueuedIsRetryable`, holds under
  `Undisturbed`: `NeverCut`, a queue and an API process that work, and, with MinIO, a store
  that answers.  The invariant is `UploadingIsPending`: an `uploading` row has a task, or a request
  about to enqueue one.  Nobody has to wait for anybody here; an attempt that finds the video taken
  away leaves the task that took it.  With MinIO it needs `RawInv`, since an attempt
  whose raw object cannot be staged ends without touching the row.

`SessionsProofs` and `AccountsProofs`:

- `RevocationHolds` and `EntriesExpire`, of `SessionsSpec`: a dead token that was not revived is covered
  by its own entry, which lasts as long as it does, or by the marker of its user, which has the
  token's issue time below its cutoff and outlives it if it is an access token (`Covered`), since no token
  lives longer than its type allows (`Lifetimes`).  `SessionsSpec` lets the SET of a revocation come with any
  cutoff that is not in the future.
- `LogoutsHold` carries that over to the composed system: a request that revokes has computed its
  cutoff before it stores it (`Past`), so each step of `Accounts` is one of `SessionsSpec` or none.
- `AccountsTypeCorrect`; `BansHold`, for any number of overlapping requests: the check
  turns away whoever is banned at that time, and a later ban is no earlier than a request
  that has begun (`Past`); `OldPasswordsAreOut`: until a write races, the password in
  the row is the last one accepted (`StoredIsLastSet`), which is what the check compares
  with.
- `BansAreModerators` needs no invariant about bans: `StepWrites` classifies what each step does to the rows,
  and only a moderator's statement touches that column.  It does need that a request about
  to write has found the account (`Reads`) and that nobody is banned before having one (`Vacant`).
- `RevokedTokensBuyNothing`: the check is the only way on for a refresh, and it asks Redis at
  that time.  Its exceptions are those of `LogoutsHold`, which it uses.
- `LinksAreSpent`, from `LinksSound`: until a write races, the links in the rows were generated, are live
  and are stored once, and what a verification or a reset has read is still in the row when
  it writes.  What happens to links once writes do race is the next theorem's.
- `OnlyOutdatedWritesRevive`, of every behaviour, races included: whatever step makes
  `CancelledLinkIsDead` false is an `OutdatedWrite`, the whole-row write of a request that read
  the row before it changed, which puts back the link of then.  `accounts_link` shows one such step; there is no
  other kind.  The invariant, `Own`, survives the races: a link was generated, and no two accounts
  store it or have it in what a pending write would store.  `StepRtok` classifies what a
  step does to the links in the rows.

`DeliveryProofs`: `TypeCorrect`, `BudgetKept`, `CopiesExpire`, `ClearingHolds`, `ClaimsStand`, for any
number of API processes, playlists, viewers and requests, from one inductive
invariant, `DeliveryInv`.  Its parts say what the properties leave out: how old the content
is that a request carries (`Timely`), that nothing is let through before its window
(`Budgeted`), when each claim was made (`Backed`), what requests carry while and
after the cache is cleared (`Scanned`, `Carried`), and how long local copies last (`Young`).
`ViewsCountOnce` (`ViewsAreDistinct`) stands on it and on an account of every window, `Spaced`: the views
counted, those about to be and the claims about to be given back (`Due`) are together no more than one and
the failures, a SETNX repeated by the driver among them; and in a window that opens after the last claim was set (`Since`) that one is
still to come.  Only a claim that finds none spends it, and it closes at once all the windows it
falls in.  Once the video has gone no view is counted, and the account need not balance.

`CommunityProofs`, for any number of users, videos, comments, playlists, reports and
requests, has one inductive invariant, `CommunityInv`.  Statements run long after the reads
that justified them, so it says what those reads still vouch for:

- `Requests`: which fields a request has at each step (`Shape`), and what its reads
  established that nobody can undo (`Vouched`).  An identity once given to a comment or a
  report stays with it, so a reply is still on its parent's video when it is inserted,
  and a report is still the one that was looked up when the ban is carried out (`Lasting`, `GoodLasts`).
- `Placed`: `NothingDangles` table by table; the foreign keys and the cascades of
  `DeleteVideo` and `SoftDelete` keep it.
- `Locks`, `Appending`: conflicting locks are apart, and whoever is about to insert a
  playlist entry holds the playlist's lock and a position beyond every other.
- `Numbered`, `Earned`: no two notifications come from one request, and there are no more
  for a subscription than times it came into being.

From it follow `CommunityTypes`, `AppendsAreApart`, `NothingIsLeftDangling`, `ReviewsAreBacked` and
`NotesWereEarned`.  `CommunityCounters` proves `CountersNeverDrift` from `CommunityInv` and
`CountersMatch` alone, counter by counter: a statement changes a listing by exactly the row it
counts.  `Appending` excludes an entry without a position, which would be counted but not
listed; `Placed` excludes replies and entries of what is only being created; and a cascade
that takes a comment takes its replies.

## 9. Only model-checked

- Liveness: `ProcessingEnds`, `ReadyGetsServed`, `EveryRequestEnds`.  TLAPS cannot reason about
  fairness or `ENABLED`.
- What the theorems exclude by a hypothesis.  Every invariant of the passing runs, and every
  action property, is the subject of
  a theorem; where one assumes a patient administrator or a worker that stays up, the runs
  that expect a violation show what happens otherwise, as counterexamples on small instances.  Conversely each property those runs refute is a theorem
  once its cause is excluded.

## 10. Not modelled

- Search, recommendations and analytics are queries over tables that other
  components write.  The counters behind the realtime endpoints only accelerate them.
- The TypeScript client (`clients/typescript/src/client.ts`) runs outside the service; for
  `Sessions` and `Accounts` it is one more caller that may send any token it was given.
- Monitoring, metrics, audit and logging observe and decide nothing.
- Configuration, routing and wiring run once at start; what they fix (lifetimes, limits,
  budgets) are constants here.
- Templates, validators, password hashing and mail transport keep no state between
  requests.  ffmpeg and ffprobe appear through what they read and write.
- Segments and thumbnails are passed through from the store.
- How far a user has watched (`watch_duration`, `last_position`, `completed`) is data that
  nothing else reads; `Community` has the history's rows only.
- `video_optimizer.go`, `ConcurrencyLimitMiddleware` and `UserRepository.Delete` are not
  called by anything.

Disagreements that have no run of their own are stated where they come up: the diagram's
retry edge and the clean-up of an upload (section 3), revocations stored out of order
(section 4), the two counts of comments and a report without a video (section 5), the repeated
SETNX (section 6).

Also noticed while modelling, and without a run, because no single property of the models
would say it or because the repository says nothing to the contrary:

- `router.go` registers `a.rateLimit(...)` before the authenticator in every group but
  `upload` and the password change, so that `rateLimitKey` sees an address where its
  comment speaks of user IDs.
- A playlist may be cached as soon as `hls_ready` is set, before the video is `ready`, and
  a repeated attempt rewrites it.  `streaming_handler.go:23` relies on "Playlists are
  immutable once a video is ready".
- `UpdatePlaylist` (`social_service.go:390`) reads a playlist and writes all its columns:
  of two overlapping edits one may undo the other.
- Two overlapping reports of one user on one video are both filed
  (`moderation_service.go:76`); a report may lead to a ban of its own reviewer
  (`moderation_service.go:168`), which the direct route refuses.
- The client's `logout` (`client.ts`) says "Clears held tokens", but a refresh that is under
  way when it returns stores a new pair afterwards; and a 401 that arrives after the shared
  refresh has ended starts another one.
