---------------------------- MODULE VideoPipeline ----------------------------
(***************************************************************************)
(* The life of one uploaded video: the API handlers that record, retry and *)
(* delete it, the asynq tasks that carry it to the worker, and the         *)
(* worker's ProcessTask / ProcessVideo, which probe, transcode, segment    *)
(* and publish it.                                                         *)
(*                                                                         *)
(* Rows, storage keys and tasks are all keyed by the video's UUID and no   *)
(* statement touches two videos, so one video stands for all of them.  The *)
(* concurrency is between the tasks of that video, the administrator's     *)
(* requests and the owner's delete.                                        *)
(***************************************************************************)
EXTENDS Integers

CONSTANTS
    NumQualities, \* rungs of the ladder; 4 in the code (360p .. 1080p)
    Task,         \* identities of the tasks that may ever be enqueued
    UploadTask,   \* the one enqueued by Upload; the others by RetryVideo
    MaxRetry,     \* asynq.MaxRetry; 3 in the code
    Remote,       \* TRUE: MinIO store; FALSE: the local store
    AdminWaits,   \* TRUE: RetryVideo is only called when no task is pending
    Faults        \* which failures the environment may inject

FaultKind == {"api", "client", "crash", "db", "enqueue", "ffmpeg",
              "shutdown", "storage", "timeout"}

ASSUME ParamAssumption ==
    /\ NumQualities \in Nat \ {0}
    /\ UploadTask \in Task
    /\ MaxRetry \in Nat
    /\ Remote \in BOOLEAN
    /\ AdminWaits \in BOOLEAN
    /\ Faults \subseteq FaultKind

Quality == 1..NumQualities

VARIABLES
    row,     \* the videos row
    height,  \* the highest rung that would not upscale the source
    disk,    \* files under the worker's STORAGE_* paths
    store,   \* objects in MinIO (untouched when ~Remote)
    outDir,  \* does the transcoded/<id> directory exist on disk?
    listed,  \* renditions named by the last master playlist written
    del,     \* progress of the DELETE request
    stage,   \* where each task, or the request that creates it, stands
    tries,   \* asynq's count of retries of each task
    alive,   \* is the context of the task's running attempt still live?
    cursor,  \* loop index of the attempt
    made,    \* the attempt's `transcoded`
    cut,     \* the attempt's `hlsQualities`
    poster   \* did the attempt produce a thumbnail?

files == <<disk, store, outDir, listed>>
attempt == <<alive, cursor, made, cut, poster>>
vars == <<row, height, files, del, stage, tries, attempt>>

-----------------------------------------------------------------------------
(* The row *)

Row == [status : {"none", "uploading", "processing", "ready", "failed"},
        progress : Nat,
        avail : SUBSET Quality,
        hls : BOOLEAN,
        thumb : BOOLEAN]

NoRow == [status |-> "none", progress |-> 0, avail |-> {},
          hls |-> FALSE, thumb |-> FALSE]

NewVideo == [NoRow EXCEPT !.status = "uploading"]

Recorded == row.status # "none"

\* Mutant of Progress: a step is left out of totalSteps.
ProgressShort(i) == (i * 100) \div (NumQualities + 1)

\* int(float64(i) / float64(totalSteps) * 100) for the zero-based step i.
Progress(i) == (i * 100) \div (NumQualities + 2)

\* A repository call of task t's attempt reaches the row, or reports an error:
\* no such row, a dead context, a database failure.
Applies(t) == alive[t] /\ Recorded
Refused(t) == ~alive[t] \/ ~Recorded \/ "db" \in Faults

\* An UPDATE whose error is only logged.
TryUpdate(t, new) ==
    \/ Applies(t) /\ row' = new
    \/ Refused(t) /\ UNCHANGED row

-----------------------------------------------------------------------------
(* The files.  "partial" is a file that ffmpeg or a copy has not finished, *)
(* or whose source was itself partial.                                     *)

FileState == {"absent", "partial", "complete"}

Mp4(q) == <<"mp4", q>>
Hls(q) == <<"hls", q>>
Raw == <<"raw", 0>>
Master == <<"master", 0>>
Thumb == <<"thumb", 0>>

Output == {Mp4(q) : q \in Quality} \cup {Hls(q) : q \in Quality} \cup {Master}
File == Output \cup {Raw, Thumb}

Empty == [f \in File |-> "absent"]

\* What a client is served from.
Served(f) == IF Remote THEN store[f] ELSE disk[f]

Put(files0, f, s) == [files0 EXCEPT ![f] = s]
Without(files0, gone) == [f \in File |-> IF f \in gone THEN "absent" ELSE files0[f]]

\* What ffmpeg makes of an input file: a truncated input gives a truncated
\* output and no error.
Product(input) == IF disk[input] = "partial" THEN "partial" ELSE "complete"

\* The order in which syncOutputsToStore uploads: the output directory, in
\* walk order (mp4 files before hls/, hls/<quality> before hls/master.m3u8),
\* then the thumbnail.
NumUploads == 2 * NumQualities + 2
Upload(i) == IF i <= NumQualities THEN Mp4(i)
             ELSE IF i <= 2 * NumQualities THEN Hls(i - NumQualities)
             ELSE IF i = 2 * NumQualities + 1 THEN Master
             ELSE Thumb

-----------------------------------------------------------------------------
(* The tasks *)

InApi == {"saved", "recorded", "loaded", "reset"}
Ended == {"done", "archived", "dropped"}
Writing == {"transcode", "encoding", "hls", "segmenting", "leftover",
            "hlsinfo", "thumb", "snapping", "ready"}
Claimed == Writing \cup {"probe", "giveup"}
InWorker == Claimed \cup {"load", "stage", "staging", "check", "claim",
                          "final", "sync"}
Stage == {"none", "queued"} \cup InApi \cup Ended \cup InWorker

Live(t) == stage[t] \notin {"none"} \cup Ended
Running(t) == stage[t] \in InWorker

Goto(t, s) == stage' = [stage EXCEPT ![t] = s]

\* Mutant of Fail: one retry too many.
FailLate(t) ==
    /\ Goto(t, IF tries[t] <= MaxRetry THEN "queued" ELSE "archived")
    /\ tries' = [tries EXCEPT ![t] = IF @ <= MaxRetry THEN @ + 1 ELSE @]

\* The handler returned an error: asynq schedules another attempt, or archives
\* the task once its retries are used up.
Fail(t) ==
    /\ Goto(t, IF tries[t] < MaxRetry THEN "queued" ELSE "archived")
    /\ tries' = [tries EXCEPT ![t] = IF @ < MaxRetry THEN @ + 1 ELSE @]

Advance(t, i) == cursor' = [cursor EXCEPT ![t] = i]

-----------------------------------------------------------------------------
TypeOK ==
    /\ row \in Row
    /\ height \in 0..NumQualities
    /\ disk \in [File -> FileState]
    /\ store \in [File -> FileState]
    /\ outDir \in BOOLEAN
    /\ listed \subseteq Quality
    /\ del \in {"no", "raw", "outputs", "dir", "thumb", "done"}
    /\ stage \in [Task -> Stage]
    /\ tries \in [Task -> 0..MaxRetry]
    /\ alive \in [Task -> BOOLEAN]
    /\ cursor \in [Task -> Nat \ {0}]
    /\ made \in [Task -> SUBSET Quality]
    /\ cut \in [Task -> SUBSET Quality]
    /\ poster \in [Task -> BOOLEAN]

Init ==
    /\ row = NoRow
    /\ height \in 0..NumQualities
    /\ disk = Empty
    /\ store = Empty
    /\ outDir = FALSE
    /\ listed = {}
    /\ del = "no"
    /\ stage = [t \in Task |-> "none"]
    /\ tries = [t \in Task |-> 0]
    /\ alive = [t \in Task |-> TRUE]
    /\ cursor = [t \in Task |-> 1]
    /\ made = [t \in Task |-> {}]
    /\ cut = [t \in Task |-> {}]
    /\ poster = [t \in Task |-> FALSE]

-----------------------------------------------------------------------------
(* The API: upload, admin retry, delete *)

\* A request's call to PostgreSQL ("db") or Redis ("enqueue") fails: by itself, or
\* because the client has gone and the request's context with it.
CallFails(kind) == {kind, "client"} \cap Faults # {}

\* Likewise a call to the store; the local one does not look at the context.
StoreFails == "storage" \in Faults \/ (Remote /\ "client" \in Faults)

SetServed(f, s) ==
    IF Remote THEN store' = Put(store, f, s) /\ UNCHANGED disk
              ELSE disk' = Put(disk, f, s) /\ UNCHANGED store

\* UploadVideo, persistFile: the raw bytes go to the store under a fresh key.
\* Save removes what it wrote when it fails.
UploadSave ==
    /\ stage[UploadTask] = "none"
    /\ \/ SetServed(Raw, "complete") /\ Goto(UploadTask, "saved")
       \/ /\ StoreFails
          /\ Goto(UploadTask, "dropped")
          /\ UNCHANGED <<disk, store>>
    /\ UNCHANGED <<row, height, outDir, listed, del, tries, attempt>>

\* Mutant of UploadRecord: the error is shadowed, so the deferred clean-up does not
\* see it.
UploadRecordShadowed ==
    /\ stage[UploadTask] = "saved"
    /\ \/ row' = NewVideo /\ Goto(UploadTask, "recorded")
       \/ CallFails("db") /\ Goto(UploadTask, "dropped") /\ UNCHANGED row
    /\ UNCHANGED <<height, files, del, tries, attempt>>

\* UploadVideo: INSERT the row, or delete the stored file again (best effort, and
\* with the request's own context).
UploadRecord ==
    /\ stage[UploadTask] = "saved"
    /\ \/ /\ row' = NewVideo
          /\ Goto(UploadTask, "recorded")
          /\ UNCHANGED <<disk, store>>
       \/ /\ CallFails("db")
          /\ Goto(UploadTask, "dropped")
          /\ UNCHANGED row
          /\ \/ SetServed(Raw, "absent")
             \/ StoreFails /\ UNCHANGED <<disk, store>>
    /\ UNCHANGED <<height, outDir, listed, del, tries, attempt>>

\* EnqueueVideoProcessing, called last by Upload and by RetryVideo; neither
\* undoes what it already wrote when the queue cannot be reached.
Enqueue(t) ==
    /\ stage[t] \in {"recorded", "reset"}
    /\ \/ Goto(t, "queued")
       \/ CallFails("enqueue") /\ Goto(t, "dropped")
    /\ UNCHANGED <<row, height, files, del, tries, attempt>>

\* RetryVideo: GetByID and the status check.
AdminLoad(t) ==
    /\ t # UploadTask
    /\ stage[t] = "none"
    /\ row.status = "failed"
    /\ AdminWaits => \A u \in Task : ~Live(u)
    /\ Goto(t, "loaded")
    /\ UNCHANGED <<row, height, files, del, tries, attempt>>

\* RetryVideo: UpdateStatus(uploading), whatever the status is by now.
AdminReset(t) ==
    /\ stage[t] = "loaded"
    /\ \/ /\ Recorded
          /\ row' = [row EXCEPT !.status = "uploading"]
          /\ Goto(t, "reset")
       \/ /\ ~Recorded \/ CallFails("db")
          /\ Goto(t, "dropped")
          /\ UNCHANGED row
    /\ UNCHANGED <<height, files, del, tries, attempt>>

\* The API process dies inside Upload or RetryVideo.
ApiCrash(t) ==
    /\ "api" \in Faults
    /\ stage[t] \in InApi
    /\ Goto(t, "dropped")
    /\ UNCHANGED <<row, height, files, del, tries, attempt>>

\* Mutant of DeleteRow: the files go although the row has not.
DeleteRowFails ==
    /\ del = "no" /\ Recorded
    /\ del' = "raw"
    /\ UNCHANGED <<row, height, files, stage, tries, attempt>>

\* DeleteVideo, and ReviewReport's delete_video: the row first.
DeleteRow ==
    /\ del = "no" /\ Recorded
    /\ row' = NoRow
    /\ del' = "raw"
    /\ UNCHANGED <<height, files, stage, tries, attempt>>

\* RemoveVideoFiles: three best-effort removals from what is served.  With the
\* local store the prefix is the worker's own output directory.
DropServed(gone) ==
    IF Remote THEN store' = Without(store, gone) /\ UNCHANGED disk
              ELSE disk' = Without(disk, gone) /\ UNCHANGED store

DeleteRaw ==
    /\ del = "raw" /\ del' = "outputs"
    /\ \/ DropServed({Raw})
       \/ StoreFails /\ UNCHANGED <<disk, store>>
    /\ UNCHANGED <<row, height, outDir, listed, stage, tries, attempt>>

\* DeletePrefix.  The local store's os.RemoveAll unlinks what it finds in the
\* directories first.
DeleteOutputs ==
    /\ del = "outputs" /\ del' = IF Remote THEN "thumb" ELSE "dir"
    /\ \/ DropServed(Output)
       \/ StoreFails /\ UNCHANGED <<disk, store>>
    /\ UNCHANGED <<row, height, outDir, listed, stage, tries, attempt>>

\* ... and removes the directories next, which it cannot when files have been
\* created in them in the meantime: the error is logged and they stay.
DeleteDir ==
    /\ del = "dir" /\ del' = "thumb"
    /\ outDir' = (outDir /\ \E f \in Output : disk[f] # "absent")
    /\ UNCHANGED <<row, height, disk, store, listed, stage, tries, attempt>>

DeleteThumb ==
    /\ del = "thumb" /\ del' = "done"
    /\ \/ DropServed({Thumb})
       \/ StoreFails /\ UNCHANGED <<disk, store>>
    /\ UNCHANGED <<row, height, outDir, listed, stage, tries, attempt>>

\* The API process dies between deleting the row and the last file.
DeleteCrash ==
    /\ "api" \in Faults
    /\ del \in {"raw", "outputs", "dir", "thumb"}
    /\ del' = "done"
    /\ UNCHANGED <<row, height, files, stage, tries, attempt>>

-----------------------------------------------------------------------------
(* The worker: ProcessTask *)

\* asynq hands the task to a handler with a context that lives for an hour.
Dequeue(t) ==
    /\ stage[t] = "queued"
    /\ Goto(t, IF Remote THEN "load" ELSE "check")
    /\ alive' = [alive EXCEPT ![t] = TRUE]
    /\ cursor' = [cursor EXCEPT ![t] = 1]
    /\ made' = [made EXCEPT ![t] = {}]
    /\ cut' = [cut EXCEPT ![t] = {}]
    /\ poster' = [poster EXCEPT ![t] = FALSE]
    /\ UNCHANGED <<row, height, files, del, tries>>

\* Remote only: GetByID; a ready video resumes at the upload of its outputs.
Load(t) ==
    /\ stage[t] = "load"
    /\ \/ /\ Applies(t)
          /\ Goto(t, IF row.status = "ready" THEN "sync" ELSE "stage")
          /\ UNCHANGED tries
       \/ Refused(t) /\ Fail(t)
    /\ UNCHANGED <<row, height, files, del, attempt>>

\* stageRawFile: reuse the local raw file, or open the object and create it.
StageRaw(t) ==
    /\ stage[t] = "stage"
    /\ \/ disk[Raw] # "absent" /\ Goto(t, "check") /\ UNCHANGED <<disk, tries>>
       \/ /\ disk[Raw] = "absent" /\ alive[t] /\ store[Raw] # "absent"
          /\ disk' = Put(disk, Raw, "partial")
          /\ Goto(t, "staging")
          /\ UNCHANGED tries
       \/ /\ disk[Raw] = "absent"
          /\ ~alive[t] \/ store[Raw] = "absent" \/ "storage" \in Faults
          /\ Fail(t)
          /\ UNCHANGED disk
    /\ UNCHANGED <<row, height, store, outDir, listed, del, attempt>>

\* Mutant of StagedRaw: a failed copy is left behind.
StagedRawKept(t) ==
    /\ stage[t] = "staging"
    /\ \/ /\ alive[t]
          /\ disk' = Put(disk, Raw, "complete")
          /\ Goto(t, "check")
          /\ UNCHANGED tries
       \/ /\ ~alive[t] \/ "storage" \in Faults
          /\ UNCHANGED disk
          /\ Fail(t)
    /\ UNCHANGED <<row, height, store, outDir, listed, del, attempt>>

\* stageRawFile: the copy completes, or fails and is removed.
StagedRaw(t) ==
    /\ stage[t] = "staging"
    /\ \/ /\ alive[t]
          /\ disk' = Put(disk, Raw, "complete")
          /\ Goto(t, "check")
          /\ UNCHANGED tries
       \/ /\ ~alive[t] \/ "storage" \in Faults
          /\ disk' = Put(disk, Raw, "absent")
          /\ Fail(t)
    /\ UNCHANGED <<row, height, store, outDir, listed, del, attempt>>

-----------------------------------------------------------------------------
(* The worker: ProcessVideo *)

\* Mutant of Claimable: a crashed attempt's `processing`, and anything else,
\* is taken up again.
AnyClaimable == Recorded

\* The statuses ProcessVideo starts from.
Claimable == row.status \in {"uploading", "failed"}

\* GetByID and the status check.
Check(t) ==
    /\ stage[t] = "check"
    /\ \/ /\ Applies(t) /\ Claimable
          /\ Goto(t, "claim")
          /\ UNCHANGED tries
       \/ /\ Refused(t) \/ ~Claimable
          /\ Fail(t)
    /\ UNCHANGED <<row, height, files, del, attempt>>

\* UpdateStatus(processing), whatever the status is by now.
Claim(t) ==
    /\ stage[t] = "claim"
    /\ \/ /\ Applies(t)
          /\ row' = [row EXCEPT !.status = "processing"]
          /\ Goto(t, "probe")
          /\ UNCHANGED tries
       \/ Refused(t) /\ Fail(t) /\ UNCHANGED row
    /\ UNCHANGED <<height, files, del, attempt>>

\* ExtractMetadata and MkdirAll.  (Duration and resolution are not modelled.)
Probe(t) ==
    /\ stage[t] = "probe"
    /\ \/ /\ alive[t] /\ disk[Raw] # "absent"
          /\ outDir' = TRUE
          /\ Goto(t, "transcode")
       \/ /\ ~alive[t] \/ disk[Raw] = "absent" \/ {"ffmpeg", "storage"} \cap Faults # {}
          /\ Goto(t, "giveup")
          /\ UNCHANGED outDir
    /\ UNCHANGED <<row, height, disk, store, listed, del, tries, attempt>>

\* Mutant of GiveUp: the error is returned and the row is left alone.
GiveUpSilently(t) ==
    /\ stage[t] = "giveup"
    /\ Fail(t)
    /\ UNCHANGED <<row, height, files, del, attempt>>

\* MarkAsFailed, its error ignored, and the error return.
GiveUp(t) ==
    /\ stage[t] = "giveup"
    /\ TryUpdate(t, [row EXCEPT !.status = "failed"])
    /\ Fail(t)
    /\ UNCHANGED <<height, files, del, attempt>>

\* One turn of the transcode loop: UpdateProgress, then ffmpeg truncates the
\* output; or ffmpeg cannot open its files and the loop continues.  Rungs above
\* the source's height are skipped.
Transcode(t) ==
    /\ stage[t] = "transcode" /\ cursor[t] <= height
    /\ TryUpdate(t, [row EXCEPT !.progress = Progress(cursor[t] - 1)])
    /\ \/ /\ alive[t] /\ disk[Raw] # "absent" /\ outDir
          /\ disk' = Put(disk, Mp4(cursor[t]), "partial")
          /\ Goto(t, "encoding")
          /\ UNCHANGED cursor
       \/ /\ ~alive[t] \/ disk[Raw] = "absent" \/ ~outDir
          /\ Advance(t, cursor[t] + 1)
          /\ UNCHANGED <<disk, stage>>
    /\ UNCHANGED <<height, store, outDir, listed, del, tries, alive, made, cut, poster>>

\* Two ffmpeg processes on one output path leave it in an unknown state.
Contended(t) ==
    \E u \in Task \ {t} : stage[u] = "encoding" /\ cursor[u] = cursor[t]

\* ffmpeg exits.  A file unlinked in the meantime stays unlinked.
Encoded(t) ==
    LET out == Mp4(cursor[t]) IN
    /\ stage[t] = "encoding"
    /\ \/ /\ alive[t]
          /\ \E s \in {Product(Raw)} \cup (IF Contended(t) THEN {"partial"} ELSE {}) :
                disk' = IF disk[out] = "absent" THEN disk ELSE Put(disk, out, s)
          /\ made' = [made EXCEPT ![t] = @ \cup {cursor[t]}]
       \/ /\ ~alive[t] \/ "ffmpeg" \in Faults
          /\ UNCHANGED <<disk, made>>
    /\ Advance(t, cursor[t] + 1)
    /\ Goto(t, "transcode")
    /\ UNCHANGED <<row, height, store, outDir, listed, del, tries, alive, cut, poster>>

\* Mutant of Transcoded: an empty `transcoded` goes on to be published.
TranscodedUnchecked(t) ==
    /\ stage[t] = "transcode" /\ cursor[t] > height
    /\ TryUpdate(t, [row EXCEPT !.progress = Progress(NumQualities)])
    /\ Goto(t, "hls")
    /\ Advance(t, 1)
    /\ UNCHANGED <<height, files, del, tries, alive, made, cut, poster>>

\* The loop is over: nothing transcoded, or on to HLS.
Transcoded(t) ==
    /\ stage[t] = "transcode" /\ cursor[t] > height
    /\ \/ made[t] = {} /\ Goto(t, "giveup") /\ UNCHANGED <<row, cursor>>
       \/ /\ made[t] # {}
          /\ TryUpdate(t, [row EXCEPT !.progress = Progress(NumQualities)])
          /\ Goto(t, "hls")
          /\ Advance(t, 1)
    /\ UNCHANGED <<height, files, del, tries, alive, made, cut, poster>>

\* ConvertToHLS of the next transcoded rung: MkdirAll, then ffmpeg opens the MP4
\* and starts over on the segments and the playlist.
Segment(t) ==
    /\ stage[t] = "hls"
    /\ \E q \in made[t] :
        /\ q >= cursor[t]
        /\ \A p \in made[t] : p >= cursor[t] => q <= p
        /\ outDir' = TRUE
        /\ \/ /\ alive[t] /\ disk[Mp4(q)] # "absent"
              /\ disk' = Put(disk, Hls(q), "partial")
              /\ Goto(t, "segmenting")
              /\ Advance(t, q)
           \/ /\ ~alive[t] \/ disk[Mp4(q)] = "absent"
              /\ Advance(t, q + 1)
              /\ UNCHANGED <<disk, stage>>
    /\ UNCHANGED <<row, height, store, listed, del, tries, alive, made, cut, poster>>

\* ffmpeg's files have been removed under it.  It creates the segments still to
\* come, and at the end the playlist, all the same, as long as the directory is
\* there (not yet removed, or made again by another attempt).
SegmentOn(t) ==
    /\ stage[t] \in {"segmenting", "leftover"}
    /\ alive[t] /\ outDir /\ disk[Hls(cursor[t])] = "absent"
    /\ disk' = Put(disk, Hls(cursor[t]), "partial")
    /\ Goto(t, "leftover")
    /\ UNCHANGED <<row, height, store, outDir, listed, del, tries, attempt>>

\* What ffmpeg leaves of a rung: the last segments of what was removed under it,
\* a mixture when two of them write the same segments, else the whole of it.
Segments(t) ==
    IF stage[t] = "leftover" THEN {"partial"}
    ELSE {Product(Mp4(cursor[t]))}
            \cup IF \E u \in Task \ {t} : /\ stage[u] \in {"segmenting", "leftover"}
                                          /\ cursor[u] = cursor[t]
                 THEN {"partial"} ELSE {}

\* ffmpeg exits and a segment and the playlist are looked for; both the first
\* run and the internal second one may fail, and a playlist may be all there is.
Segmented(t) ==
    LET q == cursor[t] IN
    /\ stage[t] \in {"segmenting", "leftover"}
    /\ \/ /\ alive[t] /\ disk[Hls(q)] # "absent"
          /\ \E s \in Segments(t) : disk' = Put(disk, Hls(q), s)
          /\ cut' = [cut EXCEPT ![t] = @ \cup {q}]
       \/ /\ \/ ~alive[t] \/ disk[Hls(q)] = "absent" \/ "ffmpeg" \in Faults
             \/ stage[t] = "leftover"
          /\ UNCHANGED <<disk, cut>>
    /\ Advance(t, q + 1)
    /\ Goto(t, "hls")
    /\ UNCHANGED <<row, height, store, outDir, listed, del, tries, alive, made, poster>>

\* GenerateMasterPlaylist, for the rungs whose playlist exists; skipped when
\* nothing was segmented.
WriteMaster(t) ==
    /\ stage[t] = "hls"
    /\ \A q \in made[t] : q < cursor[t]
    /\ \/ /\ cut[t] # {} /\ outDir
          /\ disk' = Put(disk, Master, "complete")
          /\ listed' = {q \in cut[t] : disk[Hls(q)] # "absent"}
          /\ Goto(t, "hlsinfo")
       \/ /\ cut[t] = {} \/ ~outDir \/ "storage" \in Faults
          /\ Goto(t, "thumb")
          /\ UNCHANGED <<disk, listed>>
    /\ UNCHANGED <<row, height, store, outDir, del, tries, attempt>>

\* UpdateHLSInfo, its error logged.
SetHLSInfo(t) ==
    /\ stage[t] = "hlsinfo"
    /\ TryUpdate(t, [row EXCEPT !.hls = TRUE])
    /\ Goto(t, "thumb")
    /\ UNCHANGED <<height, files, del, tries, attempt>>

\* UpdateProgress, then ffmpeg opens the raw file to extract a frame.
Snap(t) ==
    /\ stage[t] = "thumb"
    /\ TryUpdate(t, [row EXCEPT !.progress = Progress(NumQualities + 1)])
    /\ \/ alive[t] /\ disk[Raw] # "absent" /\ Goto(t, "snapping")
       \/ (~alive[t] \/ disk[Raw] = "absent") /\ Goto(t, "ready")
    /\ UNCHANGED <<height, files, del, tries, attempt>>

\* ffmpeg exits: the thumbnail is written, or its path stays empty.
Snapped(t) ==
    /\ stage[t] = "snapping"
    /\ \/ /\ alive[t]
          /\ disk' = Put(disk, Thumb, "complete")
          /\ poster' = [poster EXCEPT ![t] = TRUE]
       \/ /\ ~alive[t] \/ "ffmpeg" \in Faults
          /\ UNCHANGED <<disk, poster>>
    /\ Goto(t, "ready")
    /\ UNCHANGED <<row, height, store, outDir, listed, del, tries, alive, cursor, made, cut>>

\* MarkAsReady.
MarkReady(t) ==
    /\ stage[t] = "ready"
    /\ \/ /\ Applies(t)
          /\ row' = [row EXCEPT !.status = "ready", !.avail = made[t],
                                !.thumb = poster[t], !.progress = 100]
          /\ Goto(t, "final")
          /\ UNCHANGED tries
       \/ Refused(t) /\ Fail(t) /\ UNCHANGED row
    /\ UNCHANGED <<height, files, del, attempt>>

\* Mutant of Finish: the outputs are never uploaded.
FinishUnsynced(t) ==
    /\ stage[t] = "final"
    /\ TryUpdate(t, [row EXCEPT !.progress = 100])
    /\ Goto(t, "done")
    /\ Advance(t, 1)
    /\ UNCHANGED <<height, files, del, tries, alive, made, cut, poster>>

\* UpdateProgress(100), its error logged; the local store's task is finished.
Finish(t) ==
    /\ stage[t] = "final"
    /\ TryUpdate(t, [row EXCEPT !.progress = 100])
    /\ Goto(t, IF Remote THEN "sync" ELSE "done")
    /\ Advance(t, 1)
    /\ UNCHANGED <<height, files, del, tries, alive, made, cut, poster>>

-----------------------------------------------------------------------------
(* The worker: syncOutputsToStore *)

\* Mutant of SyncFile: a failed upload is skipped over.
SyncFileLogged(t) ==
    LET f == Upload(cursor[t]) IN
    /\ stage[t] = "sync" /\ cursor[t] <= NumUploads
    /\ \/ disk[f] # "absent" /\ alive[t] /\ store' = Put(store, f, disk[f])
       \/ (~alive[t] \/ "storage" \in Faults \/ disk[f] = "absent") /\ UNCHANGED store
    /\ Advance(t, cursor[t] + 1)
    /\ UNCHANGED <<row, height, disk, outDir, listed, del, stage, tries, alive, made, cut, poster>>

\* The next file is uploaded if it exists; an error ends the attempt.
SyncFile(t) ==
    LET f == Upload(cursor[t]) IN
    /\ stage[t] = "sync" /\ cursor[t] <= NumUploads
    /\ \/ /\ disk[f] # "absent" /\ alive[t]
          /\ store' = Put(store, f, disk[f])
          /\ Advance(t, cursor[t] + 1)
          /\ UNCHANGED <<stage, tries>>
       \/ /\ disk[f] # "absent"
          /\ ~alive[t] \/ "storage" \in Faults
          /\ Fail(t)
          /\ UNCHANGED <<store, cursor>>
       \/ /\ disk[f] = "absent"
          /\ Advance(t, cursor[t] + 1)
          /\ UNCHANGED <<store, stage, tries>>
    /\ UNCHANGED <<row, height, disk, outDir, listed, del, alive, made, cut, poster>>

\* The local working copies go, as far as they can be removed (not the directory
\* another attempt goes on segmenting into), and the task is finished.
SyncDone(t) ==
    /\ stage[t] = "sync" /\ cursor[t] > NumUploads
    /\ \E kept \in IF "storage" \in Faults THEN SUBSET {Output, {Thumb}, {Raw}} ELSE {{}} :
        /\ disk' = Without(disk, File \ UNION kept)
        /\ outDir' \in {outDir /\ Output \in kept} \cup
              IF \E u \in Task \ {t} : stage[u] \in {"segmenting", "leftover"} THEN {outDir} ELSE {}
    /\ Goto(t, "done")
    /\ UNCHANGED <<row, height, store, listed, del, tries, attempt>>

-----------------------------------------------------------------------------
(* The worker process *)

\* The attempt's deadline passes; what remains of the handler runs with a dead
\* context, long before asynq's retry delay is over.
Timeout(t) ==
    /\ "timeout" \in Faults
    /\ Running(t) /\ alive[t]
    /\ alive' = [alive EXCEPT ![t] = FALSE]
    /\ UNCHANGED <<row, height, files, del, stage, tries, cursor, made, cut, poster>>

\* The worker dies; asynq recovers the task once its lease expires.
Crash(t) ==
    /\ "crash" \in Faults
    /\ Running(t)
    /\ Fail(t)
    /\ UNCHANGED <<row, height, files, del, attempt>>

\* Server.Shutdown gives up waiting: the task goes back to its queue.
Shutdown(t) ==
    /\ "shutdown" \in Faults
    /\ Running(t)
    /\ Goto(t, "queued")
    /\ UNCHANGED <<row, height, files, del, tries, attempt>>

-----------------------------------------------------------------------------
Api(t) == Enqueue(t) \/ AdminLoad(t) \/ AdminReset(t) \/ ApiCrash(t)

Delete ==
    \/ DeleteRow \/ DeleteRaw \/ DeleteOutputs \/ DeleteDir \/ DeleteThumb
    \/ DeleteCrash

\* What the worker does of its own accord.
Work(t) ==
    \/ Dequeue(t) \/ Load(t) \/ StageRaw(t) \/ StagedRaw(t)
    \/ Check(t) \/ Claim(t) \/ Probe(t) \/ GiveUp(t)
    \/ Transcode(t) \/ Encoded(t) \/ Transcoded(t)
    \/ Segment(t) \/ SegmentOn(t) \/ Segmented(t) \/ WriteMaster(t) \/ SetHLSInfo(t)
    \/ Snap(t) \/ Snapped(t) \/ MarkReady(t) \/ Finish(t)
    \/ SyncFile(t) \/ SyncDone(t)

Interrupt(t) == Timeout(t) \/ Crash(t) \/ Shutdown(t)

Next ==
    \/ UploadSave \/ UploadRecord \/ Delete
    \/ \E t \in Task : Api(t) \/ Work(t) \/ Interrupt(t)

Spec == Init /\ [][Next]_vars

\* The API finishes the request it is serving and asynq keeps delivering; the
\* users and the administrator need not do anything.
Fairness ==
    /\ WF_vars(UploadRecord)
    /\ \A t \in Task : WF_vars(Enqueue(t) \/ AdminReset(t)) /\ WF_vars(Work(t))

FairSpec == Spec /\ Fairness

-----------------------------------------------------------------------------
(* Properties *)

\* With the local store, a video the API calls ready has at least one
\* rendition, none of them upscaled, every MP4 ServeMP4Fallback offers is there
\* in full, and so is the thumbnail if the row names one.
ReadyIsPlayable ==
    row.status = "ready" =>
        /\ row.avail # {}
        /\ \A q \in row.avail : q <= height /\ Served(Mp4(q)) = "complete"
        /\ row.thumb => Served(Thumb) = "complete"

\* With the local store, hls_ready is only ever set over a master playlist
\* whose every entry leads to a finished media playlist: ServeMasterPlaylist
\* looks at the flag and not at the status.
HLSFlagIsBacked ==
    row.hls =>
        /\ Served(Master) = "complete"
        /\ listed # {}
        /\ \A q \in listed : Served(Hls(q)) = "complete"

\* GetVideoStatus reports 100 exactly for the videos it calls ready.
ProgressIsHonest == row.progress = 100 <=> row.status = "ready"

\* A video in `processing` is being processed by some attempt: nothing else
\* could ever move it on, since Check and AdminLoad both refuse that status.
ProcessingIsOwned ==
    row.status = "processing" => \E t \in Task : stage[t] \in Claimed

\* The raw file is stored, whole, exactly as long as something leads to it: the
\* upload that is about to insert the row, the row, or the delete that is about to
\* remove the file (as long as the store answers and the API process lives).
\* UploadVideo, upload_service.go:87, "must not leave an orphaned file behind".
RawFollowsRow ==
    Served(Raw) = IF stage[UploadTask] = "saved" \/ Recorded \/ del = "raw"
                  THEN "complete" ELSE "absent"

\* stageRawFile, handlers.go:127, "materializes the raw object": with the remote
\* store, ffmpeg is never given a part of it (as long as the worker lives).
StagedRawIsWhole ==
    \A t \in Task : stage[t] \in {"check", "claim"} \cup Claimed => disk[Raw] # "partial"

\* Remote store: a task that ends well leaves every published rendition and
\* the thumbnail with the store they are served from.
DoneIsServed ==
    (\E t \in Task : stage[t] = "done") /\ row.status = "ready" =>
        /\ \A q \in row.avail : Served(Mp4(q)) = "complete"
        /\ row.thumb => Served(Thumb) = "complete"

\* Remote store: a published rendition is always in the store or still on the
\* worker's disk, where the next attempt of syncOutputsToStore finds it.
PublishedIsNeverLost ==
    \A q \in row.avail : "complete" \in {disk[Mp4(q)], store[Mp4(q)]}

\* What a client can tell about the video.
Observed == IF Recorded THEN row.status ELSE IF del = "no" THEN "unborn" ELSE "removed"

\* The statuses a client observes move as in VideoLifecycle, whose way back from
\* `failed` is the code's (RetryVideo writes `uploading`), not README.md:193's
\* (failed -> processing).
Lifecycle == INSTANCE VideoLifecycle WITH state <- Observed, offered <- row.avail

FollowsLifecycle == Lifecycle!Spec

\* README, "Video lifecycle": ready is the end of it, short of a delete.
ReadyIsFinal == [][row.status = "ready" => row'.status \in {"ready", "none"}]_vars

\* Upload, video_handler.go:84: "failing to queue it is recoverable via the admin
\* retry endpoint", so a recorded video nothing will work on is one RetryVideo
\* accepts (or needs no work).
UnqueuedIsRetryable ==
    Recorded /\ (\A t \in Task : ~Live(t)) => row.status \in {"failed", "ready"}

\* README, "Video lifecycle": processing leads to ready or to failed, so some
\* task is still there to take it further.
NothingStranded == row.status = "processing" => \E t \in Task : Live(t)

\* Processing always comes to an end.
ProcessingEnds == row.status = "processing" ~> row.status # "processing"

\* Remote store: what is published gets to the store, unless the video is
\* deleted or asynq has given up on a task after all its retries.
ReadyGetsServed ==
    row.status = "ready" ~>
        \/ \A q \in row.avail : Served(Mp4(q)) = "complete"
        \/ \E t \in Task : stage[t] = "archived"

=============================================================================
