-------------------------- MODULE VideoFilesProofs --------------------------
(***************************************************************************)
(* The proofs about the files of VideoPipeline.  With the local store:     *)
(* what the row promises is on disk.  With the remote store: what is       *)
(* staged for ffmpeg is whole, and what is published is kept until it is   *)
(* served.  With either: the raw file is there as long as its row is.      *)
(***************************************************************************)
EXTENDS VideoLifecycleProofs

USE ParamAssumption

LEMMA NamesDiffer ==
    /\ \A q, p : Mp4(q) = Mp4(p) => q = p
    /\ \A q, p : Hls(q) = Hls(p) => q = p
    /\ \A q, p : Mp4(q) # Hls(p)
    /\ \A q : Mp4(q) \notin {Raw, Master, Thumb} /\ Hls(q) \notin {Raw, Master, Thumb}
    /\ Raw # Master /\ Raw # Thumb /\ Master # Thumb
BY DEF Mp4, Hls, Raw, Master, Thumb

LEMMA ProgressBelow ==
    ASSUME NEW i \in 0..(NumQualities + 1)
    PROVE  Progress(i) # 100
<1> DEFINE d == NumQualities + 2
<1>1. d \in Nat /\ d > 0 /\ i * 100 \in Nat /\ i * 100 < 100 * d
  BY ParamAssumption
<1>2. ASSUME NEW a \in Nat, NEW n \in Nat, n > 0, a < 100 * n
      PROVE  a \div n # 100
  BY <1>2
<1> QED
  BY <1>1, <1>2 DEF Progress

\* Writing a file changes that file, removing some leaves the others.
LEMMA FilesAfter ==
    ASSUME NEW d \in [File -> FileState], NEW g \in File
    PROVE  /\ \A f, s : Put(d, f, s)[g] = IF g = f THEN s ELSE d[g]
           /\ \A gone : Without(d, gone)[g] = IF g \in gone THEN "absent" ELSE d[g]
BY DEF Put, Without

-----------------------------------------------------------------------------
(* The local store *)

\* Nothing is staged or uploaded.
LocalOnly == \A t \in Task : stage[t] \notin {"load", "stage", "staging", "sync"}

LEMMA LocalNext ==
    ASSUME ~Remote, TypeOK, LocalOnly, [Next]_vars
    PROVE  LocalOnly'
<1>1. stage \in [Task -> Stage]
  BY DEF TypeOK
<1>2. \A t \in Task : \A s : Goto(t, s) => \A u \in Task : stage'[u] = IF u = t THEN s ELSE stage[u]
  BY <1>1 DEF Goto
<1>3. ASSUME NEW t \in Task, NEW s, Goto(t, s), s \notin {"load", "stage", "staging", "sync"}
      PROVE  LocalOnly'
  BY <1>2, <1>3 DEF LocalOnly
<1>4. ASSUME NEW t \in Task, Fail(t)
      PROVE  LocalOnly'
  BY <1>3, <1>4 DEF Fail
<1>5. CASE UNCHANGED stage
  BY <1>5 DEF LocalOnly
<1>6. CASE UNCHANGED vars
  BY <1>5, <1>6 DEF vars
<1>7. CASE UploadSave \/ UploadRecord \/ Delete
  BY <1>3, <1>5, <1>7 DEF UploadSave, UploadRecord, Delete, DeleteRow, DeleteRaw,
     DeleteOutputs, DeleteDir, DeleteThumb, DeleteCrash
<1>8. ASSUME NEW t \in Task, Api(t) \/ Interrupt(t)
      PROVE  LocalOnly'
  BY <1>3, <1>4, <1>5, <1>8 DEF Api, Enqueue, AdminLoad, AdminReset, ApiCrash,
     Interrupt, Timeout, Crash, Shutdown
<1>9. ASSUME NEW t \in Task, Work(t)
      PROVE  LocalOnly'
  <2>0. ~(Load(t) \/ StageRaw(t) \/ StagedRaw(t))
    BY DEF Load, StageRaw, StagedRaw, LocalOnly
  <2>1. CASE Dequeue(t) \/ Check(t) \/ Claim(t)
    BY <1>3, <1>4, <2>1 DEF Dequeue, Check, Claim
  <2>2. CASE Probe(t) \/ GiveUp(t) \/ Transcode(t) \/ Encoded(t) \/ Transcoded(t)
    BY <1>3, <1>4, <1>5, <2>2 DEF Probe, GiveUp, Transcode, Encoded, Transcoded
  <2>3. CASE Segment(t) \/ SegmentOn(t) \/ Segmented(t) \/ WriteMaster(t) \/ SetHLSInfo(t)
    BY <1>3, <1>5, <2>3 DEF Segment, SegmentOn, Segmented, WriteMaster, SetHLSInfo
  <2>4. CASE Snap(t) \/ Snapped(t) \/ MarkReady(t) \/ Finish(t)
    BY <1>3, <1>4, <2>4 DEF Snap, Snapped, MarkReady, Finish
  <2>5. CASE SyncFile(t) \/ SyncDone(t)
    BY <2>5 DEF SyncFile, SyncDone, LocalOnly
  <2> QED
    BY <1>9, <2>0, <2>1, <2>2, <2>3, <2>4, <2>5 DEF Work
<1> QED
  BY <1>6, <1>7, <1>8, <1>9 DEF Next

LEMMA LocalInit == Init => LocalOnly
BY DEF Init, LocalOnly

\* The steps of the worker write what they stage or make, each of them one kind of
\* file, and clear up at the very end.
LEMMA WorkWrites ==
    ASSUME TypeOK, NEW t \in Task, Work(t), NEW g \in File
    PROVE  \/ disk'[g] = disk[g]
           \/ (StageRaw(t) \/ StagedRaw(t)) /\ g = Raw
           \/ Transcode(t) /\ g = Mp4(cursor[t]) /\ disk[Raw] # "absent"
           \/ Encoded(t) /\ g = Mp4(cursor[t]) /\ disk[g] # "absent"
           \/ Segment(t) /\ \E q \in made[t] : g = Hls(q) /\ disk[Mp4(q)] # "absent"
           \/ SegmentOn(t) /\ g = Hls(cursor[t]) /\ disk[g] = "absent"
           \/ Segmented(t) /\ g = Hls(cursor[t]) /\ disk[g] # "absent"
           \/ WriteMaster(t) /\ g = Master
           \/ Snapped(t) /\ g = Thumb
           \/ SyncDone(t) /\ disk'[g] = "absent"
<1> DEFINE Good == \/ disk'[g] = disk[g]
                   \/ (StageRaw(t) \/ StagedRaw(t)) /\ g = Raw
                   \/ Transcode(t) /\ g = Mp4(cursor[t]) /\ disk[Raw] # "absent"
                   \/ Encoded(t) /\ g = Mp4(cursor[t]) /\ disk[g] # "absent"
                   \/ Segment(t) /\ \E q \in made[t] : g = Hls(q) /\ disk[Mp4(q)] # "absent"
                   \/ SegmentOn(t) /\ g = Hls(cursor[t]) /\ disk[g] = "absent"
                   \/ Segmented(t) /\ g = Hls(cursor[t]) /\ disk[g] # "absent"
                   \/ WriteMaster(t) /\ g = Master
                   \/ Snapped(t) /\ g = Thumb
                   \/ SyncDone(t) /\ disk'[g] = "absent"
<1>1. disk \in [File -> FileState]
  BY DEF TypeOK
<1>2. ASSUME NEW f, NEW s, disk' = Put(disk, f, s), g # f
      PROVE  Good
  BY <1>1, <1>2, FilesAfter
<1>3. CASE UNCHANGED disk
  BY <1>3
<1>4. CASE StageRaw(t) \/ StagedRaw(t)
  <2>1. UNCHANGED disk \/ \E s : disk' = Put(disk, Raw, s)
    BY <1>4 DEF StageRaw, StagedRaw
  <2> QED
    BY <1>2, <1>3, <1>4, <2>1
<1>5. CASE Dequeue(t) \/ Load(t) \/ Check(t) \/ Claim(t) \/ Probe(t) \/ GiveUp(t)
           \/ Transcoded(t) \/ SetHLSInfo(t) \/ Snap(t) \/ MarkReady(t) \/ Finish(t) \/ SyncFile(t)
  BY <1>3, <1>5 DEF Dequeue, Load, Check, Claim, Probe, GiveUp, Transcoded, SetHLSInfo, Snap,
     MarkReady, Finish, SyncFile, files
<1>6. CASE Transcode(t)
  <2>1. CASE disk' = Put(disk, Mp4(cursor[t]), "partial") /\ disk[Raw] # "absent"
    BY <1>2, <1>6, <2>1
  <2> QED
    BY <1>3, <1>6, <2>1 DEF Transcode
<1>7. CASE Encoded(t)
  <2>1. \/ UNCHANGED disk
        \/ disk[Mp4(cursor[t])] # "absent" /\ \E s : disk' = Put(disk, Mp4(cursor[t]), s)
    BY <1>7 DEF Encoded
  <2> QED
    BY <1>2, <1>3, <1>7, <2>1
<1>8. CASE Segment(t)
  <2>1. \/ UNCHANGED disk
        \/ \E q \in made[t] : disk[Mp4(q)] # "absent" /\ disk' = Put(disk, Hls(q), "partial")
    BY <1>8 DEF Segment
  <2> QED
    BY <1>2, <1>3, <1>8, <2>1
<1>9. CASE Segmented(t)
  <2>1. \/ UNCHANGED disk
        \/ disk[Hls(cursor[t])] # "absent" /\ \E s : disk' = Put(disk, Hls(cursor[t]), s)
    BY <1>9 DEF Segmented
  <2> QED
    BY <1>2, <1>3, <1>9, <2>1
<1>10. CASE WriteMaster(t)
  BY <1>2, <1>3, <1>10 DEF WriteMaster
<1>13. CASE SegmentOn(t)
  BY <1>2, <1>3, <1>13 DEF SegmentOn
<1>11. CASE Snapped(t)
  BY <1>2, <1>3, <1>11 DEF Snapped
<1>12. CASE SyncDone(t)
  <2>1. PICK gone : disk' = Without(disk, gone)
    BY <1>12 DEF SyncDone
  <2> QED
    BY <1>1, <1>12, <2>1, FilesAfter
<1> QED
  BY <1>4, <1>5, <1>6, <1>7, <1>8, <1>9, <1>10, <1>11, <1>12, <1>13 DEF Work

\* With the local store nothing is staged and nothing cleared up.
LEMMA LocalWrites ==
    ASSUME ~Remote, TypeOK, LocalOnly, NEW t \in Task, Work(t), NEW g \in File
    PROVE  \/ disk'[g] = disk[g]
           \/ Transcode(t) /\ g = Mp4(cursor[t]) /\ disk[Raw] # "absent"
           \/ Encoded(t) /\ g = Mp4(cursor[t]) /\ disk[g] # "absent"
           \/ Segment(t) /\ \E q \in made[t] : g = Hls(q) /\ disk[Mp4(q)] # "absent"
           \/ SegmentOn(t) /\ g = Hls(cursor[t]) /\ disk[g] = "absent"
           \/ Segmented(t) /\ g = Hls(cursor[t]) /\ disk[g] # "absent"
           \/ WriteMaster(t) /\ g = Master
           \/ Snapped(t) /\ g = Thumb
<1>1. ~(StageRaw(t) \/ StagedRaw(t) \/ SyncDone(t))
  BY DEF StageRaw, StagedRaw, SyncDone, LocalOnly
<1> QED
  BY <1>1, WorkWrites

-----------------------------------------------------------------------------
(* What the other steps leave alone *)

\* A row that is not there is not written.
LEMMA WorkOnNoRow ==
    ASSUME NEW t \in Task, Work(t) \/ Interrupt(t) \/ Api(t), ~Recorded
    PROVE  UNCHANGED row
<1>1. ~Applies(t) /\ \A new : TryUpdate(t, new) => UNCHANGED row
  BY DEF Applies, TryUpdate
<1>2. CASE Work(t)
  <2>1. CASE Dequeue(t) \/ Load(t) \/ StageRaw(t) \/ StagedRaw(t) \/ Check(t) \/ Probe(t)
             \/ Encoded(t) \/ Segment(t) \/ SegmentOn(t) \/ Segmented(t) \/ WriteMaster(t) \/ Snapped(t)
             \/ SyncFile(t) \/ SyncDone(t)
    BY <2>1 DEF Dequeue, Load, StageRaw, StagedRaw, Check, Probe, Encoded, Segment, SegmentOn, Segmented,
       WriteMaster, Snapped, SyncFile, SyncDone
  <2>2. CASE Claim(t) \/ MarkReady(t)
    BY <1>1, <2>2 DEF Claim, MarkReady
  <2>3. CASE GiveUp(t) \/ Transcode(t) \/ Transcoded(t) \/ SetHLSInfo(t) \/ Snap(t) \/ Finish(t)
    BY <1>1, <2>3 DEF GiveUp, Transcode, Transcoded, SetHLSInfo, Snap, Finish
  <2> QED
    BY <1>2, <2>1, <2>2, <2>3 DEF Work
<1>3. CASE Interrupt(t)
  BY <1>3 DEF Interrupt, Timeout, Crash, Shutdown
<1>4. CASE Api(t)
  BY <1>4 DEF Api, Enqueue, AdminLoad, AdminReset, ApiCrash
<1> QED
  BY <1>2, <1>3, <1>4

\* No task goes back to where its upload begins.
LEMMA NoSecondUpload ==
    ASSUME TypeOK, NEW t \in Task, Work(t) \/ Interrupt(t) \/ Api(t),
           stage'[UploadTask] \in {"none", "saved"}
    PROVE  stage[UploadTask] \in {"none", "saved"}
<1>1. /\ stage \in [Task -> Stage] /\ UploadTask \in Task
      /\ \A s : Goto(t, s) => \A u \in Task : stage'[u] = IF u = t THEN s ELSE stage[u]
  BY DEF TypeOK, Goto
<1>2. CASE Work(t)
  BY <1>1, <1>2, WorkIsLive, WorksOnOwnStage
<1>3. CASE Interrupt(t)
  BY <1>1, <1>3 DEF Interrupt, Timeout, Crash, Shutdown, Fail
<1>4. CASE Api(t)
  BY <1>1, <1>4 DEF Api, Enqueue, AdminLoad, AdminReset, ApiCrash
<1> QED
  BY <1>2, <1>3, <1>4

-----------------------------------------------------------------------------
(* What a step does to the other columns *)

LEMMA FieldsOf ==
    ASSUME NEW r \in Row
    PROVE  /\ \A s : [r EXCEPT !.status = s].hls = r.hls
           /\ \A p : [r EXCEPT !.progress = p].hls = r.hls
           /\ [r EXCEPT !.hls = TRUE].hls = TRUE
           /\ \A A, p : [r EXCEPT !.status = "ready", !.avail = A,
                                  !.thumb = p, !.progress = 100].hls = r.hls
           /\ \A s : [r EXCEPT !.status = s].thumb = r.thumb
           /\ \A p : [r EXCEPT !.progress = p].thumb = r.thumb
           /\ [r EXCEPT !.hls = TRUE].thumb = r.thumb
           /\ \A A, p : [r EXCEPT !.status = "ready", !.avail = A,
                                  !.thumb = p, !.progress = 100].thumb = p
           /\ \A s : [r EXCEPT !.status = s].progress = r.progress
           /\ \A p : [r EXCEPT !.progress = p].progress = p
           /\ [r EXCEPT !.hls = TRUE].progress = r.progress
           /\ \A A, p : [r EXCEPT !.status = "ready", !.avail = A,
                                  !.thumb = p, !.progress = 100].progress = 100
BY DEF Row

\* What an update leaves of the flag and of the thumbnail.
SameFlags == row'.hls = row.hls /\ row'.thumb = row.thumb

\* The updates the worker makes while it is at it.
LEMMA TryProgress ==
    ASSUME row \in Row, NEW t \in Task, NEW p, TryUpdate(t, [row EXCEPT !.progress = p])
    PROVE  /\ SameOffer /\ SameFlags
           /\ row'.progress = row.progress \/ (Recorded /\ row'.progress = p)
<1>1. CASE Recorded /\ row' = [row EXCEPT !.progress = p]
  BY <1>1, StatusOf, AvailOf, FieldsOf DEF SameOffer, SameFlags
<1> QED
  BY <1>1 DEF TryUpdate, Applies, SameOffer, SameFlags

-----------------------------------------------------------------------------
(* Progress *)

\* A step of the worker reports 100 only with, or after, publication.
LEMMA HonestWork ==
    ASSUME TypeOK, LifeInv, ProgressIsHonest, NEW t \in Task, Work(t)
    PROVE  ProgressIsHonest'
<1>1. row \in Row /\ Fits(t) /\ height \in 0..NumQualities /\ cursor[t] \in Nat \ {0}
  BY DEF TypeOK, LifeInv
<1>2. CASE UNCHANGED row
  BY <1>2 DEF ProgressIsHonest
<1>3. ASSUME NEW p, p # 100, row.status \in {"none", "processing"},
             TryUpdate(t, [row EXCEPT !.progress = p])
      PROVE  ProgressIsHonest'
  BY <1>1, <1>3, TryProgress DEF SameOffer, ProgressIsHonest
<1>4. CASE Claim(t)
  <2>1. CASE Recorded /\ row' = [row EXCEPT !.status = "processing"]
    <3>1. row'.status = "processing" /\ row'.progress = row.progress
      BY <1>1, <2>1, StatusOf, FieldsOf
    <3>2. row.status # "ready"
      BY <1>1, <1>4 DEF Claim, Fits
    <3> QED
      BY <3>1, <3>2 DEF ProgressIsHonest
  <2> QED
    BY <1>2, <1>4, <2>1 DEF Claim, Applies
<1>5. CASE GiveUp(t)
  <2>1. CASE Recorded /\ row' = [row EXCEPT !.status = "failed"]
    <3>1. row'.status = "failed" /\ row'.progress = row.progress
      BY <1>1, <2>1, StatusOf, FieldsOf
    <3>2. row.status # "ready"
      BY <1>1, <1>5 DEF GiveUp, Fits, Claimed
    <3> QED
      BY <3>1, <3>2 DEF ProgressIsHonest
  <2> QED
    BY <1>2, <1>5, <2>1 DEF GiveUp, TryUpdate, Applies
<1>6. CASE MarkReady(t)
  <2> DEFINE new == [row EXCEPT !.status = "ready", !.avail = made[t],
                                !.thumb = poster[t], !.progress = 100]
  <2>1. new.status = "ready" /\ new.progress = 100
    BY <1>1, StatusOf, FieldsOf
  <2>2. row' = new \/ UNCHANGED row
    BY <1>6 DEF MarkReady
  <2> HIDE DEF new
  <2> QED
    BY <1>2, <2>1, <2>2 DEF ProgressIsHonest
<1>7. CASE Transcode(t)
  <2>1. cursor[t] - 1 \in 0..(NumQualities + 1)
    BY <1>1, <1>7 DEF Transcode
  <2>2. row.status \in {"none", "processing"}
    BY <1>1, <1>7 DEF Transcode, Fits, Claimed, Writing
  <2> QED
    BY <1>3, <1>7, <2>1, <2>2, ProgressBelow DEF Transcode
<1>8. CASE Transcoded(t)
  <2>1. NumQualities \in 0..(NumQualities + 1)
    OBVIOUS
  <2>2. row.status \in {"none", "processing"}
    BY <1>1, <1>8 DEF Transcoded, Fits, Claimed, Writing
  <2> QED
    BY <1>2, <1>3, <1>8, <2>1, <2>2, ProgressBelow DEF Transcoded
<1>9. CASE Snap(t)
  <2>1. NumQualities + 1 \in 0..(NumQualities + 1)
    OBVIOUS
  <2>2. row.status \in {"none", "processing"}
    BY <1>1, <1>9 DEF Snap, Fits, Claimed, Writing
  <2> QED
    BY <1>3, <1>9, <2>1, <2>2, ProgressBelow DEF Snap
<1>10. CASE SetHLSInfo(t)
  <2>1. CASE row' = [row EXCEPT !.hls = TRUE]
    BY <1>1, <2>1, StatusOf, FieldsOf DEF ProgressIsHonest
  <2> QED
    BY <1>2, <1>10, <2>1 DEF SetHLSInfo, TryUpdate
<1>11. CASE Finish(t)
  <2>1. row.status \in {"none", "ready"} /\ TryUpdate(t, [row EXCEPT !.progress = 100])
    BY <1>1, <1>11 DEF Finish, Fits
  <2> QED
    BY <1>1, <2>1, TryProgress DEF SameOffer, ProgressIsHonest, Recorded
<1> QED
  BY <1>2, <1>4, <1>5, <1>6, <1>7, <1>8, <1>9, <1>10, <1>11
     DEF Work, Dequeue, Load, StageRaw, StagedRaw, Check, Probe, Encoded, Segment,
         SegmentOn, Segmented, WriteMaster, Snapped, SyncFile, SyncDone

LEMMA HonestNext ==
    ASSUME AdminWaits, TypeOK, LifeInv, ProgressIsHonest, [Next]_vars
    PROVE  ProgressIsHonest'
<1>1. row \in Row
  BY DEF TypeOK
<1>2. CASE UNCHANGED row
  BY <1>2 DEF ProgressIsHonest
<1>3. CASE row' \in {NoRow, NewVideo}
  BY <1>3 DEF ProgressIsHonest, NoRow, NewVideo
<1>4. ASSUME NEW t \in Task, AdminReset(t)
      PROVE  ProgressIsHonest'
  <2>1. CASE Recorded /\ row' = [row EXCEPT !.status = "uploading"]
    <3>1. row'.status = "uploading" /\ row'.progress = row.progress
      BY <1>1, <2>1, StatusOf, FieldsOf
    <3>2. row.status = "failed"
      BY <1>4, <2>1 DEF AdminReset, LifeInv, Fits, Recorded
    <3> QED
      BY <3>1, <3>2 DEF ProgressIsHonest
  <2> QED
    BY <1>2, <1>4, <2>1 DEF AdminReset
<1>5. CASE UploadSave \/ UploadRecord \/ Delete
  BY <1>2, <1>3, <1>5 DEF UploadSave, UploadRecord, Delete, DeleteRow, DeleteRaw,
     DeleteOutputs, DeleteDir, DeleteThumb, DeleteCrash
<1>6. ASSUME NEW t \in Task, Api(t) \/ Interrupt(t)
      PROVE  ProgressIsHonest'
  BY <1>2, <1>4, <1>6 DEF Api, Enqueue, AdminLoad, ApiCrash, Interrupt, Timeout, Crash, Shutdown
<1> QED
  BY <1>2, <1>5, <1>6, HonestWork DEF Next, vars

\* However attempts fail and are repeated: 100 percent are reported exactly when the
\* video is ready.
THEOREM ProgressHonest ==
    ASSUME AdminWaits
    PROVE  Spec => []ProgressIsHonest
<1>1. Init => LifeInv /\ ProgressIsHonest
  BY LifeInit DEF Init, ProgressIsHonest, NoRow
<1>2. TypeOK /\ (LifeInv /\ ProgressIsHonest) /\ [Next]_vars => (LifeInv /\ ProgressIsHonest)'
  BY LifeNext, HonestNext
<1> QED
  BY <1>1, <1>2, TypeCorrect, PTL DEF Spec

-----------------------------------------------------------------------------
(* What is published is on disk *)

RawWhole == disk[Raw] # "partial"

\* What UpdateHLSInfo vouches for.
Backed ==
    /\ disk[Master] = "complete"
    /\ listed # {} /\ listed \subseteq Quality
    /\ \A q \in listed : disk[Hls(q)] = "complete"

\* What an attempt has made so far, and where it has put it.
MadeWell(t) == \A q \in made[t] : q <= height /\ disk[Mp4(q)] = "complete"
CutWell(t) == \A q \in cut[t] : q < cursor[t] /\ disk[Hls(q)] = "complete"

\* An attempt that has not made anything yet.
Before == {"load", "stage", "staging", "check", "claim", "probe"}

Attempt(t) ==
    /\ stage[t] \in Before => made[t] = {} /\ cut[t] = {}
    /\ stage[t] \in Before \cup (Writing \ {"ready"}) => ~poster[t]
    /\ stage[t] \in {"transcode", "encoding"} =>
          cut[t] = {} /\ \A q \in made[t] : q < cursor[t]
    /\ stage[t] = "encoding" => cursor[t] <= height /\ disk[Mp4(cursor[t])] # "absent"
    /\ stage[t] \in Writing => MadeWell(t)
    /\ stage[t] \in {"hls", "segmenting"} => CutWell(t)
    /\ stage[t] = "segmenting" => cursor[t] \in made[t] /\ disk[Hls(cursor[t])] # "absent"
    /\ stage[t] # "leftover"
    /\ stage[t] = "hlsinfo" => Backed
    /\ stage[t] = "ready" /\ poster[t] => disk[Thumb] = "complete"

\* The flag is set late in an attempt that can only end in ready, or be stuck.
Flagged ==
    row.hls =>
        /\ Backed
        /\ row.status \in {"processing", "ready"}
        /\ \A t \in Task : stage[t] \in Claimed => stage[t] \in {"thumb", "snapping", "ready"}

Offered ==
    row.status = "ready" =>
        /\ row.avail # {}
        /\ \A q \in row.avail : q <= height /\ disk[Mp4(q)] = "complete"
        /\ row.thumb => disk[Thumb] = "complete"

FilesInv ==
    /\ RawWhole
    /\ IF Recorded THEN Flagged /\ Offered /\ \A t \in Task : Attempt(t)
                   ELSE ~row.hls

\* What each step of the worker leaves of a file and of the row.
LEMMA DiskAfter ==
    ASSUME TypeOK
    PROVE  \A f, s : disk' = Put(disk, f, s) =>
              \A g \in File : disk'[g] = IF g = f THEN s ELSE disk[g]
<1>1. disk \in [File -> FileState]
  BY DEF TypeOK
<1> QED
  BY <1>1, FilesAfter

LEMMA WorkOnFlags ==
    ASSUME TypeOK, NEW t \in Task, Work(t)
    PROVE  /\ row'.hls = row.hls \/ SetHLSInfo(t)
           /\ row'.thumb = row.thumb \/ MarkReady(t)
           /\ row'.status = "failed" => row.status = "failed" \/ GiveUp(t)
           /\ row'.status = "ready" => row.status = "ready" \/ MarkReady(t)
<1> DEFINE Good == /\ row'.hls = row.hls \/ SetHLSInfo(t)
                   /\ row'.thumb = row.thumb \/ MarkReady(t)
                   /\ row'.status = "failed" => row.status = "failed" \/ GiveUp(t)
                   /\ row'.status = "ready" => row.status = "ready" \/ MarkReady(t)
<1>1. row \in Row
  BY DEF TypeOK
<1>2. CASE UNCHANGED row
  BY <1>2
<1>3. CASE Claim(t)
  <2>1. CASE row' = [row EXCEPT !.status = "processing"]
    <3>1. row'.hls = row.hls /\ row'.thumb = row.thumb /\ row'.status = "processing"
      BY <1>1, <2>1, StatusOf, FieldsOf
    <3> QED
      BY <3>1
  <2> QED
    BY <1>2, <1>3, <2>1 DEF Claim
<1>4. CASE GiveUp(t)
  <2>1. CASE row' = [row EXCEPT !.status = "failed"]
    <3>1. row'.hls = row.hls /\ row'.thumb = row.thumb /\ row'.status = "failed"
      BY <1>1, <2>1, StatusOf, FieldsOf
    <3> QED
      BY <1>4, <3>1
  <2> QED
    BY <1>2, <1>4, <2>1 DEF GiveUp, TryUpdate
<1>5. CASE MarkReady(t)
  <2> DEFINE new == [row EXCEPT !.status = "ready", !.avail = made[t],
                                !.thumb = poster[t], !.progress = 100]
  <2>1. new.hls = row.hls /\ new.status = "ready"
    BY <1>1, StatusOf, FieldsOf
  <2>2. row' = new \/ UNCHANGED row
    BY <1>5 DEF MarkReady
  <2> HIDE DEF new
  <2> QED
    BY <1>2, <1>5, <2>1, <2>2
<1>6. CASE Transcode(t) \/ Transcoded(t) \/ Snap(t) \/ Finish(t)
  <2>1. UNCHANGED row \/ \E p : TryUpdate(t, [row EXCEPT !.progress = p])
    BY <1>6 DEF Transcode, Transcoded, Snap, Finish
  <2> QED
    BY <1>1, <1>2, <2>1, TryProgress DEF SameFlags, SameOffer
<1>7. CASE SetHLSInfo(t)
  <2>1. CASE row' = [row EXCEPT !.hls = TRUE]
    <3>1. row'.thumb = row.thumb /\ row'.status = row.status
      BY <1>1, <2>1, StatusOf, FieldsOf
    <3> QED
      BY <1>7, <3>1
  <2> QED
    BY <1>2, <1>7, <2>1 DEF SetHLSInfo, TryUpdate
<1> QED
  BY <1>2, <1>3, <1>4, <1>5, <1>6, <1>7
     DEF Work, Dequeue, Load, StageRaw, StagedRaw, Check, Probe, Encoded, Segment,
         SegmentOn, Segmented, WriteMaster, Snapped, SyncFile, SyncDone

\* The height of the source is known from the start.
LEMMA SameHeight ==
    ASSUME NEW t \in Task, Work(t)
    PROVE  UNCHANGED height
BY DEF Work, Dequeue, Load, StageRaw, StagedRaw, Check, Claim, Probe, GiveUp, Transcode, Encoded,
   Transcoded, Segment, SegmentOn, Segmented, WriteMaster, SetHLSInfo, Snap, Snapped, MarkReady, Finish,
   SyncFile, SyncDone

\* The attempt at work keeps its own account.
LEMMA AttemptWork ==
    ASSUME TypeOK, LifeInv, StagedRawIsWhole, Recorded, NEW t \in Task, Attempt(t), Work(t)
    PROVE  Attempt(t)'
<1>1. /\ stage \in [Task -> Stage] /\ made \in [Task -> SUBSET Quality]
      /\ cut \in [Task -> SUBSET Quality] /\ cursor \in [Task -> Nat \ {0}]
      /\ poster \in [Task -> BOOLEAN] /\ height \in 0..NumQualities
      /\ Attempt(t) /\ Fits(t) /\ OneAtATime
  BY DEF TypeOK, LifeInv
<1>2. \A s : Goto(t, s) => stage'[t] = s
  BY <1>1 DEF Goto
<1>3. \A i : Advance(t, i) => cursor'[t] = i
  BY <1>1 DEF Advance
<1>4. Fail(t) => stage'[t] \in {"queued", "archived"}
  BY <1>2 DEF Fail
<1>5. /\ \A q \in Quality : Mp4(q) \in File /\ Hls(q) \in File
      /\ Raw \in File /\ Master \in File /\ Thumb \in File
  BY FileNames
<1>6. UNCHANGED height
  BY SameHeight
<1>7. CASE stage'[t] \in {"queued", "archived", "giveup", "final", "sync", "done"}
  BY <1>7 DEF Attempt, Before, Writing
<1>8. CASE Dequeue(t)
  BY <1>1, <1>2, <1>8 DEF Dequeue, Attempt, Before, Writing
<1>9. ASSUME stage[t] \in Before, UNCHANGED attempt, stage'[t] \in Before
      PROVE  Attempt(t)'
  BY <1>1, <1>9 DEF Attempt, Before, Writing, attempt
<1>10. CASE Load(t) \/ StageRaw(t) \/ StagedRaw(t) \/ Check(t) \/ Claim(t)
  <2>1. /\ stage[t] \in Before /\ UNCHANGED attempt
        /\ stage'[t] \in Before \cup {"sync", "queued", "archived"}
    BY <1>2, <1>4, <1>10 DEF Load, StageRaw, StagedRaw, Check, Claim, Before
  <2> QED
    BY <1>7, <1>9, <2>1
<1>11. CASE SyncFile(t) \/ SyncDone(t)
  <2>1. stage'[t] \in {"sync", "queued", "archived", "done"}
    BY <1>2, <1>4, <1>11 DEF SyncFile, SyncDone
  <2> QED
    BY <1>7, <2>1
<1>12. CASE Probe(t)
  <2>1. stage[t] = "probe" /\ UNCHANGED attempt /\ stage'[t] \in {"transcode", "giveup"}
    BY <1>2, <1>12 DEF Probe
  <2> QED
    BY <1>1, <2>1 DEF Attempt, Before, Writing, attempt, MadeWell
<1>13. CASE GiveUp(t) \/ MarkReady(t) \/ Finish(t)
  BY <1>2, <1>4, <1>7, <1>13 DEF GiveUp, MarkReady, Finish
<1>14. CASE Transcode(t)
  <2>1. /\ stage[t] = "transcode" /\ cursor[t] <= height /\ cursor[t] \in Quality
        /\ UNCHANGED <<made, cut, poster>>
    BY <1>1, <1>14 DEF Transcode, Quality
  <2>2. \A q \in made[t] : q < cursor[t] /\ q \in Quality
    BY <1>1, <2>1 DEF Attempt
  <2>3. CASE disk' = Put(disk, Mp4(cursor[t]), "partial") /\ stage'[t] = "encoding" /\ UNCHANGED cursor
    <3>1. disk'[Mp4(cursor[t])] = "partial"
      BY <1>5, <2>1, <2>3, DiskAfter
    <3>2. \A q \in made[t] : disk'[Mp4(q)] = disk[Mp4(q)]
      <4> TAKE q \in made[t]
      <4>1. q # cursor[t]
        BY <1>1, <2>2 DEF Quality
      <4>2. Mp4(q) # Mp4(cursor[t]) /\ Mp4(q) \in File
        BY <1>5, <2>2, <4>1, NamesDiffer
      <4> QED
        BY <2>3, <4>2, DiskAfter
    <3> QED
      BY <1>1, <1>6, <2>1, <2>3, <3>1, <3>2 DEF Attempt, Before, Writing, MadeWell
  <2>4. CASE UNCHANGED <<disk, stage>> /\ cursor'[t] = cursor[t] + 1
    <3>1. \A q \in made[t] : q < cursor[t] + 1
      BY <1>1, <2>2 DEF Quality
    <3> QED
      BY <1>1, <1>6, <2>1, <2>4, <3>1 DEF Attempt, Before, Writing, MadeWell
  <2> QED
    BY <1>2, <1>3, <1>14, <2>3, <2>4 DEF Transcode
<1>15. CASE Encoded(t)
  <2>1. /\ stage[t] = "encoding" /\ stage'[t] = "transcode" /\ cursor'[t] = cursor[t] + 1
        /\ UNCHANGED <<cut, poster>>
    BY <1>2, <1>3, <1>15 DEF Encoded
  <2>2. /\ cursor[t] <= height /\ disk[Mp4(cursor[t])] # "absent" /\ cursor[t] \in Quality
        /\ \A q \in made[t] : q < cursor[t]
    BY <1>1, <2>1 DEF Attempt, Quality
  <2>3. ~Contended(t)
    BY <1>1, <2>1 DEF Contended, OneAtATime, Live, Ended
  <2>4. Product(Raw) = "complete"
    BY <2>1 DEF Product, StagedRawIsWhole, Claimed, Writing
  <2>5. \A q \in made'[t] : q < cursor'[t] /\ (q \in made[t] \/ q = cursor[t])
    BY <1>1, <1>15, <2>1, <2>2 DEF Encoded, Quality
  <2>6. \/ made'[t] = made[t] /\ UNCHANGED disk
        \/ disk' = Put(disk, Mp4(cursor[t]), "complete")
    BY <1>15, <2>2, <2>3, <2>4 DEF Encoded
  <2>7. MadeWell(t)'
    <3>1. CASE made'[t] = made[t] /\ UNCHANGED disk
      BY <1>1, <1>6, <2>1, <3>1 DEF Attempt, Before, Writing, MadeWell
    <3>2. CASE disk' = Put(disk, Mp4(cursor[t]), "complete")
      <4> SUFFICES ASSUME NEW q \in made'[t]
                   PROVE  q <= height /\ disk'[Mp4(q)] = "complete"
        BY <1>6 DEF MadeWell
      <4>1. CASE q = cursor[t]
        BY <1>5, <2>2, <3>2, <4>1, DiskAfter
      <4>2. CASE q \in made[t]
        <5>1. q <= height /\ disk[Mp4(q)] = "complete" /\ Mp4(q) \in File
          BY <1>1, <1>5, <2>1, <4>2 DEF Attempt, Before, Writing, MadeWell
        <5> QED
          BY <3>2, <5>1, DiskAfter
      <4> QED
        BY <2>5, <4>1, <4>2
    <3> QED
      BY <2>6, <3>1, <3>2
  <2> QED
    BY <1>1, <2>1, <2>5, <2>7 DEF Attempt, Before, Writing
<1>16. CASE Transcoded(t)
  <2>1. stage[t] = "transcode" /\ UNCHANGED <<disk, made, cut, poster>>
        /\ stage'[t] \in {"giveup", "hls"}
    BY <1>2, <1>16 DEF Transcoded, files
  <2>2. cut[t] = {} /\ MadeWell(t) /\ ~poster[t]
    BY <1>1, <2>1 DEF Attempt, Before, Writing
  <2> QED
    BY <1>6, <2>1, <2>2 DEF Attempt, Before, Writing, MadeWell, CutWell
<1>17. CASE Segment(t)
  <2>1. /\ stage[t] = "hls" /\ UNCHANGED <<made, cut, poster>>
        /\ MadeWell(t) /\ CutWell(t) /\ ~poster[t]
    BY <1>1, <1>17 DEF Segment, Attempt, Before, Writing
  <2>2. PICK q \in made[t] :
            /\ q >= cursor[t]
            /\ \/ /\ disk' = Put(disk, Hls(q), "partial") /\ stage'[t] = "segmenting"
                  /\ cursor'[t] = q
               \/ UNCHANGED <<disk, stage>> /\ cursor'[t] = q + 1
    BY <1>2, <1>3, <1>17 DEF Segment
  <2>3. q \in Quality /\ q \in Nat /\ cursor[t] \in Nat /\ \A p \in cut[t] : p \in Nat /\ p \in Quality
    BY <1>1 DEF Quality
  <2>4. \A p \in cut[t] : p < cursor'[t] /\ p # q
    BY <2>1, <2>2, <2>3 DEF CutWell
  <2>5. \A p \in cut[t] : disk'[Hls(p)] = disk[Hls(p)]
    <3> TAKE p \in cut[t]
    <3>1. Hls(p) # Hls(q) /\ Hls(p) \in File
      BY <1>5, <2>3, <2>4, NamesDiffer
    <3> QED
      BY <2>2, <3>1, DiskAfter
  <2>6. \A p \in made[t] : disk'[Mp4(p)] = disk[Mp4(p)]
    <3> TAKE p \in made[t]
    <3>1. Mp4(p) # Hls(q) /\ Mp4(p) \in File
      BY <1>1, <1>5, NamesDiffer
    <3> QED
      BY <2>2, <3>1, DiskAfter
  <2>7. MadeWell(t)' /\ CutWell(t)'
    BY <1>6, <2>1, <2>4, <2>5, <2>6 DEF MadeWell, CutWell
  <2>8. \/ stage'[t] = "hls"
        \/ stage'[t] = "segmenting" /\ cursor'[t] \in made[t] /\ disk'[Hls(cursor'[t])] # "absent"
    <3>1. CASE stage'[t] = "segmenting"
      <4>1. disk' = Put(disk, Hls(q), "partial") /\ cursor'[t] = q /\ Hls(q) \in File
        BY <1>5, <2>1, <2>2, <2>3, <3>1
      <4> QED
        BY <2>2, <3>1, <4>1, DiskAfter
    <3> QED
      BY <2>1, <2>2, <3>1
  <2> QED
    BY <2>1, <2>7, <2>8 DEF Attempt, Before, Writing
<1>18. CASE Segmented(t)
  <2> DEFINE q == cursor[t]
  <2>1. /\ stage[t] = "segmenting" /\ stage'[t] = "hls" /\ cursor'[t] = q + 1
        /\ UNCHANGED <<made, poster>> /\ MadeWell(t) /\ CutWell(t) /\ ~poster[t] /\ q \in made[t]
    BY <1>1, <1>2, <1>3, <1>18 DEF Segmented, Attempt, Before, Writing
  <2>2. q \in Quality /\ q \in Nat /\ \A p \in cut[t] : p \in Nat /\ p \in Quality
    BY <1>1, <2>1 DEF Quality
  <2>3. Product(Mp4(q)) = "complete"
    BY <2>1 DEF Product, MadeWell
  <2>a. \A u \in Task \ {t} : stage[u] \notin {"segmenting", "leftover"}
    BY <1>1, <2>1 DEF OneAtATime, Live, Ended
  <2>b. Segments(t) = {"complete"}
    BY <2>1, <2>3, <2>a DEF Segments
  <2>4. \/ UNCHANGED <<disk, cut>>
        \/ disk' = Put(disk, Hls(q), "complete") /\ cut'[t] = cut[t] \cup {q}
    BY <1>1, <1>18, <2>b DEF Segmented
  <2>5. \A p \in made[t] : disk'[Mp4(p)] = disk[Mp4(p)]
    <3> TAKE p \in made[t]
    <3>1. Mp4(p) # Hls(q) /\ Mp4(p) \in File
      BY <1>1, <1>5, NamesDiffer
    <3> QED
      BY <2>4, <3>1, DiskAfter
  <2>6. MadeWell(t)'
    BY <1>6, <2>1, <2>5 DEF MadeWell
  <2>7. \A p \in cut'[t] : p < q + 1
    BY <2>1, <2>2, <2>4 DEF CutWell
  <2>8. \A p \in cut'[t] : disk'[Hls(p)] = "complete"
    <3> SUFFICES ASSUME NEW p \in cut'[t]
                 PROVE  disk'[Hls(p)] = "complete"
      OBVIOUS
    <3>1. CASE UNCHANGED <<disk, cut>>
      BY <2>1, <3>1 DEF CutWell
    <3>2. CASE disk' = Put(disk, Hls(q), "complete") /\ cut'[t] = cut[t] \cup {q}
      <4>1. Hls(p) \in File /\ (p = q \/ disk[Hls(p)] = "complete")
        BY <1>5, <2>1, <2>2, <3>2 DEF CutWell
      <4> QED
        BY <3>2, <4>1, DiskAfter
    <3> QED
      BY <2>4, <3>1, <3>2
  <2>9. CutWell(t)'
    BY <2>1, <2>7, <2>8 DEF CutWell
  <2> QED
    BY <2>1, <2>6, <2>9 DEF Attempt, Before, Writing
<1>19. CASE WriteMaster(t)
  <2>1. /\ stage[t] = "hls" /\ UNCHANGED <<made, poster>> /\ MadeWell(t) /\ CutWell(t) /\ ~poster[t]
        /\ cut[t] \subseteq Quality
    BY <1>1, <1>19 DEF WriteMaster, Attempt, Before, Writing, attempt
  <2>2. \/ UNCHANGED disk /\ stage'[t] = "thumb"
        \/ /\ cut[t] # {} /\ disk' = Put(disk, Master, "complete") /\ stage'[t] = "hlsinfo"
           /\ listed' = {q \in cut[t] : disk[Hls(q)] # "absent"}
    BY <1>2, <1>19 DEF WriteMaster
  <2>3. \A q \in Quality : disk'[Mp4(q)] = disk[Mp4(q)] /\ disk'[Hls(q)] = disk[Hls(q)]
    <3> TAKE q \in Quality
    <3>1. Mp4(q) # Master /\ Hls(q) # Master
      BY NamesDiffer
    <3> QED
      BY <1>5, <2>2, <3>1, DiskAfter
  <2>4. MadeWell(t)'
    BY <1>1, <1>6, <2>1, <2>3 DEF MadeWell
  <2>5. stage'[t] = "hlsinfo" => Backed'
    <3> SUFFICES ASSUME stage'[t] = "hlsinfo"
                 PROVE  Backed'
      OBVIOUS
    <3>1. disk'[Master] = "complete"
      BY <1>5, <2>2, DiskAfter
    <3>2. listed' = cut[t] /\ cut[t] # {}
      BY <2>1, <2>2 DEF CutWell
    <3> QED
      BY <2>1, <2>3, <3>1, <3>2 DEF Backed, CutWell
  <2> QED
    BY <2>1, <2>2, <2>4, <2>5 DEF Attempt, Before, Writing
<1>20. CASE SetHLSInfo(t) \/ Snap(t)
  <2>1. /\ stage[t] \in {"hlsinfo", "thumb"} /\ UNCHANGED <<disk, made, poster>>
        /\ MadeWell(t) /\ ~poster[t] /\ stage'[t] \in {"thumb", "snapping", "ready"}
    BY <1>1, <1>2, <1>20 DEF SetHLSInfo, Snap, Attempt, Before, Writing, files, attempt
  <2> QED
    BY <1>6, <2>1 DEF Attempt, Before, Writing, MadeWell
<1>21. CASE Snapped(t)
  <2>1. stage[t] = "snapping" /\ stage'[t] = "ready" /\ UNCHANGED made /\ MadeWell(t) /\ ~poster[t]
    BY <1>1, <1>2, <1>21 DEF Snapped, Attempt, Before, Writing
  <2>2. \/ disk' = Put(disk, Thumb, "complete")
        \/ UNCHANGED <<disk, poster>>
    BY <1>21 DEF Snapped
  <2>3. poster'[t] => disk'[Thumb] = "complete"
    BY <1>5, <2>1, <2>2, DiskAfter
  <2>4. \A q \in made[t] : disk'[Mp4(q)] = disk[Mp4(q)]
    <3> TAKE q \in made[t]
    <3>1. Mp4(q) # Thumb /\ Mp4(q) \in File
      BY <1>1, <1>5, NamesDiffer
    <3> QED
      BY <2>2, <3>1, DiskAfter
  <2> QED
    BY <1>6, <2>1, <2>3, <2>4 DEF Attempt, Before, Writing, MadeWell
<1>22. ~SegmentOn(t)
  BY <1>1 DEF SegmentOn, Attempt
<1> QED
  BY <1>8, <1>9, <1>10, <1>11, <1>12, <1>13, <1>14, <1>15, <1>16, <1>17, <1>18, <1>19, <1>20,
     <1>21, <1>22 DEF Work

\* The attempts that are not at work have nothing to account for.
LEMMA AttemptsAtRest ==
    ASSUME TypeOK, OneAtATime, NEW t \in Task, Work(t), NEW u \in Task \ {t}
    PROVE  Attempt(u)'
<1>1. stage'[u] = stage[u] /\ stage[u] \in {"none"} \cup Ended
  BY WorksOnOwnStage, WorkIsLive DEF OneAtATime, Live
<1> QED
  BY <1>1 DEF Attempt, Before, Ended, Writing

\* A task that leaves the worker leaves what it has made.
LEMMA AttemptsApart ==
    ASSUME TypeOK, NEW t \in Task, Api(t) \/ Interrupt(t), NEW u \in Task
    PROVE  /\ UNCHANGED <<disk, store, listed, height, cursor, made, cut, poster>>
           /\ \/ stage'[u] = stage[u]
              \/ stage'[u] \in {"queued", "archived", "dropped", "loaded", "reset"}
           /\ Attempt(u) => Attempt(u)'
<1>1. /\ stage \in [Task -> Stage]
      /\ UNCHANGED <<disk, store, listed, height, cursor, made, cut, poster>>
  BY DEF TypeOK, Api, Enqueue, AdminLoad, AdminReset, ApiCrash, Interrupt, Timeout, Crash,
     Shutdown, files, attempt
<1>2. \A s : Goto(t, s) => stage'[u] = IF u = t THEN s ELSE stage[u]
  BY <1>1 DEF Goto
<1>3. \/ stage'[u] = stage[u]
      \/ stage'[u] \in {"queued", "archived", "dropped", "loaded", "reset"}
  BY <1>2 DEF Api, Enqueue, AdminLoad, AdminReset, ApiCrash, Interrupt, Timeout, Crash, Shutdown,
     Fail
<1>4. Attempt(u) => Attempt(u)'
  BY <1>1, <1>3 DEF Attempt, Before, MadeWell, CutWell, Backed, Writing
<1> QED
  BY <1>1, <1>3, <1>4

\* When the row is inserted nothing has been attempted.
LEMMA AttemptsToCome ==
    ASSUME TypeOK, OneAtATime, UploadRecord, row' = NewVideo, NEW t \in Task
    PROVE  Attempt(t)'
<1>1. stage \in [Task -> Stage] /\ UploadTask \in Task
  BY DEF TypeOK
<1>2. stage'[t] \in {"recorded", "dropped", "none"} \cup Ended
  BY <1>1 DEF UploadRecord, Goto, OneAtATime, Live, Ended
<1> QED
  BY <1>2 DEF Attempt, Before, Ended, Writing

\* Nothing is taken from a flag that is set, or from a video that is offered.
LEMMA FlaggedWork ==
    ASSUME ~Remote, TypeOK, LocalOnly, LifeInv, FilesInv, Recorded, NEW t \in Task, Work(t)
    PROVE  Flagged'
<1>1. /\ stage \in [Task -> Stage] /\ listed \subseteq Quality
      /\ Attempt(t) /\ Fits(t) /\ OneAtATime /\ Flagged /\ row \in Row
  BY DEF TypeOK, LifeInv, FilesInv
<1>2. \A s : Goto(t, s) => stage'[t] = s
  BY <1>1 DEF Goto
<1>3. \A u \in Task \ {t} : stage'[u] = stage[u] /\ stage[u] \in {"none"} \cup Ended
  BY <1>1, WorksOnOwnStage, WorkIsLive DEF OneAtATime, Live
<1>4. ASSUME Backed', row'.status \in {"processing", "ready"},
             stage'[t] \in Claimed => stage'[t] \in {"thumb", "snapping", "ready"}
      PROVE  Flagged'
  BY <1>3, <1>4 DEF Flagged, Ended, Claimed, Writing
<1>5. CASE ~row'.hls
  BY <1>5 DEF Flagged
<1>6. CASE row'.hls /\ SetHLSInfo(t)
  <2>1. stage[t] = "hlsinfo" /\ stage'[t] = "thumb" /\ UNCHANGED <<disk, listed>>
    BY <1>2, <1>6 DEF SetHLSInfo, files
  <2>2. Backed'
    BY <1>1, <2>1 DEF Attempt, Backed
  <2>3. row'.status = row.status
    BY <1>1, <1>6, TryKeeps DEF SetHLSInfo, SameOffer
  <2>4. row.status = "processing"
    BY <1>1, <2>1 DEF Fits, Claimed, Writing, Recorded
  <2> QED
    BY <1>4, <2>1, <2>2, <2>3, <2>4
<1>7. CASE row.hls
  <2>1. /\ Backed /\ row.status \in {"processing", "ready"}
        /\ stage[t] \in Claimed => stage[t] \in {"thumb", "snapping", "ready"}
    BY <1>1, <1>7 DEF Flagged
  <2>2. ~Claim(t)
    BY <1>1, <2>1 DEF Claim, Fits
  <2>3. stage[t] \notin {"transcode", "encoding", "hls", "segmenting", "leftover", "hlsinfo",
                         "giveup", "probe"}
    BY <2>1 DEF Claimed, Writing
  <2>4. row'.status \in {"processing", "ready"}
    <3>1. ~GiveUp(t)
      BY <2>3 DEF GiveUp
    <3>2. row'.status # "failed"
      BY <2>1, <3>1, WorkOnFlags
    <3> QED
      BY <2>1, <3>2, WorkOnRow DEF SameOffer
  <2>5. stage'[t] \in Claimed => stage'[t] \in {"thumb", "snapping", "ready"}
    <3>1. CASE Dequeue(t) \/ Load(t) \/ StageRaw(t) \/ StagedRaw(t) \/ Check(t) \/ SyncFile(t)
               \/ SyncDone(t) \/ Finish(t) \/ MarkReady(t)
      BY <1>2, <2>3, <3>1 DEF Dequeue, Load, StageRaw, StagedRaw, Check, SyncFile, SyncDone,
         Finish, MarkReady, Fail, Claimed, Writing
    <3>2. CASE Snap(t) \/ Snapped(t)
      BY <1>2, <3>2 DEF Snap, Snapped
    <3> QED
      BY <2>2, <2>3, <3>1, <3>2 DEF Work, Probe, GiveUp, Transcode, Encoded, Transcoded,
         Segment, SegmentOn, Segmented, WriteMaster, SetHLSInfo
  <2>6. UNCHANGED listed
    BY <2>3 DEF Work, Dequeue, Load, StageRaw, StagedRaw, Check, Claim, Probe, GiveUp, Transcode,
       Encoded, Transcoded, Segment, SegmentOn, Segmented, WriteMaster, SetHLSInfo, Snap, Snapped, MarkReady,
       Finish, SyncFile, SyncDone, files
  <2>7. \A g \in File \ {Thumb} : disk'[g] = disk[g]
    BY <2>3, LocalWrites DEF Transcode, Encoded, Segment, SegmentOn, Segmented, WriteMaster
  <2>8. Backed'
    <3>1. disk'[Master] = disk[Master]
      BY <2>7, FileNames, NamesDiffer
    <3>2. \A q \in Quality : disk'[Hls(q)] = disk[Hls(q)]
      BY <2>7, FileNames, NamesDiffer
    <3> QED
      BY <2>1, <2>6, <3>1, <3>2 DEF Backed
  <2> QED
    BY <1>4, <2>4, <2>5, <2>8
<1> QED
  BY <1>5, <1>6, <1>7, WorkOnFlags

LEMMA OfferedWork ==
    ASSUME ~Remote, TypeOK, LocalOnly, LifeInv, FilesInv, Recorded, NEW t \in Task, Work(t)
    PROVE  Offered'
<1>1. row \in Row /\ Attempt(t) /\ Fits(t) /\ Offered /\ made \in [Task -> SUBSET Quality]
  BY DEF TypeOK, LifeInv, FilesInv
<1>2. UNCHANGED height
  BY SameHeight
<1>3. CASE row.status = "ready"
  <2>1. stage[t] \notin Claimed
    BY <1>1, <1>3 DEF Fits
  <2>2. \A g \in File : disk'[g] = disk[g]
    BY <2>1, LocalWrites DEF Transcode, Encoded, Segment, SegmentOn, Segmented, WriteMaster, Snapped,
       Claimed, Writing
  <2>3. SameOffer
    BY <1>3, WorkOnRow
  <2>4. ~MarkReady(t)
    BY <2>1 DEF MarkReady, Claimed, Writing
  <2>5. row'.thumb = row.thumb
    BY <2>4, WorkOnFlags
  <2>6. row.avail \subseteq Quality
    BY <1>1 DEF Row
  <2> QED
    BY <1>1, <1>2, <1>3, <2>2, <2>3, <2>5, <2>6, FileNames DEF SameOffer, Offered
<1>4. CASE MarkReady(t) /\ row'.status = "ready" /\ row.status # "ready"
  <2> DEFINE new == [row EXCEPT !.status = "ready", !.avail = made[t],
                                !.thumb = poster[t], !.progress = 100]
  <2>1. row' = new /\ stage[t] = "ready" /\ UNCHANGED <<disk, poster>>
    BY <1>4 DEF MarkReady, files, attempt
  <2>2. new.avail = made[t] /\ new.thumb = poster[t]
    BY <1>1, AvailOf, FieldsOf
  <2> HIDE DEF new
  <2>3. made[t] # {} /\ MadeWell(t) /\ (poster[t] => disk[Thumb] = "complete")
    BY <1>1, <2>1 DEF Attempt, Fits, Publishing, Writing
  <2> QED
    BY <1>2, <2>1, <2>2, <2>3 DEF Offered, MadeWell
<1>5. CASE ~MarkReady(t) /\ row'.status = "ready" /\ row.status # "ready"
  BY <1>5, WorkOnFlags
<1> QED
  BY <1>3, <1>4, <1>5 DEF Offered

-----------------------------------------------------------------------------
(* The invariant is preserved *)

LEMMA FilesInit == Init => FilesInv
BY FileNames DEF Init, FilesInv, RawWhole, Recorded, NoRow, Empty

LEMMA FilesWork ==
    ASSUME ~Remote, TypeOK, LocalOnly, LifeInv, FilesInv, NEW t \in Task, Work(t)
    PROVE  FilesInv'
<1>1. disk'[Raw] = disk[Raw]
  BY LocalWrites, FileNames, NamesDiffer
<1>2. Recorded' = Recorded /\ (~Recorded => UNCHANGED row)
  BY WorkOnNoRow, WorkOnRow DEF Recorded, SameOffer
<1>3. Recorded => \A u \in Task : Attempt(u)'
  BY AttemptWork, AttemptsAtRest DEF FilesInv, RawWhole, StagedRawIsWhole, LifeInv
<1> QED
  BY <1>1, <1>2, <1>3, FlaggedWork, OfferedWork DEF FilesInv, RawWhole

LEMMA FilesApart ==
    ASSUME TypeOK, LifeInv, FilesInv, AdminWaits, NEW t \in Task, Api(t) \/ Interrupt(t)
    PROVE  FilesInv'
<1>1. /\ stage \in [Task -> Stage] /\ row \in Row /\ Fits(t)
      /\ UNCHANGED <<disk, listed, height>>
  BY AttemptsApart DEF TypeOK, LifeInv
<1>3. \A u \in Task : \/ stage'[u] = stage[u]
                      \/ stage'[u] \in {"queued", "archived", "dropped", "loaded", "reset"}
  BY AttemptsApart
<1>4. Backed' = Backed
  BY <1>1 DEF Backed
<1>5. ASSUME NEW u \in Task, Attempt(u)
      PROVE  Attempt(u)'
  BY <1>5, AttemptsApart
<1>6. \A u \in Task : stage'[u] \in Claimed => stage'[u] = stage[u]
  BY <1>3 DEF Claimed, Writing
<1>7. CASE UNCHANGED row
  BY <1>1, <1>4, <1>5, <1>6, <1>7 DEF FilesInv, RawWhole, Recorded, Flagged, Offered
<1>8. CASE AdminReset(t) /\ Recorded /\ row' = [row EXCEPT !.status = "uploading"]
  <2>1. row.status = "failed"
    BY <1>1, <1>8 DEF AdminReset, Fits, Recorded
  <2>2. row'.status = "uploading" /\ row'.hls = row.hls
    BY <1>1, <1>8, StatusOf, FieldsOf
  <2>3. Flagged' /\ Offered'
    BY <1>8, <2>1, <2>2 DEF FilesInv, Flagged, Offered
  <2> QED
    BY <1>1, <1>5, <1>8, <2>2, <2>3 DEF FilesInv, RawWhole, Recorded
<1> QED
  BY <1>7, <1>8 DEF Api, Enqueue, AdminLoad, AdminReset, ApiCrash, Interrupt, Timeout, Crash,
     Shutdown

\* A video whose row is new, or gone, promises nothing.
LEMMA FilesUpload ==
    ASSUME ~Remote, TypeOK, LifeInv, FilesInv, UploadSave \/ UploadRecord
    PROVE  FilesInv'
<1>1. /\ disk \in [File -> FileState] /\ stage \in [Task -> Stage] /\ UploadTask \in Task
      /\ Raw \in File /\ RawWhole
  BY FileNames DEF TypeOK, FilesInv
<1>2. \A s \in {"complete", "absent"} : SetServed(Raw, s) => RawWhole'
  BY <1>1, FilesAfter DEF SetServed, RawWhole
<1>3. RawWhole'
  <2>1. \/ UNCHANGED disk
        \/ \E s \in {"complete", "absent"} : SetServed(Raw, s)
    BY DEF UploadSave, UploadRecord
  <2> QED
    BY <1>1, <1>2, <2>1 DEF RawWhole
<1>4. ~Recorded
  BY DEF UploadSave, UploadRecord, LifeInv, Ordered
<1>5. CASE UNCHANGED row
  BY <1>3, <1>4, <1>5 DEF FilesInv, Recorded
<1>6. CASE UploadRecord /\ row' = NewVideo
  <2>2. \A t \in Task : Attempt(t)'
    BY <1>6, AttemptsToCome DEF LifeInv
  <2>3. ~row'.hls /\ row'.status = "uploading"
    BY <1>6 DEF NewVideo, NoRow
  <2>4. Flagged' /\ Offered'
    BY <2>3 DEF Flagged, Offered
  <2> QED
    BY <1>3, <2>2, <2>3, <2>4 DEF FilesInv, Recorded
<1> QED
  BY <1>5, <1>6 DEF UploadSave, UploadRecord

LEMMA FilesDelete ==
    ASSUME ~Remote, TypeOK, LifeInv, FilesInv, Delete
    PROVE  FilesInv'
<1>1. disk \in [File -> FileState] /\ Raw \in File /\ RawWhole
  BY FileNames DEF TypeOK, FilesInv
<1>2. \A gone : DropServed(gone) => RawWhole'
  BY <1>1, FilesAfter DEF DropServed, RawWhole
<1>3. RawWhole'
  BY <1>1, <1>2 DEF Delete, DeleteRow, DeleteRaw, DeleteOutputs, DeleteDir, DeleteThumb, DeleteCrash, files,
     RawWhole
<1>4. ~Recorded' /\ ~row'.hls
  <2>1. CASE DeleteRow
    BY <2>1 DEF DeleteRow, Recorded, NoRow
  <2>2. CASE DeleteRaw \/ DeleteOutputs \/ DeleteDir \/ DeleteThumb \/ DeleteCrash
    BY <2>2 DEF DeleteRaw, DeleteOutputs, DeleteDir, DeleteThumb, DeleteCrash, LifeInv, Ordered, FilesInv,
       Recorded
  <2> QED
    BY <2>1, <2>2 DEF Delete
<1> QED
  BY <1>3, <1>4 DEF FilesInv

LEMMA FilesNext ==
    ASSUME ~Remote, AdminWaits, TypeOK, LocalOnly, LifeInv, FilesInv, [Next]_vars
    PROVE  FilesInv'
<1>1. CASE UNCHANGED vars
  BY <1>1 DEF vars, files, attempt, FilesInv, RawWhole, Recorded, Flagged, Offered, Attempt,
     MadeWell, CutWell, Backed
<1> QED
  BY <1>1, FilesWork, FilesApart, FilesUpload, FilesDelete DEF Next

LEMMA FilesAlways ==
    ASSUME ~Remote, AdminWaits
    PROVE  Spec => []FilesInv
<1>1. Init => LocalOnly /\ LifeInv /\ FilesInv
  BY LocalInit, LifeInit, FilesInit
<1>2. TypeOK /\ (LocalOnly /\ LifeInv /\ FilesInv) /\ [Next]_vars
         => (LocalOnly /\ LifeInv /\ FilesInv)'
  BY LocalNext, LifeNext, FilesNext
<1> QED
  BY <1>1, <1>2, TypeCorrect, PTL DEF Spec

\* With the local store, and RetryVideo called only when nothing is pending: through
\* every failure, a video that is ready has a rendition, and each it offers is there
\* in full.  An attempt counts a rendition only once ffmpeg has finished it, and
\* while there is a row nothing else writes to it or removes it.
THEOREM ReadyVideosPlay ==
    ASSUME ~Remote, AdminWaits
    PROVE  Spec => []ReadyIsPlayable
<1>1. Spec => []FilesInv
  BY FilesAlways
<1>2. FilesInv => ReadyIsPlayable
  BY DEF FilesInv, Recorded, Offered, Served, ReadyIsPlayable
<1> QED
  BY <1>1, <1>2, PTL

\* Under the same assumptions a master playlist that the row announces leads to
\* finished media playlists: the flag is set after they are written, and an attempt
\* that has set it can only publish the video or leave it in `processing`, where no
\* later attempt rewrites them.
THEOREM AnnouncedPlaylistsExist ==
    ASSUME ~Remote, AdminWaits
    PROVE  Spec => []HLSFlagIsBacked
<1>1. Spec => []FilesInv
  BY FilesAlways
<1>2. FilesInv => HLSFlagIsBacked
  <2>1. FilesInv /\ row.hls => Flagged
    BY DEF FilesInv
  <2> QED
    BY <2>1 DEF Flagged, Backed, Served, HLSFlagIsBacked
<1> QED
  BY <1>1, <1>2, PTL

-----------------------------------------------------------------------------
(* The remote store: the raw file is staged and the outputs are uploaded *)

\* Only a copy in progress is a part of the raw file.
Staged == disk[Raw] = "partial" => \E t \in Task : stage[t] = "staging"

\* What a ready row offers.
Offers == {Mp4(q) : q \in row.avail} \cup IF row.thumb THEN {Thumb} ELSE {}

\* The worker still has the file, or else the store does.
Kept(f) == disk[f] = "complete" \/ (disk[f] = "absent" /\ store[f] = "complete")

\* The uploads before the n-th have been made.
UpTo(n) == \A i \in 1..NumUploads : i < n /\ Upload(i) \in Offers => store[Upload(i)] = "complete"

Published ==
    row.status = "ready" =>
        /\ \A f \in Offers : Kept(f)
        /\ \A t \in Task : stage[t] = "sync" => UpTo(cursor[t])
        /\ (\E t \in Task : stage[t] = "done") => \A f \in Offers : store[f] = "complete"

\* A task that is done was the last one.
Settled ==
    (\E t \in Task : stage[t] = "done") =>
        stage[UploadTask] \notin {"none", "saved"} /\ row.status \in {"none", "ready"}

FreshLoads == \A t \in Task : stage[t] = "load" => cursor[t] = 1

StoreInv ==
    /\ Staged /\ Settled /\ FreshLoads
    /\ Recorded => Published /\ \A t \in Task : Attempt(t)

LEMMA StoreInit == Init => StoreInv
BY FileNames DEF Init, StoreInv, Staged, Settled, FreshLoads, Recorded, NoRow, Empty

LEMMA OthersWait ==
    ASSUME TypeOK, LifeInv, NEW t \in Task, Work(t)
    PROVE  \A u \in Task \ {t} : stage'[u] = stage[u] /\ stage[u] \in {"none"} \cup Ended
BY WorksOnOwnStage, WorkIsLive DEF LifeInv, OneAtATime, Live

LEMMA StagedIsWhole ==
    ASSUME LifeInv, Staged
    PROVE  StagedRawIsWhole
<1> SUFFICES ASSUME NEW t \in Task, stage[t] \in {"check", "claim"} \cup Claimed,
                    disk[Raw] = "partial"
             PROVE  FALSE
  BY DEF StagedRawIsWhole
<1>1. PICK u \in Task : stage[u] = "staging"
  BY DEF Staged
<1>2. Live(t) /\ Live(u) /\ t # u
  BY <1>1 DEF Live, Ended, Claimed, Writing
<1> QED
  BY <1>2 DEF LifeInv, OneAtATime

\* A copy of the raw file is finished or removed before the task moves on.
LEMMA StagedWork ==
    ASSUME TypeOK, LifeInv, Staged, NEW t \in Task, Work(t)
    PROVE  Staged'
<1>1. /\ stage \in [Task -> Stage] /\ Raw \in File
      /\ \A s : Goto(t, s) => stage'[t] = s
  BY FileNames DEF TypeOK, Goto
<1>2. \A s : disk' = Put(disk, Raw, s) => disk'[Raw] = s
  BY <1>1, DiskAfter
<1>3. CASE StageRaw(t)
  <2>1. \/ UNCHANGED disk
        \/ disk' = Put(disk, Raw, "partial") /\ stage'[t] = "staging"
    BY <1>1, <1>3 DEF StageRaw
  <2>2. \A u \in Task : stage[u] # "staging"
    BY <1>3, OthersWait DEF StageRaw, Ended
  <2> QED
    BY <2>1, <2>2 DEF Staged
<1>4. CASE StagedRaw(t)
  <2>1. \E s \in {"complete", "absent"} : disk' = Put(disk, Raw, s)
    BY <1>4 DEF StagedRaw
  <2> QED
    BY <1>2, <2>1 DEF Staged
<1>5. CASE ~StageRaw(t) /\ ~StagedRaw(t)
  <2>1. stage[t] # "staging"
    BY <1>5 DEF Work, Dequeue, Load, StageRaw, Check, Claim, Probe, GiveUp, Transcode, Encoded,
       Transcoded, Segment, SegmentOn, Segmented, WriteMaster, SetHLSInfo, Snap, Snapped, MarkReady, Finish,
       SyncFile, SyncDone
  <2>2. disk[Raw] # "partial"
    BY <2>1, OthersWait DEF Staged, Ended
  <2>3. disk'[Raw] = disk[Raw] \/ disk'[Raw] = "absent"
    <3>1. \A q : Raw # Mp4(q) /\ Raw # Hls(q)
      BY NamesDiffer
    <3> QED
      BY <1>1, <1>5, <3>1, WorkWrites, NamesDiffer
  <2> QED
    BY <2>2, <2>3 DEF Staged
<1> QED
  BY <1>3, <1>4, <1>5

\* A task is done once its outputs are uploaded, and then nothing is left to do.
LEMMA SettledWork ==
    ASSUME Remote, TypeOK, LifeInv, Settled, NEW t \in Task, Work(t)
    PROVE  Settled' /\ (stage'[t] = "done" => SyncDone(t))
<1>1. /\ stage \in [Task -> Stage] /\ UploadTask \in Task
      /\ \A s : Goto(t, s) => stage'[t] = s
  BY DEF TypeOK, Goto
<1>2. Live(t)
  BY WorkIsLive
<1>3. stage'[t] = "done" => SyncDone(t)
  <2>1. Fail(t) => stage'[t] \in {"queued", "archived"}
    BY <1>1 DEF Fail
  <2>2. CASE Dequeue(t) \/ Load(t) \/ StageRaw(t) \/ StagedRaw(t) \/ Check(t) \/ Claim(t)
    BY <1>1, <2>1, <2>2 DEF Dequeue, Load, StageRaw, StagedRaw, Check, Claim
  <2>3. CASE Probe(t) \/ GiveUp(t) \/ Encoded(t) \/ Transcoded(t) \/ SegmentOn(t) \/ Segmented(t)
             \/ WriteMaster(t) \/ SetHLSInfo(t)
    BY <1>1, <2>1, <2>3 DEF Probe, GiveUp, Encoded, Transcoded, SegmentOn, Segmented, WriteMaster,
       SetHLSInfo
  <2>4. CASE Transcode(t) \/ Segment(t)
    BY <1>1, <2>4 DEF Transcode, Segment
  <2>5. CASE Snap(t) \/ Snapped(t) \/ MarkReady(t) \/ Finish(t) \/ SyncFile(t)
    BY <1>1, <2>1, <2>5 DEF Snap, Snapped, MarkReady, Finish, SyncFile
  <2> QED
    BY <2>2, <2>3, <2>4, <2>5 DEF Work
<1>4. ASSUME NEW u \in Task \ {t}, stage'[u] = "done"
      PROVE  stage'[UploadTask] \notin {"none", "saved"} /\ row'.status \in {"none", "ready"}
  <2>1. stage[UploadTask] \notin {"none", "saved"} /\ row.status \in {"none", "ready"}
    BY <1>4, OthersWait DEF Settled
  <2> QED
    BY <2>1, NoSecondUpload, WorkOnRow DEF SameOffer
<1>5. ASSUME SyncDone(t)
      PROVE  stage'[UploadTask] \notin {"none", "saved"} /\ row'.status \in {"none", "ready"}
  <2>1. stage[t] = "sync" /\ UNCHANGED row
    BY <1>5 DEF SyncDone
  <2>2. row.status \in {"none", "ready"}
    BY <2>1 DEF LifeInv, Fits
  <2>3. stage[UploadTask] # "none"
    BY <2>1 DEF LifeInv, Ordered
  <2>4. stage[UploadTask] # "saved"
    BY <1>1, <2>1, OthersWait DEF Ended
  <2> QED
    BY <2>1, <2>2, <2>3, <2>4, NoSecondUpload
<1> QED
  BY <1>3, <1>4, <1>5 DEF Settled

\* An attempt starts its uploads at the first.
LEMMA FreshWork ==
    ASSUME TypeOK, FreshLoads, NEW t \in Task, Work(t)
    PROVE  /\ FreshLoads'
           /\ stage'[t] = "sync" => SyncFile(t) \/ cursor'[t] = 1
<1>1. /\ stage \in [Task -> Stage] /\ cursor \in [Task -> Nat \ {0}]
      /\ \A s : Goto(t, s) => \A u \in Task : stage'[u] = IF u = t THEN s ELSE stage[u]
      /\ \A i : Advance(t, i) => \A u \in Task : cursor'[u] = IF u = t THEN i ELSE cursor[u]
  BY DEF TypeOK, Goto, Advance
<1>2. Fail(t) => \A u \in Task : stage'[u] = IF u = t THEN stage'[t] ELSE stage[u]
  BY <1>1 DEF Fail
<1>3. Fail(t) => stage'[t] \in {"queued", "archived"}
  BY <1>1 DEF Fail
<1>4. \A u \in Task \ {t} : stage'[u] = stage[u]
  BY WorksOnOwnStage
<1>5. \A u \in Task \ {t} : cursor'[u] = cursor[u]
  <2>1. \/ UNCHANGED cursor
        \/ \E i : Advance(t, i)
        \/ Dequeue(t)
    BY DEF Work, Load, StageRaw, StagedRaw, Check, Claim, Probe, GiveUp, Transcode, Encoded,
       Transcoded, Segment, SegmentOn, Segmented, WriteMaster, SetHLSInfo, Snap, Snapped, MarkReady, Finish,
       SyncFile, SyncDone, attempt
  <2> QED
    BY <1>1, <2>1 DEF Dequeue
<1>6. CASE Dequeue(t)
  <2>1. cursor'[t] = 1 /\ stage'[t] # "sync"
    BY <1>1, <1>6 DEF Dequeue
  <2> QED
    BY <1>4, <1>5, <2>1 DEF FreshLoads
<1>7. CASE Load(t)
  <2>1. cursor'[t] = 1 /\ stage'[t] # "load"
    BY <1>1, <1>3, <1>7 DEF Load, attempt, FreshLoads
  <2> QED
    BY <1>4, <1>5, <2>1 DEF FreshLoads
<1>8. CASE Finish(t)
  <2>1. cursor'[t] = 1 /\ stage'[t] # "load"
    BY <1>1, <1>8 DEF Finish
  <2> QED
    BY <1>4, <1>5, <2>1 DEF FreshLoads
<1>9. ASSUME stage'[t] # "load", SyncFile(t) \/ stage'[t] # "sync"
      PROVE  /\ FreshLoads'
             /\ stage'[t] = "sync" => SyncFile(t) \/ cursor'[t] = 1
  BY <1>4, <1>5, <1>9 DEF FreshLoads
<1>10. CASE StageRaw(t) \/ StagedRaw(t) \/ Check(t) \/ Claim(t) \/ Probe(t) \/ GiveUp(t)
  BY <1>1, <1>3, <1>9, <1>10 DEF StageRaw, StagedRaw, Check, Claim, Probe, GiveUp
<1>11. CASE Encoded(t) \/ Transcoded(t) \/ SegmentOn(t) \/ Segmented(t) \/ WriteMaster(t) \/ SetHLSInfo(t)
  BY <1>1, <1>9, <1>11 DEF Encoded, Transcoded, SegmentOn, Segmented, WriteMaster, SetHLSInfo
<1>12. CASE Transcode(t) \/ Segment(t)
  BY <1>1, <1>9, <1>12 DEF Transcode, Segment
<1>13. CASE Snap(t) \/ Snapped(t) \/ MarkReady(t) \/ SyncFile(t) \/ SyncDone(t)
  BY <1>1, <1>3, <1>9, <1>13 DEF Snap, Snapped, MarkReady, SyncFile, SyncDone
<1> QED
  BY <1>6, <1>7, <1>8, <1>10, <1>11, <1>12, <1>13 DEF Work

\* While a video is ready its files stay as they are until the uploads are done.
LEMMA ReadyRests ==
    ASSUME TypeOK, LifeInv, row.status = "ready", NEW t \in Task, Work(t)
    PROVE  /\ row'.status = "ready" /\ Offers' = Offers
           /\ \A g \in File \ {Raw} :
                disk'[g] = disk[g] \/ (SyncDone(t) /\ disk'[g] = "absent")
<1>1. stage[t] \notin Claimed
  BY DEF LifeInv, Fits
<1>2. SameOffer
  BY WorkOnRow
<1>3. ~MarkReady(t)
  BY <1>1 DEF MarkReady, Claimed, Writing
<1>4. row'.thumb = row.thumb
  BY <1>3, WorkOnFlags
<1>5. ASSUME NEW g \in File \ {Raw}
      PROVE  disk'[g] = disk[g] \/ (SyncDone(t) /\ disk'[g] = "absent")
  <2>1. ~(Transcode(t) \/ Encoded(t) \/ Segment(t) \/ SegmentOn(t) \/ Segmented(t) \/ WriteMaster(t) \/ Snapped(t))
    BY <1>1 DEF Transcode, Encoded, Segment, SegmentOn, Segmented, WriteMaster, Snapped, Claimed, Writing
  <2> QED
    BY <1>5, <2>1, WorkWrites
<1> QED
  BY <1>2, <1>4, <1>5 DEF SameOffer, Offers

\* Every offered file is among the uploads.
LEMMA OffersAreFiles ==
    ASSUME TypeOK
    PROVE  Offers \subseteq File \ {Raw} /\ \A f \in Offers : \E i \in 1..NumUploads : Upload(i) = f
<1>1. row.avail \subseteq Quality
  BY DEF TypeOK, Row
<1>2. \A q \in row.avail : Mp4(q) \in File \ {Raw} /\ q \in 1..NumUploads /\ Upload(q) = Mp4(q)
  BY <1>1, FileNames, NamesDiffer DEF Quality, NumUploads, Upload
<1>3. Thumb \in File \ {Raw} /\ NumUploads \in 1..NumUploads /\ Upload(NumUploads) = Thumb
  BY FileNames, NamesDiffer DEF NumUploads, Upload
<1> QED
  BY <1>2, <1>3 DEF Offers

\* An upload adds to the store and takes nothing that is offered from it.
LEMMA UploadAdds ==
    ASSUME TypeOK, Published, row.status = "ready", NEW t \in Task, Work(t), NEW f \in Offers
    PROVE  /\ store[f] = "complete" => store'[f] = "complete"
           /\ ~SyncFile(t) => store'[f] = store[f]
           /\ SyncFile(t) /\ f = Upload(cursor[t]) /\ stage'[t] = "sync" => store'[f] = "complete"
<1>1. /\ store \in [File -> FileState] /\ stage \in [Task -> Stage] /\ f \in File
      /\ \A s : Goto(t, s) => stage'[t] = s
  BY OffersAreFiles DEF TypeOK, Goto
<1>2. Fail(t) => stage'[t] # "sync"
  BY <1>1 DEF Fail
<1>3. CASE ~SyncFile(t)
  <2>1. UNCHANGED store
    BY <1>3 DEF Work, Dequeue, Load, StageRaw, StagedRaw, Check, Claim, Probe, GiveUp, Transcode,
       Encoded, Transcoded, Segment, SegmentOn, Segmented, WriteMaster, SetHLSInfo, Snap, Snapped, MarkReady,
       Finish, SyncDone, files
  <2> QED
    BY <1>3, <2>1
<1>4. CASE SyncFile(t)
  <2> DEFINE g == Upload(cursor[t])
  <2>1. \/ disk[g] # "absent" /\ store' = Put(store, g, disk[g])
        \/ UNCHANGED store /\ (Fail(t) \/ disk[g] = "absent")
    BY <1>4 DEF SyncFile
  <2>2. Kept(f)
    BY DEF Published
  <2>3. CASE disk[g] # "absent" /\ store' = Put(store, g, disk[g])
    <3>1. store'[f] = IF f = g THEN disk[g] ELSE store[f]
      BY <1>1, <2>3, FilesAfter
    <3> QED
      BY <1>4, <2>2, <2>3, <3>1 DEF Kept
  <2>4. CASE UNCHANGED store /\ (Fail(t) \/ disk[g] = "absent")
    BY <1>2, <1>4, <2>2, <2>4 DEF Kept
  <2> QED
    BY <2>1, <2>3, <2>4
<1> QED
  BY <1>3, <1>4

\* After the last upload everything that is offered is in the store.
LEMMA AllUploaded ==
    ASSUME TypeOK, Published, row.status = "ready", NEW t \in Task, SyncDone(t)
    PROVE  \A f \in Offers : store[f] = "complete"
<1>1. stage[t] = "sync" /\ cursor[t] > NumUploads /\ cursor[t] \in Nat
  BY DEF SyncDone, TypeOK
<1>2. NumUploads \in Nat
  BY DEF NumUploads
<1>3. UpTo(cursor[t])
  BY <1>1 DEF Published
<1>4. \A i \in 1..NumUploads : i < cursor[t]
  BY <1>1, <1>2
<1> QED
  BY <1>3, <1>4, OffersAreFiles DEF UpTo

LEMMA PublishedStays ==
    ASSUME Remote, TypeOK, LifeInv, Settled, FreshLoads, Published, row.status = "ready",
           NEW t \in Task, Work(t)
    PROVE  Published'
<1>1. /\ row'.status = "ready" /\ Offers' = Offers
      /\ \A g \in File \ {Raw} : disk'[g] = disk[g] \/ (SyncDone(t) /\ disk'[g] = "absent")
  BY ReadyRests
<1>2. ASSUME NEW f \in Offers
      PROVE  Kept(f)'
  <2>1. f \in File \ {Raw} /\ Kept(f)
    BY OffersAreFiles DEF Published
  <2>2. store[f] = "complete" => store'[f] = "complete"
    BY UploadAdds
  <2>3. SyncDone(t) => store[f] = "complete"
    BY AllUploaded
  <2> QED
    BY <1>1, <2>1, <2>2, <2>3 DEF Kept
<1>3. ASSUME NEW u \in Task, stage'[u] = "sync"
      PROVE  UpTo(cursor[u])'
  <2>1. u = t
    BY <1>3, OthersWait DEF Ended
  <2>2. CASE cursor'[t] = 1
    BY <2>1, <2>2 DEF UpTo
  <2>3. CASE SyncFile(t)
    <3>1. stage[t] = "sync" /\ cursor[t] \in Nat /\ stage \in [Task -> Stage]
      BY <2>3 DEF SyncFile, TypeOK
    <3>2. Fail(t) => stage'[t] # "sync"
      BY <3>1 DEF Fail, Goto
    <3>3. cursor'[t] = cursor[t] + 1
      BY <1>3, <2>1, <2>3, <3>1, <3>2 DEF SyncFile, Advance, TypeOK
    <3>4. UpTo(cursor[t])
      BY <3>1 DEF Published
    <3>5. ASSUME NEW i \in 1..NumUploads, i < cursor[t] + 1, Upload(i) \in Offers
          PROVE  store'[Upload(i)] = "complete"
      <4>1. CASE i = cursor[t]
        BY <1>3, <2>1, <2>3, <3>5, <4>1, UploadAdds
      <4>2. CASE i < cursor[t]
        BY <3>4, <3>5, <4>2, UploadAdds DEF UpTo
      <4> QED
        BY <3>1, <3>5, <4>1, <4>2
    <3>6. \A i : Upload(i)' = Upload(i)
      BY DEF Upload, Mp4, Hls, Master, Thumb
    <3> QED
      BY <1>1, <2>1, <3>3, <3>5, <3>6 DEF UpTo, NumUploads
  <2> QED
    BY <1>3, <2>1, <2>2, <2>3, FreshWork
<1>4. ASSUME NEW u \in Task, stage'[u] = "done", NEW f \in Offers
      PROVE  store'[f] = "complete"
  <2>1. CASE u = t
    <3>1. SyncDone(t)
      BY <1>4, <2>1, SettledWork
    <3>2. store[f] = "complete"
      BY <3>1, AllUploaded
    <3> QED
      BY <3>2, UploadAdds
  <2>2. CASE u # t
    <3>1. stage[u] = "done"
      BY <1>4, <2>2, WorksOnOwnStage
    <3>2. store[f] = "complete"
      BY <3>1 DEF Published
    <3> QED
      BY <3>2, UploadAdds
  <2> QED
    BY <2>1, <2>2
<1> QED
  BY <1>1, <1>2, <1>3, <1>4 DEF Published

\* A video is published with the files its attempt has finished.
LEMMA PublishedFirst ==
    ASSUME Remote, TypeOK, LifeInv, Settled, Recorded, NEW t \in Task, Attempt(t), Work(t),
           row.status # "ready", row'.status = "ready"
    PROVE  Published'
<1> DEFINE new == [row EXCEPT !.status = "ready", !.avail = made[t],
                              !.thumb = poster[t], !.progress = 100]
<1>1. MarkReady(t) /\ row \in Row /\ stage \in [Task -> Stage]
  BY WorkOnFlags DEF TypeOK
<1>2. row' = new /\ stage[t] = "ready" /\ stage'[t] = "final" /\ UNCHANGED <<disk, store>>
  BY <1>1 DEF MarkReady, Goto, files
<1>3. new.avail = made[t] /\ new.thumb = poster[t]
  BY <1>1, AvailOf, FieldsOf
<1> HIDE DEF new
<1>4. MadeWell(t) /\ (poster[t] => disk[Thumb] = "complete")
  BY <1>2 DEF Attempt, Writing
<1>5. \A f \in Offers' : Kept(f)'
  BY <1>2, <1>3, <1>4 DEF Offers, Kept, MadeWell
<1>6. row.status \notin {"none", "ready"}
  BY DEF Recorded
<1>7. \A u \in Task : stage'[u] \notin {"sync", "done"}
  <2> TAKE u \in Task
  <2>1. CASE u = t
    BY <1>2, <2>1
  <2>2. CASE u # t
    <3>1. stage'[u] = stage[u] /\ stage[u] # "sync"
      BY <2>2, OthersWait DEF Ended
    <3>2. stage[u] # "done"
      BY <1>6 DEF Settled
    <3> QED
      BY <3>1, <3>2
  <2> QED
    BY <2>1, <2>2
<1> QED
  BY <1>5, <1>7 DEF Published

LEMMA StoreWork ==
    ASSUME Remote, TypeOK, LifeInv, StoreInv, NEW t \in Task, Work(t)
    PROVE  StoreInv'
<1>1. Recorded' = Recorded
  BY WorkOnNoRow, WorkOnRow DEF Recorded, SameOffer
<1>2. Staged' /\ Settled' /\ FreshLoads'
  BY StagedWork, SettledWork, FreshWork DEF StoreInv
<1>3. ASSUME Recorded, NEW u \in Task
      PROVE  Attempt(u)'
  <2>1. StagedRawIsWhole
    BY StagedIsWhole DEF StoreInv
  <2> QED
    BY <1>3, <2>1, AttemptWork, AttemptsAtRest DEF StoreInv, LifeInv
<1>4. ASSUME Recorded
      PROVE  Published'
  <2>1. CASE row.status = "ready"
    BY <1>4, <2>1, PublishedStays DEF StoreInv
  <2>2. CASE row.status # "ready" /\ row'.status = "ready"
    BY <1>4, <2>2, PublishedFirst DEF StoreInv
  <2>3. CASE row'.status # "ready"
    BY <2>3 DEF Published
  <2> QED
    BY <2>1, <2>2, <2>3
<1> QED
  BY <1>1, <1>2, <1>3, <1>4 DEF StoreInv

\* The worker stays up, so a copy it has begun is always dealt with.
LEMMA StoreApart ==
    ASSUME AdminWaits, Faults \cap {"crash", "shutdown"} = {}, TypeOK, LifeInv, StoreInv,
           NEW t \in Task, Api(t) \/ Interrupt(t)
    PROVE  StoreInv'
<1>1. /\ stage \in [Task -> Stage] /\ row \in Row /\ Fits(t)
      /\ UNCHANGED <<disk, store, height, cursor>>
      /\ \A s : Goto(t, s) => \A u \in Task : stage'[u] = IF u = t THEN s ELSE stage[u]
  BY AttemptsApart DEF TypeOK, LifeInv, Goto
<1>2. \A u \in Task : \/ stage'[u] = stage[u]
                      \/ stage'[u] \in {"queued", "archived", "dropped", "loaded", "reset"}
  BY AttemptsApart
<1>3. Staged'
  <2>1. \A u \in Task : stage[u] = "staging" => stage'[u] = "staging"
    BY <1>1 DEF Api, Enqueue, AdminLoad, AdminReset, ApiCrash, InApi, Interrupt, Timeout, Crash,
       Shutdown
  <2> QED
    BY <1>1, <2>1 DEF StoreInv, Staged
<1>4. FreshLoads'
  BY <1>1, <1>2 DEF StoreInv, FreshLoads
<1>5. (\A u \in Task : Attempt(u)) => \A u \in Task : Attempt(u)'
  BY AttemptsApart
<1>6. stage'[UploadTask] \in {"none", "saved"} => stage[UploadTask] \in {"none", "saved"}
  BY NoSecondUpload
<1>7. CASE UNCHANGED row
  <2>1. Settled'
    BY <1>2, <1>6, <1>7 DEF StoreInv, Settled
  <2>2. Published => Published'
    BY <1>1, <1>2, <1>7 DEF Published, Offers, Kept, UpTo, NumUploads, Upload
  <2> QED
    BY <1>3, <1>4, <1>5, <1>7, <2>1, <2>2 DEF StoreInv, Recorded
<1>8. CASE AdminReset(t) /\ Recorded /\ row' = [row EXCEPT !.status = "uploading"]
  <2>1. row.status = "failed"
    BY <1>1, <1>8 DEF AdminReset, Fits, Recorded
  <2>2. row'.status = "uploading"
    BY <1>1, <1>8, StatusOf
  <2>3. \A u \in Task : stage'[u] # "done"
    BY <1>2, <2>1 DEF StoreInv, Settled
  <2>4. Settled' /\ Published'
    BY <2>2, <2>3 DEF Settled, Published
  <2> QED
    BY <1>3, <1>4, <1>5, <1>8, <2>4 DEF StoreInv
<1> QED
  BY <1>7, <1>8 DEF Api, Enqueue, AdminLoad, AdminReset, ApiCrash, Interrupt, Timeout, Crash,
     Shutdown

LEMMA StoreUpload ==
    ASSUME Remote, TypeOK, LifeInv, StoreInv, UploadSave \/ UploadRecord
    PROVE  StoreInv'
<1>1. /\ stage \in [Task -> Stage] /\ UploadTask \in Task
      /\ UNCHANGED <<disk, cursor>>
      /\ \A s : Goto(UploadTask, s) =>
            \A u \in Task : stage'[u] = IF u = UploadTask THEN s ELSE stage[u]
  BY DEF TypeOK, Goto, UploadSave, UploadRecord, SetServed, attempt
<1>2. stage[UploadTask] \in {"none", "saved"} /\ ~Recorded
  BY DEF UploadSave, UploadRecord, LifeInv, Ordered
<1>3. /\ stage'[UploadTask] \in {"saved", "recorded", "dropped"}
      /\ \A u \in Task \ {UploadTask} : stage'[u] = stage[u]
  BY <1>1 DEF UploadSave, UploadRecord
<1>4. \A u \in Task : stage[u] # "done" /\ stage'[u] # "done"
  BY <1>2, <1>3 DEF StoreInv, Settled
<1>5. Staged' /\ Settled' /\ FreshLoads'
  <2>1. Staged'
    BY <1>1, <1>2, <1>3 DEF StoreInv, Staged
  <2>2. Settled'
    BY <1>4 DEF Settled
  <2>3. FreshLoads'
    BY <1>1, <1>3 DEF StoreInv, FreshLoads
  <2> QED
    BY <2>1, <2>2, <2>3
<1>6. CASE UNCHANGED row
  BY <1>2, <1>5, <1>6 DEF StoreInv, Recorded
<1>7. CASE UploadRecord /\ row' = NewVideo
  <2>1. row'.status # "ready"
    BY <1>7 DEF NewVideo, NoRow
  <2>2. \A u \in Task : Attempt(u)'
    BY <1>7, AttemptsToCome DEF LifeInv
  <2> QED
    BY <1>5, <2>1, <2>2 DEF StoreInv, Published
<1> QED
  BY <1>6, <1>7 DEF UploadSave, UploadRecord

\* The files of a deleted video are removed from the store and not from the worker.
LEMMA StoreDelete ==
    ASSUME Remote, LifeInv, StoreInv, Delete
    PROVE  StoreInv'
<1>1. UNCHANGED <<disk, stage, cursor>>
  BY DEF Delete, DeleteRow, DeleteRaw, DeleteOutputs, DeleteDir, DeleteThumb, DeleteCrash, DropServed, files,
     attempt
<1>2. ~Recorded'
  <2>1. CASE DeleteRow
    BY <2>1 DEF DeleteRow, Recorded, NoRow
  <2>2. CASE DeleteRaw \/ DeleteOutputs \/ DeleteDir \/ DeleteThumb \/ DeleteCrash
    BY <2>2 DEF DeleteRaw, DeleteOutputs, DeleteDir, DeleteThumb, DeleteCrash, LifeInv, Ordered, Recorded
  <2> QED
    BY <2>1, <2>2 DEF Delete
<1> QED
  BY <1>1, <1>2 DEF StoreInv, Staged, Settled, FreshLoads, Recorded

LEMMA StoreNext ==
    ASSUME Remote, AdminWaits, Faults \cap {"crash", "shutdown"} = {},
           TypeOK, LifeInv, StoreInv, [Next]_vars
    PROVE  StoreInv'
<1>1. CASE UNCHANGED vars
  BY <1>1 DEF vars, files, attempt, StoreInv, Staged, Settled, FreshLoads, Recorded, Published,
     Offers, Kept, UpTo, NumUploads, Upload, Attempt, MadeWell, CutWell, Backed
<1> QED
  BY <1>1, StoreWork, StoreApart, StoreUpload, StoreDelete DEF Next

LEMMA StoreAlways ==
    ASSUME Remote, AdminWaits, Faults \cap {"crash", "shutdown"} = {}
    PROVE  Spec => [](LifeInv /\ StoreInv)
<1>1. Init => LifeInv /\ StoreInv
  BY LifeInit, StoreInit
<1>2. TypeOK /\ (LifeInv /\ StoreInv) /\ [Next]_vars => (LifeInv /\ StoreInv)'
  BY LifeNext, StoreNext
<1> QED
  BY <1>1, <1>2, TypeCorrect, PTL DEF Spec

\* With the remote store, a worker that stays up and RetryVideo called only when
\* nothing is pending: however downloads fail and are repeated, ffmpeg reads the whole
\* raw file or none of it.  stageRawFile finishes the copy it has begun, or removes it,
\* before the task can move on.
THEOREM RawFilesAreWhole ==
    ASSUME Remote, AdminWaits, Faults \cap {"crash", "shutdown"} = {}
    PROVE  Spec => []StagedRawIsWhole
<1>1. Spec => [](LifeInv /\ StoreInv)
  BY StoreAlways
<1>2. LifeInv /\ StoreInv => StagedRawIsWhole
  BY StagedIsWhole DEF StoreInv
<1> QED
  BY <1>1, <1>2, PTL

\* Under the same assumptions a rendition that has been published is never lost: it is
\* on the worker's disk in full until syncOutputsToStore has been through, whichever of
\* its uploads fail and are repeated, and in the store from then on.
THEOREM PublishedIsKept ==
    ASSUME Remote, AdminWaits, Faults \cap {"crash", "shutdown"} = {}
    PROVE  Spec => []PublishedIsNeverLost
<1>1. Spec => [](LifeInv /\ StoreInv)
  BY StoreAlways
<1>2. LifeInv /\ StoreInv => PublishedIsNeverLost
  <2> SUFFICES ASSUME LifeInv, StoreInv, NEW q \in row.avail
               PROVE  "complete" \in {disk[Mp4(q)], store[Mp4(q)]}
    BY DEF PublishedIsNeverLost
  <2>1. row.status = "ready"
    BY DEF LifeInv, OnlyReadyOffers
  <2>2. Kept(Mp4(q))
    BY <2>1 DEF StoreInv, Recorded, Published, Offers
  <2> QED
    BY <2>2 DEF Kept
<1> QED
  BY <1>1, <1>2, PTL

\* And once a task is done, everything a ready video offers is in the store: the task
\* only ends after the last upload, and an upload that fails ends the attempt.
THEOREM UploadsAreComplete ==
    ASSUME Remote, AdminWaits, Faults \cap {"crash", "shutdown"} = {}
    PROVE  Spec => []DoneIsServed
<1>1. Spec => [](LifeInv /\ StoreInv)
  BY StoreAlways
<1>2. LifeInv /\ StoreInv => DoneIsServed
  <2> SUFFICES ASSUME StoreInv, row.status = "ready", NEW t \in Task, stage[t] = "done"
               PROVE  /\ \A q \in row.avail : Served(Mp4(q)) = "complete"
                      /\ row.thumb => Served(Thumb) = "complete"
    BY DEF DoneIsServed
  <2>1. \A f \in Offers : store[f] = "complete"
    BY DEF StoreInv, Recorded, Published
  <2> QED
    BY <2>1 DEF Offers, Served
<1> QED
  BY <1>1, <1>2, PTL

-----------------------------------------------------------------------------
(* The raw file and the row *)

\* No call of a request to the store fails, and the API process lives.
StoreAnswers == Faults \cap {"api", "storage"} = {} /\ (Remote => "client" \notin Faults)

\* The row comes after the save and before the delete.
RawInv ==
    /\ stage[UploadTask] \in {"none", "saved"} => ~Recorded /\ del = "no"
    /\ del # "no" => ~Recorded
    /\ RawFollowsRow

LEMMA RawInit == Init => RawInv
BY FileNames DEF Init, RawInv, RawFollowsRow, Served, Recorded, NoRow, Empty

\* A task at work is past its upload.
LEMMA WorkIsPastUpload ==
    ASSUME NEW t \in Task, Work(t)
    PROVE  stage[t] \notin {"none", "saved"}
<1>1. CASE Dequeue(t) \/ Load(t) \/ StageRaw(t) \/ StagedRaw(t) \/ Check(t) \/ Claim(t) \/ Probe(t)
  BY <1>1 DEF Dequeue, Load, StageRaw, StagedRaw, Check, Claim, Probe
<1>2. CASE GiveUp(t) \/ Transcode(t) \/ Encoded(t) \/ Transcoded(t) \/ Segment(t) \/ SegmentOn(t) \/ Segmented(t)
  BY <1>2 DEF GiveUp, Transcode, Encoded, Transcoded, Segment, SegmentOn, Segmented
<1>3. CASE WriteMaster(t) \/ SetHLSInfo(t) \/ Snap(t) \/ Snapped(t) \/ MarkReady(t)
  BY <1>3 DEF WriteMaster, SetHLSInfo, Snap, Snapped, MarkReady
<1>4. CASE Finish(t) \/ SyncFile(t) \/ SyncDone(t)
  BY <1>4 DEF Finish, SyncFile, SyncDone
<1> QED
  BY <1>1, <1>2, <1>3, <1>4 DEF Work

\* The worker reads the raw file where it is served and never writes or removes it there.
LEMMA WorkKeepsRaw ==
    ASSUME TypeOK, ~Remote => LocalOnly, NEW t \in Task, Work(t)
    PROVE  Served(Raw)' = Served(Raw)
<1>1. CASE ~Remote
  <2>1. disk'[Raw] = disk[Raw]
    BY <1>1, LocalWrites, FileNames, NamesDiffer
  <2> QED
    BY <1>1, <2>1 DEF Served
<1>2. CASE Remote
  <2>1. CASE UNCHANGED store
    BY <1>2, <2>1 DEF Served
  <2>2. CASE SyncFile(t)
    <3> DEFINE i == cursor[t]
    <3>1. i \in 1..NumUploads
      BY <2>2 DEF SyncFile, TypeOK, NumUploads
    <3>2. Upload(i) # Raw
      BY <3>1, NamesDiffer DEF Upload
    <3>3. UNCHANGED store \/ \E s : store' = Put(store, Upload(i), s)
      BY <2>2 DEF SyncFile
    <3>4. store'[Raw] = store[Raw]
      BY <3>2, <3>3, FilesAfter, FileNames DEF TypeOK
    <3> QED
      BY <1>2, <3>4 DEF Served
  <2> QED
    BY <2>1, <2>2
       DEF Work, Dequeue, Load, StageRaw, StagedRaw, Check, Claim, Probe, GiveUp, Transcode,
           Encoded, Transcoded, Segment, SegmentOn, Segmented, WriteMaster, SetHLSInfo, Snap, Snapped,
           MarkReady, Finish, SyncDone, files
<1> QED
  BY <1>1, <1>2

\* The worker does not insert or delete the row.
LEMMA WorkKeepsRow ==
    ASSUME TypeOK, NEW t \in Task, Work(t)
    PROVE  Recorded' = Recorded
BY WorkOnNoRow, WorkOnStatus DEF Recorded

LEMMA RawWork ==
    ASSUME TypeOK, ~Remote => LocalOnly, RawInv, NEW t \in Task, Work(t)
    PROVE  RawInv'
<1>1. Served(Raw)' = Served(Raw) /\ Recorded' = Recorded /\ UNCHANGED del
  BY WorkKeepsRaw, WorkKeepsRow, WorkIsLive
<1>2. \A s \in {"none", "saved"} : stage'[UploadTask] = s <=> stage[UploadTask] = s
  BY WorkIsPastUpload, WorkIsLive, WorksOnOwnStage
<1> QED
  BY <1>1, <1>2 DEF RawInv, RawFollowsRow

LEMMA RawUpload ==
    ASSUME ~StoreFails, TypeOK, RawInv, UploadSave \/ UploadRecord
    PROVE  RawInv'
<1>1. /\ disk \in [File -> FileState] /\ store \in [File -> FileState] /\ Raw \in File
      /\ stage \in [Task -> Stage] /\ UploadTask \in Task
  BY FileNames DEF TypeOK
<1>2. \A s : SetServed(Raw, s) => Served(Raw)' = s
  BY <1>1, FilesAfter DEF SetServed, Served
<1>3. \A s : Goto(UploadTask, s) => stage'[UploadTask] = s
  BY <1>1 DEF Goto
<1>4. ~Recorded /\ del = "no"
  BY DEF UploadSave, UploadRecord, RawInv
<1>5. CASE UploadSave
  <2>1. Served(Raw)' = "complete" /\ stage'[UploadTask] = "saved" /\ ~Recorded' /\ del' = "no"
    BY <1>2, <1>3, <1>4, <1>5 DEF UploadSave, Recorded
  <2> QED
    BY <2>1 DEF RawInv, RawFollowsRow
<1>6. CASE UploadRecord /\ row' = NewVideo /\ Goto(UploadTask, "recorded") /\ UNCHANGED <<disk, store>>
  <2>1. NewVideo.status # "none"
    BY DEF NewVideo, NoRow
  <2>2. Served(Raw) = "complete"
    BY <1>6 DEF UploadRecord, RawInv, RawFollowsRow
  <2>3. Served(Raw)' = "complete" /\ stage'[UploadTask] = "recorded" /\ Recorded' /\ del' = "no"
    BY <1>3, <1>4, <1>6, <2>1, <2>2 DEF UploadRecord, Recorded, Served
  <2> QED
    BY <2>3 DEF RawInv, RawFollowsRow
<1>7. CASE UploadRecord /\ Goto(UploadTask, "dropped") /\ UNCHANGED row /\ SetServed(Raw, "absent")
  <2>1. Served(Raw)' = "absent" /\ stage'[UploadTask] = "dropped" /\ ~Recorded' /\ del' = "no"
    BY <1>2, <1>3, <1>4, <1>7 DEF UploadRecord, Recorded
  <2> QED
    BY <2>1 DEF RawInv, RawFollowsRow
<1> QED
  BY <1>5, <1>6, <1>7 DEF UploadRecord

LEMMA RawDelete ==
    ASSUME "api" \notin Faults, ~StoreFails, TypeOK, RawInv, Delete
    PROVE  RawInv'
<1>1. /\ disk \in [File -> FileState] /\ store \in [File -> FileState] /\ Raw \in File
      /\ UNCHANGED stage
  BY FileNames DEF TypeOK, Delete, DeleteRow, DeleteRaw, DeleteOutputs, DeleteDir, DeleteThumb, DeleteCrash
<1>2. \A gone : DropServed(gone) => Served(Raw)' = IF Raw \in gone THEN "absent" ELSE Served(Raw)
  BY <1>1, FilesAfter DEF DropServed, Served
<1>3. Raw \notin Output /\ Raw # Thumb
  BY NamesDiffer DEF Output
<1>4. CASE DeleteRow
  <2>1. Recorded /\ ~Recorded' /\ del = "no" /\ del' = "raw" /\ Served(Raw)' = Served(Raw)
    BY <1>4 DEF DeleteRow, Recorded, NoRow, Served, files
  <2> QED
    BY <1>1, <2>1 DEF RawInv, RawFollowsRow
<1>5. CASE DeleteRaw
  <2>1. /\ del = "raw" /\ del' = "outputs" /\ Recorded' = Recorded
        /\ Served(Raw)' = "absent"
    BY <1>2, <1>5 DEF DeleteRaw, Recorded
  <2> QED
    BY <1>1, <2>1 DEF RawInv, RawFollowsRow
<1>6. CASE DeleteOutputs \/ DeleteDir \/ DeleteThumb
  <2>1. /\ del \in {"outputs", "dir", "thumb"} /\ del' \in {"dir", "thumb", "done"}
        /\ Recorded' = Recorded /\ Served(Raw)' = Served(Raw)
    <3>1. CASE DeleteOutputs \/ DeleteThumb
      BY <1>2, <1>3, <3>1 DEF DeleteOutputs, DeleteThumb, Recorded
    <3>2. CASE DeleteDir
      BY <3>2 DEF DeleteDir, Recorded, Served
    <3> QED
      BY <1>6, <3>1, <3>2
  <2> QED
    BY <1>1, <2>1 DEF RawInv, RawFollowsRow
<1> QED
  BY <1>4, <1>5, <1>6 DEF Delete, DeleteCrash

LEMMA RawApi ==
    ASSUME "api" \notin Faults, TypeOK, RawInv, NEW t \in Task, Api(t) \/ Interrupt(t)
    PROVE  RawInv'
<1>1. /\ stage \in [Task -> Stage] /\ UploadTask \in Task /\ row \in Row
      /\ \A s : Goto(t, s) => \A u \in Task : stage'[u] = IF u = t THEN s ELSE stage[u]
  BY DEF TypeOK, Goto
<1>2. UNCHANGED <<disk, store, del>>
  BY DEF Api, Enqueue, AdminLoad, AdminReset, ApiCrash, Interrupt, Timeout, Crash, Shutdown, files
<1>3. Recorded' = Recorded
  <2>1. [row EXCEPT !.status = "uploading"].status = "uploading"
    BY <1>1, StatusOf
  <2>2. UNCHANGED row \/ (Recorded /\ row' = [row EXCEPT !.status = "uploading"])
    <3>1. CASE Api(t)
      BY <3>1 DEF Api, Enqueue, AdminLoad, AdminReset, ApiCrash
    <3>2. CASE Interrupt(t)
      BY <3>2 DEF Interrupt, Timeout, Crash, Shutdown
    <3> QED
      BY <3>1, <3>2
  <2> QED
    BY <2>1, <2>2 DEF Recorded
<1>4. \A s \in {"none", "saved"} : stage'[UploadTask] = s <=> stage[UploadTask] = s
  <2>1. CASE Api(t)
    BY <1>1, <2>1 DEF Api, Enqueue, AdminLoad, AdminReset, ApiCrash
  <2>2. CASE Interrupt(t)
    BY <1>1, <2>2 DEF Interrupt, Timeout, Crash, Shutdown, Fail, Running, InWorker, Claimed, Writing
  <2> QED
    BY <2>1, <2>2
<1> QED
  BY <1>2, <1>3, <1>4 DEF RawInv, RawFollowsRow, Served

LEMMA RawNext ==
    ASSUME StoreAnswers, TypeOK, ~Remote => LocalOnly, RawInv, [Next]_vars
    PROVE  RawInv'
<1>1. CASE UNCHANGED vars
  BY <1>1 DEF vars, files, RawInv, RawFollowsRow, Served, Recorded
<1>2. "api" \notin Faults /\ ~StoreFails
  BY DEF StoreAnswers, StoreFails
<1> QED
  BY <1>1, <1>2, RawUpload, RawDelete, RawApi, RawWork DEF Next

LEMMA LocalAlways == ASSUME ~Remote  PROVE Spec => []LocalOnly
<1>1. TypeOK /\ LocalOnly /\ [Next]_vars => LocalOnly'
  BY LocalNext
<1> QED
  BY <1>1, LocalInit, TypeCorrect, PTL DEF Spec

LEMMA RawAlways ==
    ASSUME StoreAnswers
    PROVE  Spec => []RawInv
<1>1. TypeOK /\ (~Remote => LocalOnly) /\ RawInv /\ [Next]_vars => RawInv'
  BY RawNext
<1>2. CASE Remote
  <2>1. TypeOK /\ RawInv /\ [Next]_vars => RawInv'
    BY <1>1, <1>2
  <2> QED
    BY <2>1, RawInit, TypeCorrect, PTL DEF Spec
<1>3. CASE ~Remote
  <2>1. Spec => []LocalOnly
    BY <1>3, LocalAlways
  <2>2. TypeOK /\ LocalOnly /\ RawInv /\ [Next]_vars => RawInv'
    BY <1>1
  <2> QED
    BY <2>1, <2>2, RawInit, TypeCorrect, PTL DEF Spec
<1> QED
  BY <1>2, <1>3

\* With either store, and with any number of attempts, interruptions and retries: the
\* raw file is stored whole as long as the video is recorded, and is left behind neither
\* by an upload whose row could not be inserted nor by a delete, if the calls to the
\* store succeed and the API process lives.  (A client who leaves takes the context of
\* the clean-up along, which the remote store looks at and the local one does not.)
THEOREM NoRawIsOrphaned ==
    ASSUME StoreAnswers
    PROVE  Spec => []RawFollowsRow
<1>1. RawInv => RawFollowsRow
  BY DEF RawInv
<1> QED
  BY <1>1, RawAlways, PTL

-----------------------------------------------------------------------------
(* What RetryVideo can always mend *)

\* The stages of a task on its way to take up a video.
OnItsWay == {"recorded", "reset", "queued", "load", "stage", "staging", "check", "claim"}

UploadingIsPending == row.status = "uploading" => \E t \in Task : stage[t] \in OnItsWay

\* Nothing but ffmpeg, and the worker's own disk, can fail, and clients wait.
Undisturbed ==
    /\ NeverCut
    /\ Faults \cap {"api", "client", "enqueue"} = {}
    /\ Remote => "storage" \notin Faults

\* On its way, a task that finds the video in `uploading` neither fails nor ends.
LEMMA StaysOnItsWay ==
    ASSUME Undisturbed, TypeOK, AllAlive, Remote => RawInv, ~Remote => LocalOnly,
           NEW t \in Task, Work(t), stage[t] \in OnItsWay,
           row.status = "uploading", row'.status = "uploading"
    PROVE  stage'[t] \in OnItsWay
<1>1. /\ row \in Row /\ stage \in [Task -> Stage]
      /\ alive[t] /\ Recorded /\ ~Refused(t) /\ Claimable
  BY DEF TypeOK, AllAlive, Recorded, Refused, Undisturbed, NeverCut, Claimable
<1>2. \A s : Goto(t, s) => stage'[t] = s
  BY <1>1 DEF Goto
<1>3. CASE Dequeue(t) \/ Load(t) \/ Check(t)
  BY <1>1, <1>2, <1>3 DEF Dequeue, Load, Check, OnItsWay
<1>4. CASE StageRaw(t) \/ StagedRaw(t)
  <2>1. Remote
    BY <1>4 DEF StageRaw, StagedRaw, LocalOnly
  <2>2. store[Raw] # "absent" /\ "storage" \notin Faults
    BY <1>1, <2>1 DEF RawInv, RawFollowsRow, Served, Undisturbed
  <2> QED
    BY <1>1, <1>2, <1>4, <2>2 DEF StageRaw, StagedRaw, OnItsWay
<1>5. ~Claim(t)
  <2>1. [row EXCEPT !.status = "processing"].status = "processing"
    BY <1>1, StatusOf
  <2> QED
    BY <1>1, <2>1 DEF Claim
<1> QED
  BY <1>3, <1>4, <1>5
     DEF Work, OnItsWay, Probe, GiveUp, Transcode, Encoded, Transcoded, Segment, SegmentOn, Segmented,
         WriteMaster, SetHLSInfo, Snap, Snapped, MarkReady, Finish, SyncFile, SyncDone

LEMMA PendingNext ==
    ASSUME Undisturbed, TypeOK, AllAlive, Remote => RawInv, ~Remote => LocalOnly,
           UploadingIsPending, [Next]_vars
    PROVE  UploadingIsPending'
<1> SUFFICES ASSUME row'.status = "uploading"
             PROVE  \E u \in Task : stage'[u] \in OnItsWay
  BY DEF UploadingIsPending
<1>1. /\ row \in Row /\ stage \in [Task -> Stage] /\ UploadTask \in Task
      /\ \A s, t : Goto(t, s) => \A u \in Task : stage'[u] = IF u = t THEN s ELSE stage[u]
  BY DEF TypeOK, Goto
<1>2. CASE UNCHANGED <<row, stage>>
  BY <1>2 DEF UploadingIsPending
<1>3. CASE UNCHANGED vars
  BY <1>2, <1>3 DEF vars
<1>4. CASE UploadSave \/ UploadRecord
  <2>1. CASE UNCHANGED row
    <3>1. PICK u \in Task : stage[u] \in OnItsWay
      BY <2>1 DEF UploadingIsPending
    <3>2. stage'[u] = stage[u]
      BY <1>1, <1>4, <3>1 DEF UploadSave, UploadRecord, OnItsWay
    <3> QED
      BY <3>1, <3>2
  <2>2. CASE Goto(UploadTask, "recorded")
    BY <1>1, <2>2 DEF OnItsWay
  <2> QED
    BY <1>4, <2>1, <2>2 DEF UploadSave, UploadRecord
<1>5. CASE Delete
  BY <1>2, <1>5 DEF Delete, DeleteRow, DeleteRaw, DeleteOutputs, DeleteDir, DeleteThumb, DeleteCrash, NoRow
<1>6. ASSUME NEW t \in Task, Api(t)
      PROVE  \E u \in Task : stage'[u] \in OnItsWay
  <2>1. CASE Goto(t, "queued") \/ Goto(t, "reset")
    BY <1>1, <2>1 DEF OnItsWay
  <2>2. CASE UNCHANGED row /\ stage[t] \notin OnItsWay
    <3>1. PICK u \in Task : stage[u] \in OnItsWay
      BY <2>2 DEF UploadingIsPending
    <3>2. stage'[u] = stage[u]
      BY <1>1, <1>6, <2>2, <3>1 DEF Api, Enqueue, AdminLoad, AdminReset, ApiCrash
    <3> QED
      BY <3>1, <3>2
  <2>3. "api" \notin Faults /\ ~CallFails("enqueue")
    BY DEF Undisturbed, CallFails
  <2> QED
    BY <1>6, <2>1, <2>2, <2>3 DEF Api, Enqueue, AdminLoad, AdminReset, ApiCrash, OnItsWay
<1>7. ASSUME NEW t \in Task, Interrupt(t)
      PROVE  \E u \in Task : stage'[u] \in OnItsWay
  BY <1>7 DEF Interrupt, Timeout, Crash, Shutdown, Undisturbed, NeverCut
<1>8. ASSUME NEW t \in Task, Work(t)
      PROVE  \E u \in Task : stage'[u] \in OnItsWay
  <2>1. row.status = "uploading"
    BY <1>8, WorkOnStatus
  <2>2. PICK u \in Task : stage[u] \in OnItsWay
    BY <2>1 DEF UploadingIsPending
  <2>3. CASE u = t
    BY <1>8, <2>1, <2>2, <2>3, StaysOnItsWay
  <2>4. CASE u # t
    <3>1. stage'[u] = stage[u]
      BY <1>8, <2>4, WorksOnOwnStage
    <3> QED
      BY <2>2, <3>1
  <2> QED
    BY <2>3, <2>4
<1> QED
  BY <1>3, <1>4, <1>5, <1>6, <1>7, <1>8 DEF Next

\* UnqueuedIsRetryable, which a queue that is down breaks: if every call that takes a
\* video to a worker succeeds and no attempt is cut short, a video without a task is
\* ready or one that RetryVideo accepts, although asynq gives tasks up, ffmpeg fails, and
\* several retries and attempts overlap.
THEOREM IdleIsRetryable ==
    ASSUME Undisturbed
    PROVE  Spec => []UnqueuedIsRetryable
<1>1. NeverCut
  BY DEF Undisturbed
<1>2. Init => AllAlive /\ UploadingIsPending
  BY DEF Init, AllAlive, UploadingIsPending, NoRow
<1>3. TypeOK /\ AllAlive /\ [Next]_vars => AllAlive'
  BY <1>1, AliveNext
<1>4. TypeOK /\ AllAlive /\ (Remote => RawInv) /\ (~Remote => LocalOnly) /\ UploadingIsPending
        /\ [Next]_vars => UploadingIsPending'
  BY PendingNext
<1>5. Spec => []AllAlive
  BY <1>2, <1>3, TypeCorrect, PTL DEF Spec
<1>6. Spec => []UploadingIsPending
  <2>1. CASE Remote
    <3>1. StoreAnswers
      BY <2>1 DEF Undisturbed, StoreAnswers
    <3>2. Spec => []RawInv
      BY <3>1, RawAlways
    <3>3. TypeOK /\ AllAlive /\ RawInv /\ UploadingIsPending /\ [Next]_vars => UploadingIsPending'
      BY <1>4, <2>1
    <3> QED
      BY <1>2, <1>5, <3>2, <3>3, TypeCorrect, PTL DEF Spec
  <2>2. CASE ~Remote
    <3>1. Spec => []LocalOnly
      BY <2>2, LocalAlways
    <3>2. TypeOK /\ AllAlive /\ LocalOnly /\ UploadingIsPending /\ [Next]_vars => UploadingIsPending'
      BY <1>4, <2>2
    <3> QED
      BY <1>2, <1>5, <3>1, <3>2, TypeCorrect, PTL DEF Spec
  <2> QED
    BY <2>1, <2>2
<1>7. TypeOK /\ NothingStranded /\ UploadingIsPending => UnqueuedIsRetryable
  <2> SUFFICES ASSUME TypeOK, NothingStranded, UploadingIsPending, Recorded,
                      \A t \in Task : ~Live(t)
               PROVE  row.status \in {"failed", "ready"}
    BY DEF UnqueuedIsRetryable
  <2>1. row.status # "processing"
    BY DEF NothingStranded
  <2>2. row.status # "uploading"
    BY DEF UploadingIsPending, OnItsWay, Live, Ended
  <2> QED
    BY <2>1, <2>2 DEF TypeOK, Row, Recorded
<1>8. Spec => []NothingStranded
  BY <1>1, ProcessingMovesOn
<1> QED
  BY <1>6, <1>7, <1>8, TypeCorrect, PTL

=============================================================================
