------------------------- MODULE VideoPipelineProofs -------------------------
(***************************************************************************)
(* Theorems about VideoPipeline, for every ladder, every set of tasks and  *)
(* every number of retries.                                                *)
(***************************************************************************)
EXTENDS VideoPipeline, TLAPS

USE ParamAssumption

-----------------------------------------------------------------------------
(* The operators the actions are built from *)

\* Every file the pipeline names is one of File, and Upload enumerates some.
LEMMA FileNames ==
    /\ Raw \in File /\ Thumb \in File /\ Master \in File
    /\ \A q \in Quality : Mp4(q) \in File /\ Hls(q) \in File
    /\ Output \subseteq File
    /\ \A i \in 1..NumUploads : Upload(i) \in File
<1>1. Raw \in File /\ Thumb \in File /\ Master \in File
  BY DEF File, Output
<1>2. \A q \in Quality : Mp4(q) \in File /\ Hls(q) \in File
  BY DEF File, Output
<1>3. Output \subseteq File
  BY DEF File
<1>4. \A i \in 1..NumUploads : Upload(i) \in File
  <2> TAKE i \in 1..NumUploads
  <2>1. CASE i <= NumQualities
    BY <2>1, <1>2 DEF Upload, Quality
  <2>2. CASE i > NumQualities /\ i <= 2 * NumQualities
    <3>1. i - NumQualities \in Quality
      BY <2>2 DEF Quality
    <3> QED
      BY <2>2, <3>1, <1>2 DEF Upload
  <2>3. CASE i > 2 * NumQualities
    BY <2>3, <1>1 DEF Upload
  <2> QED
    BY <2>1, <2>2, <2>3 DEF NumUploads
<1> QED
  BY <1>1, <1>2, <1>3, <1>4

\* A reported percentage is a natural number.
LEMMA ProgressType ==
    ASSUME NEW i \in Nat
    PROVE  Progress(i) \in Nat
<1>1. i * 100 \in Nat /\ NumQualities + 2 \in Nat \ {0}
  OBVIOUS
<1>2. \A a \in Nat, b \in Nat \ {0} : a \div b \in Nat
  OBVIOUS
<1> QED
  BY <1>1, <1>2 DEF Progress

\* Writing and removing files keeps a directory a directory.
LEMMA FilesType ==
    ASSUME NEW d \in [File -> FileState]
    PROVE  /\ \A f \in File, s \in FileState : Put(d, f, s) \in [File -> FileState]
           /\ \A gone : Without(d, gone) \in [File -> FileState]
BY DEF Put, Without, FileState

LEMMA EmptyType == Empty \in [File -> FileState]
BY DEF Empty, FileState

LEMMA ProductType == \A f : Product(f) \in FileState
BY DEF Product, FileState

\* The end of an attempt is well typed.
LEMMA SegmentsType == \A t : Segments(t) \subseteq FileState
BY ProductType DEF Segments, FileState

LEMMA FailType ==
    ASSUME NEW t \in Task, Fail(t),
           stage \in [Task -> Stage], tries \in [Task -> 0..MaxRetry]
    PROVE  stage' \in [Task -> Stage] /\ tries' \in [Task -> 0..MaxRetry]
BY DEF Fail, Goto, Stage, Ended

LEMMA GotoType ==
    ASSUME NEW t \in Task, NEW s \in Stage, Goto(t, s), stage \in [Task -> Stage]
    PROVE  stage' \in [Task -> Stage]
BY DEF Goto

\* A row with one column changed is a row.
LEMMA RowType ==
    /\ NoRow \in Row /\ NewVideo \in Row
    /\ \A r \in Row :
        /\ \A s \in {"none", "uploading", "processing", "ready", "failed"} :
              [r EXCEPT !.status = s] \in Row
        /\ \A p \in Nat : [r EXCEPT !.progress = p] \in Row
        /\ [r EXCEPT !.hls = TRUE] \in Row
        /\ \A A \in SUBSET Quality, p \in BOOLEAN :
              [r EXCEPT !.status = "ready", !.avail = A,
                        !.thumb = p, !.progress = 100] \in Row
BY DEF Row, NoRow, NewVideo

LEMMA UpdateType ==
    ASSUME NEW t \in Task, NEW new \in Row, TryUpdate(t, new), row \in Row
    PROVE  row' \in Row
BY DEF TryUpdate

-----------------------------------------------------------------------------
(* Type correctness *)

\* ffmpeg only ever works on a rung of the ladder.
InLadder ==
    \A t \in Task : stage[t] \in {"encoding", "segmenting", "leftover"} => cursor[t] \in Quality

LEMMA TypeInit == Init => TypeOK /\ InLadder
<1> SUFFICES ASSUME Init
             PROVE  TypeOK /\ InLadder
  OBVIOUS
<1>1. row \in Row
  BY RowType DEF Init
<1>2. disk \in [File -> FileState] /\ store \in [File -> FileState]
  BY EmptyType DEF Init
<1>3. stage \in [Task -> Stage]
  BY DEF Init, Stage
<1>4. cursor \in [Task -> Nat \ {0}]
  BY DEF Init
<1>5. tries \in [Task -> 0..MaxRetry]
  BY DEF Init
<1>6. made \in [Task -> SUBSET Quality] /\ cut \in [Task -> SUBSET Quality]
  BY DEF Init
<1>7. alive \in [Task -> BOOLEAN] /\ poster \in [Task -> BOOLEAN]
  BY DEF Init
<1>8. TypeOK
  BY <1>1, <1>2, <1>3, <1>4, <1>5, <1>6, <1>7 DEF Init, TypeOK
<1> QED
  BY <1>8 DEF Init, InLadder

LEMMA TypeNext == TypeOK /\ InLadder /\ [Next]_vars => TypeOK'
<1> SUFFICES ASSUME TypeOK, InLadder, [Next]_vars
             PROVE  TypeOK'
  OBVIOUS
<1> USE DEF TypeOK, attempt, files
<1>a. /\ \A f \in File, s \in FileState :
            Put(disk, f, s) \in [File -> FileState] /\ Put(store, f, s) \in [File -> FileState]
      /\ \A gone : Without(disk, gone) \in [File -> FileState]
                  /\ Without(store, gone) \in [File -> FileState]
      /\ {"absent", "partial", "complete"} \subseteq FileState
  BY FilesType DEF FileState
<1>b. Raw \in File /\ Master \in File /\ Thumb \in File
  BY FileNames
<1>c. /\ height \in 0..NumQualities
      /\ \A i \in Quality : i \in Nat \ {0} /\ i + 1 \in Nat \ {0} /\ i - 1 \in Nat
      /\ \A i \in Nat \ {0} : i + 1 \in Nat \ {0} /\ (i <= height => i \in Quality)
                           /\ (i <= NumUploads => i \in 1..NumUploads)
      /\ 1 \in Nat \ {0}
  BY DEF Quality, NumUploads
<1> USE <1>b
<1>1. CASE UNCHANGED vars
  BY <1>1 DEF vars
<1>2. CASE UploadSave
  BY <1>2, GotoType, <1>a DEF UploadSave, SetServed, Stage, InApi, Ended
<1>3. CASE UploadRecord
  <2>1. row' \in Row
    BY <1>3, RowType DEF UploadRecord
  <2>2. disk' \in [File -> FileState] /\ store' \in [File -> FileState]
    BY <1>3, <1>a DEF UploadRecord, SetServed
  <2>3. stage' \in [Task -> Stage]
    BY <1>3, GotoType DEF UploadRecord, Stage, InApi, Ended
  <2> QED
    BY <1>3, <2>1, <2>2, <2>3 DEF UploadRecord
<1>4. CASE Delete
  <2>1. CASE DeleteRow
    BY <2>1, RowType DEF DeleteRow
  <2>2. CASE DeleteRaw
    BY <2>2, <1>a DEF DeleteRaw, DropServed
  <2>3. CASE DeleteOutputs
    BY <2>3, <1>a DEF DeleteOutputs, DropServed
  <2>4. CASE DeleteThumb
    BY <2>4, <1>a DEF DeleteThumb, DropServed
  <2>5. CASE DeleteCrash
    BY <2>5 DEF DeleteCrash
  <2>6. CASE DeleteDir
    BY <2>6 DEF DeleteDir
  <2> QED
    BY <1>4, <2>1, <2>2, <2>3, <2>4, <2>5, <2>6 DEF Delete
<1>5. ASSUME NEW t \in Task, Api(t)
      PROVE  TypeOK'
  <2>1. CASE Enqueue(t)
    BY <2>1, GotoType DEF Enqueue, Stage, Ended
  <2>2. CASE AdminLoad(t)
    BY <2>2, GotoType DEF AdminLoad, Stage, InApi
  <2>3. CASE AdminReset(t)
    BY <2>3, GotoType, RowType DEF AdminReset, Stage, InApi, Ended
  <2>4. CASE ApiCrash(t)
    BY <2>4, GotoType DEF ApiCrash, Stage, Ended
  <2> QED
    BY <1>5, <2>1, <2>2, <2>3, <2>4 DEF Api
<1>6. ASSUME NEW t \in Task, Work(t)
      PROVE  TypeOK'
  <2> USE <1>6
  <2>b. Fail(t) => stage' \in [Task -> Stage] /\ tries' \in [Task -> 0..MaxRetry]
    BY FailType
  <2>c. InWorker \subseteq Stage /\ Ended \subseteq Stage /\ InApi \subseteq Stage
    BY DEF Stage
  <2>1. CASE Dequeue(t)
    BY <2>1, GotoType, <2>c DEF Dequeue, InWorker
  <2>2. CASE Load(t)
    BY <2>2, <2>b, GotoType, <2>c DEF Load, InWorker
  <2>3. CASE StageRaw(t)
    BY <2>3, <2>b, GotoType, <2>c, <1>a DEF StageRaw, InWorker
  <2>4. CASE StagedRaw(t)
    BY <2>4, <2>b, GotoType, <2>c, <1>a DEF StagedRaw, InWorker
  <2>5. CASE Check(t)
    BY <2>5, <2>b, GotoType, <2>c DEF Check, InWorker
  <2>6. CASE Claim(t)
    BY <2>6, <2>b, GotoType, <2>c, RowType DEF Claim, InWorker, Claimed
  <2>7. CASE Probe(t)
    BY <2>7, GotoType, <2>c DEF Probe, InWorker, Claimed, Writing
  <2>8. CASE GiveUp(t)
    <3>1. [row EXCEPT !.status = "failed"] \in Row
      BY RowType
    <3> QED
      BY <2>8, <2>b, <3>1, UpdateType DEF GiveUp
  <2>9. CASE Transcode(t)
    <3>1. cursor[t] \in Quality /\ cursor[t] + 1 \in Nat \ {0} /\ cursor[t] - 1 \in Nat
      BY <2>9, <1>c DEF Transcode
    <3>a. Put(disk, Mp4(cursor[t]), "partial") \in [File -> FileState]
      BY <3>1, <1>a, FileNames
    <3>b. Progress(cursor[t] - 1) \in Nat
      BY <3>1, ProgressType
    <3>2. [row EXCEPT !.progress = Progress(cursor[t] - 1)] \in Row
      BY <3>b, RowType
    <3>3. row' \in Row
      BY <2>9, <3>2, UpdateType DEF Transcode
    <3>4. disk' \in [File -> FileState]
      BY <2>9, <3>a DEF Transcode
    <3>5. cursor' \in [Task -> Nat \ {0}]
      BY <2>9, <3>1 DEF Transcode, Advance
    <3>6. stage' \in [Task -> Stage]
      BY <2>9, GotoType, <2>c DEF Transcode, InWorker, Claimed, Writing
    <3> QED
      BY <2>9, <3>3, <3>4, <3>5, <3>6 DEF Transcode
  <2>10. CASE Encoded(t)
    <3>1. cursor[t] \in Quality
      BY <2>10 DEF Encoded, InLadder
    <3>a. Mp4(cursor[t]) \in File /\ cursor[t] + 1 \in Nat \ {0}
      BY <3>1, <1>c, FileNames
    <3>b. \A s \in FileState : Put(disk, Mp4(cursor[t]), s) \in [File -> FileState]
      BY <3>a, <1>a
    <3>2. disk' \in [File -> FileState]
      <4>1. PICK s \in FileState :
              disk' = disk \/ disk' = Put(disk, Mp4(cursor[t]), s)
        BY <2>10, <1>a, ProductType DEF Encoded
      <4> QED
        BY <4>1, <3>b
    <3>3. made' \in [Task -> SUBSET Quality]
      BY <2>10, <3>1 DEF Encoded
    <3>4. cursor' \in [Task -> Nat \ {0}]
      BY <2>10, <3>a DEF Encoded, Advance
    <3>5. stage' \in [Task -> Stage]
      BY <2>10, GotoType, <2>c DEF Encoded, InWorker, Claimed, Writing
    <3> QED
      BY <2>10, <3>2, <3>3, <3>4, <3>5 DEF Encoded
  <2>11. CASE Transcoded(t)
    <3>1. [row EXCEPT !.progress = Progress(NumQualities)] \in Row
      BY ProgressType, RowType
    <3>2. row' \in Row
      BY <2>11, <3>1, UpdateType DEF Transcoded
    <3>3. stage' \in [Task -> Stage]
      BY <2>11, GotoType, <2>c DEF Transcoded, InWorker, Claimed, Writing
    <3>4. cursor' \in [Task -> Nat \ {0}]
      BY <2>11 DEF Transcoded, Advance
    <3> QED
      BY <2>11, <3>2, <3>3, <3>4 DEF Transcoded
  <2>12. CASE Segment(t)
    <3>1. PICK q \in made[t] :
            /\ \/ /\ disk' = Put(disk, Hls(q), "partial")
                  /\ Goto(t, "segmenting")
                  /\ Advance(t, q)
               \/ /\ Advance(t, q + 1)
                  /\ UNCHANGED <<disk, stage>>
            /\ outDir' = TRUE
      BY <2>12 DEF Segment
    <3>2. q \in Quality /\ q \in Nat \ {0} /\ q + 1 \in Nat \ {0}
      BY <1>c
    <3>a. Put(disk, Hls(q), "partial") \in [File -> FileState]
      BY <3>2, <1>a, FileNames
    <3>3. disk' \in [File -> FileState]
      BY <3>1, <3>a
    <3>4. cursor' \in [Task -> Nat \ {0}]
      BY <3>1, <3>2 DEF Advance
    <3>5. stage' \in [Task -> Stage]
      BY <3>1, GotoType, <2>c DEF InWorker, Claimed, Writing
    <3> QED
      BY <2>12, <3>1, <3>3, <3>4, <3>5 DEF Segment
  <2>13. CASE Segmented(t)
    <3>1. cursor[t] \in Quality
      BY <2>13 DEF SegmentOn, Segmented, InLadder
    <3>a. Hls(cursor[t]) \in File /\ cursor[t] + 1 \in Nat \ {0}
      BY <3>1, <1>c, FileNames
    <3>b. \A s \in FileState : Put(disk, Hls(cursor[t]), s) \in [File -> FileState]
      BY <3>a, <1>a
    <3>2. disk' \in [File -> FileState]
      <4>1. PICK s \in FileState :
              disk' = disk \/ disk' = Put(disk, Hls(cursor[t]), s)
        BY <2>13, SegmentsType DEF Segmented
      <4> QED
        BY <4>1, <3>b
    <3>3. cut' \in [Task -> SUBSET Quality]
      BY <2>13, <3>1 DEF Segmented
    <3>4. cursor' \in [Task -> Nat \ {0}]
      BY <2>13, <3>a DEF SegmentOn, Segmented, Advance
    <3>5. stage' \in [Task -> Stage]
      BY <2>13, GotoType, <2>c DEF SegmentOn, Segmented, InWorker, Claimed, Writing
    <3> QED
      BY <2>13, <3>2, <3>3, <3>4, <3>5 DEF Segmented
  <2>14. CASE WriteMaster(t)
    <3>1. stage' \in [Task -> Stage]
      BY <2>14, GotoType, <2>c DEF WriteMaster, InWorker, Claimed, Writing
    <3> QED
      BY <2>14, <3>1, <1>a DEF WriteMaster
  <2>15. CASE SetHLSInfo(t)
    <3>1. [row EXCEPT !.hls = TRUE] \in Row
      BY RowType
    <3>2. stage' \in [Task -> Stage]
      BY <2>15, GotoType, <2>c DEF SetHLSInfo, InWorker, Claimed, Writing
    <3> QED
      BY <2>15, <3>1, <3>2, UpdateType DEF SetHLSInfo
  <2>16. CASE Snap(t)
    <3>1. [row EXCEPT !.progress = Progress(NumQualities + 1)] \in Row
      <4>1. NumQualities + 1 \in Nat
        OBVIOUS
      <4>2. Progress(NumQualities + 1) \in Nat
        BY <4>1, ProgressType
      <4> QED
        BY <4>2, RowType
    <3>2. row' \in Row
      BY <2>16, <3>1, UpdateType DEF Snap
    <3>3. stage' \in [Task -> Stage]
      BY <2>16, GotoType, <2>c DEF Snap, InWorker, Claimed, Writing
    <3> QED
      BY <2>16, <3>2, <3>3 DEF Snap
  <2>17. CASE Snapped(t)
    <3>1. stage' \in [Task -> Stage]
      BY <2>17, GotoType, <2>c DEF Snapped, InWorker, Claimed, Writing
    <3>2. disk' \in [File -> FileState]
      <4>1. Put(disk, Thumb, "complete") \in [File -> FileState]
        BY <1>a
      <4> QED
        BY <2>17, <4>1 DEF Snapped
    <3>3. poster' \in [Task -> BOOLEAN]
      BY <2>17 DEF Snapped
    <3> QED
      BY <2>17, <3>1, <3>2, <3>3 DEF Snapped
  <2>18. CASE MarkReady(t)
    <3>1. row' \in Row
      <4>1. made[t] \in SUBSET Quality /\ poster[t] \in BOOLEAN
        OBVIOUS
      <4>2. [row EXCEPT !.status = "ready", !.avail = made[t],
                        !.thumb = poster[t], !.progress = 100] \in Row
        BY <4>1, RowType
      <4> QED
        BY <2>18, <4>2 DEF MarkReady
    <3>2. stage' \in [Task -> Stage] /\ tries' \in [Task -> 0..MaxRetry]
      BY <2>18, <2>b, GotoType, <2>c DEF MarkReady, InWorker
    <3> QED
      BY <2>18, <3>1, <3>2 DEF MarkReady
  <2>19. CASE Finish(t)
    <3>1. [row EXCEPT !.progress = 100] \in Row
      BY RowType
    <3>2. row' \in Row
      BY <2>19, <3>1, UpdateType DEF Finish
    <3>3. stage' \in [Task -> Stage]
      BY <2>19, GotoType, <2>c DEF Finish, InWorker, Ended
    <3>4. cursor' \in [Task -> Nat \ {0}]
      BY <2>19 DEF Finish, Advance
    <3> QED
      BY <2>19, <3>2, <3>3, <3>4 DEF Finish
  <2>20. CASE SyncFile(t)
    <3>a. cursor[t] \in 1..NumUploads /\ cursor[t] + 1 \in Nat \ {0}
      BY <2>20, <1>c DEF SyncFile
    <3>b. Upload(cursor[t]) \in File
      BY <3>a, FileNames
    <3>c. disk[Upload(cursor[t])] \in FileState
      BY <3>b
    <3>d. Put(store, Upload(cursor[t]), disk[Upload(cursor[t])]) \in [File -> FileState]
      BY <3>b, <3>c, <1>a
    <3>1. store' \in [File -> FileState]
      BY <2>20, <3>d DEF SyncFile
    <3>2. stage' \in [Task -> Stage] /\ tries' \in [Task -> 0..MaxRetry]
      BY <2>20, <2>b DEF SyncFile
    <3>3. cursor' \in [Task -> Nat \ {0}]
      BY <2>20, <3>a DEF SyncFile, Advance
    <3> QED
      BY <2>20, <3>1, <3>2, <3>3 DEF SyncFile
  <2>21. CASE SyncDone(t)
    <3>1. stage' \in [Task -> Stage]
      BY <2>21, GotoType, <2>c DEF SyncDone, Ended
    <3>2. disk' \in [File -> FileState]
      BY <2>21, <1>a DEF SyncDone
    <3>3. outDir' \in BOOLEAN
      BY <2>21 DEF SyncDone
    <3> QED
      BY <2>21, <3>1, <3>2, <3>3 DEF SyncDone
  <2>22. CASE SegmentOn(t)
    <3>1. cursor[t] \in Quality
      BY <2>22 DEF SegmentOn, InLadder
    <3>2. Put(disk, Hls(cursor[t]), "partial") \in [File -> FileState]
      BY <3>1, <1>a, FileNames
    <3>3. stage' \in [Task -> Stage]
      BY <2>22, GotoType, <2>c DEF SegmentOn, InWorker, Claimed, Writing
    <3> QED
      BY <2>22, <3>2, <3>3 DEF SegmentOn
  <2> QED
    BY <2>1, <2>2, <2>3, <2>4, <2>5, <2>6, <2>7, <2>8, <2>9, <2>10, <2>11, <2>12,
       <2>13, <2>14, <2>15, <2>16, <2>17, <2>18, <2>19, <2>20, <2>21, <2>22 DEF Work
<1>7. ASSUME NEW t \in Task, Interrupt(t)
      PROVE  TypeOK'
  <2>1. CASE Timeout(t)
    BY <2>1 DEF Timeout
  <2>2. CASE Crash(t)
    BY <2>2, FailType DEF Crash
  <2>3. CASE Shutdown(t)
    BY <2>3, GotoType DEF Shutdown, Stage
  <2> QED
    BY <1>7, <2>1, <2>2, <2>3 DEF Interrupt
<1> QED
  BY <1>1, <1>2, <1>3, <1>4, <1>5, <1>6, <1>7 DEF Next

\* A task that is not sent to ffmpeg needs no rung, and the others keep theirs.
LEMMA LadderFrame ==
    ASSUME TypeOK, InLadder, NEW t \in Task,
           \A u \in Task \ {t} : stage'[u] = stage[u] /\ cursor'[u] = cursor[u],
           stage'[t] \in {"encoding", "segmenting", "leftover"} => cursor'[t] \in Quality
    PROVE  InLadder'
BY DEF InLadder

LEMMA LadderNext == TypeOK /\ InLadder /\ [Next]_vars => InLadder'
<1> SUFFICES ASSUME TypeOK, InLadder, [Next]_vars
             PROVE  InLadder'
  OBVIOUS
<1>1. stage \in [Task -> Stage] /\ cursor \in [Task -> Nat \ {0}]
  BY DEF TypeOK
<1>2. \A s, t : Goto(t, s) =>
        \A u \in Task : stage'[u] = IF u = t THEN s ELSE stage[u]
  BY <1>1 DEF Goto
<1>3. \A i, t : Advance(t, i) =>
        \A u \in Task : cursor'[u] = IF u = t THEN i ELSE cursor[u]
  BY <1>1 DEF Advance
<1>4. CASE UNCHANGED <<stage, cursor>>
  BY <1>4 DEF InLadder
<1>5. CASE UNCHANGED vars
  BY <1>4, <1>5 DEF vars, attempt
<1>6. CASE Delete
  BY <1>4, <1>6 DEF Delete, DeleteRow, DeleteRaw, DeleteOutputs, DeleteDir, DeleteThumb,
                    DeleteCrash, attempt
<1>7. CASE UploadSave
  BY <1>1, <1>2, <1>7, LadderFrame, ParamAssumption DEF UploadSave, attempt
<1>8. CASE UploadRecord
  BY <1>1, <1>2, <1>8, LadderFrame, ParamAssumption DEF UploadRecord, attempt
<1>9. ASSUME NEW t \in Task, Api(t)
      PROVE  InLadder'
  BY <1>1, <1>2, <1>9, LadderFrame
     DEF Api, Enqueue, AdminLoad, AdminReset, ApiCrash, attempt
<1>10. ASSUME NEW t \in Task, Interrupt(t)
       PROVE  InLadder'
  BY <1>1, <1>2, <1>4, <1>10, LadderFrame
     DEF Interrupt, Timeout, Crash, Shutdown, Fail, attempt
<1>11. ASSUME NEW t \in Task, Work(t)
       PROVE  InLadder'
  <2> USE <1>1, <1>2, <1>3, LadderFrame DEF attempt, Fail
  <2>1. CASE Dequeue(t)
    BY <2>1 DEF Dequeue
  <2>2. CASE Load(t) \/ StageRaw(t) \/ StagedRaw(t) \/ Check(t) \/ Claim(t)
    BY <2>2 DEF Load, StageRaw, StagedRaw, Check, Claim
  <2>3. CASE Probe(t) \/ GiveUp(t)
    BY <2>3 DEF Probe, GiveUp
  <2>4. CASE Transcode(t)
    <3>1. cursor[t] \in Quality
      BY <2>4 DEF Transcode, TypeOK, Quality
    <3>2. CASE UNCHANGED stage /\ Advance(t, cursor[t] + 1)
      BY <2>4, <3>2 DEF Transcode, InLadder
    <3>3. CASE Goto(t, "encoding") /\ UNCHANGED cursor
      BY <3>1, <3>3
    <3> QED
      BY <2>4, <3>2, <3>3 DEF Transcode
  <2>5. CASE Encoded(t) \/ Transcoded(t)
    BY <2>5 DEF Encoded, Transcoded
  <2>6. CASE Segment(t)
    <3>1. PICK q \in made[t] :
            \/ Goto(t, "segmenting") /\ Advance(t, q)
            \/ Advance(t, q + 1) /\ UNCHANGED stage
      BY <2>6 DEF Segment
    <3>2. q \in Quality
      BY DEF TypeOK
    <3>3. stage[t] = "hls"
      BY <2>6 DEF Segment
    <3> QED
      BY <3>1, <3>2, <3>3
  <2>7. CASE Segmented(t) \/ WriteMaster(t) \/ SetHLSInfo(t) \/ Snap(t) \/ Snapped(t)
    BY <2>7 DEF Segmented, WriteMaster, SetHLSInfo, Snap, Snapped
  <2>8. CASE MarkReady(t) \/ Finish(t)
    BY <2>8 DEF MarkReady, Finish
  <2>9. CASE SyncFile(t) \/ SyncDone(t)
    BY <2>9 DEF SyncFile, SyncDone
  <2>10. CASE SegmentOn(t)
    BY <2>10 DEF SegmentOn, InLadder, attempt
  <2> QED
    BY <1>11, <2>1, <2>2, <2>3, <2>4, <2>5, <2>6, <2>7, <2>8, <2>9, <2>10 DEF Work
<1> QED
  BY <1>5, <1>6, <1>7, <1>8, <1>9, <1>10, <1>11 DEF Next

\* Whatever the faults and the schedule, rows, files and tasks keep their types:
\* no attempt ever works beside the ladder or outlives asynq's retries.
THEOREM TypeCorrect == Spec => []TypeOK
<1>1. Init => TypeOK /\ InLadder
  BY TypeInit
<1>2. (TypeOK /\ InLadder) /\ [Next]_vars => (TypeOK /\ InLadder)'
  BY TypeNext, LadderNext
<1> QED
  BY <1>1, <1>2, PTL DEF Spec

-----------------------------------------------------------------------------
(* Ownership of a video in `processing` *)

\* No attempt is cut short and no statement on the row fails.
NeverCut == Faults \cap {"crash", "db", "shutdown", "timeout"} = {}

AllAlive == \A t \in Task : alive[t]

LEMMA AliveNext ==
    ASSUME NeverCut, TypeOK, AllAlive, [Next]_vars
    PROVE  AllAlive'
<1>1. CASE UNCHANGED alive
  BY <1>1 DEF AllAlive
<1>2. CASE UNCHANGED vars
  BY <1>1, <1>2 DEF vars, attempt
<1>3. CASE UploadSave \/ UploadRecord \/ Delete
  BY <1>1, <1>3 DEF UploadSave, UploadRecord, Delete, DeleteRow, DeleteRaw,
                    DeleteOutputs, DeleteDir, DeleteThumb, DeleteCrash, attempt
<1>4. ASSUME NEW t \in Task, Api(t) \/ Interrupt(t)
      PROVE  AllAlive'
  BY <1>1, <1>4 DEF Api, Enqueue, AdminLoad, AdminReset, ApiCrash,
                    Interrupt, Timeout, Crash, Shutdown, NeverCut, attempt
<1>5. ASSUME NEW t \in Task, Work(t)
      PROVE  AllAlive'
  <2>1. CASE Dequeue(t)
    BY <2>1 DEF Dequeue, AllAlive, TypeOK
  <2>2. CASE UNCHANGED alive
    BY <2>2, <1>1
  <2> QED
    BY <1>5, <2>1, <2>2
       DEF Work, Load, StageRaw, StagedRaw, Check, Claim, Probe, GiveUp, Transcode,
           Encoded, Transcoded, Segment, SegmentOn, Segmented, WriteMaster, SetHLSInfo, Snap,
           Snapped, MarkReady, Finish, SyncFile, SyncDone, attempt
<1> QED
  BY <1>2, <1>3, <1>4, <1>5 DEF Next

\* What the updates do to the status column.
LEMMA StatusOf ==
    ASSUME NEW r \in Row
    PROVE  /\ \A s : [r EXCEPT !.status = s].status = s
           /\ \A p : [r EXCEPT !.progress = p].status = r.status
           /\ [r EXCEPT !.hls = TRUE].status = r.status
           /\ \A A, p : [r EXCEPT !.status = "ready", !.avail = A,
                                  !.thumb = p, !.progress = 100].status = "ready"
BY DEF Row

LEMMA TryStatus ==
    ASSUME NEW t \in Task, NEW new, TryUpdate(t, new)
    PROVE  row'.status \in {row.status, new.status}
BY DEF TryUpdate

\* The worker changes the status in three ways, whatever the status is by then.
LEMMA WorkOnStatus ==
    ASSUME TypeOK, NEW t \in Task, Work(t)
    PROVE  \/ row'.status = row.status
           \/ Claim(t) /\ row'.status = "processing"
           \/ GiveUp(t) /\ row'.status = "failed"
           \/ MarkReady(t) /\ row'.status = "ready"
<1>1. row \in Row
  BY DEF TypeOK
<1>2. CASE UNCHANGED row
  BY <1>2
<1>3. CASE Claim(t)
  <2>1. row' = [row EXCEPT !.status = "processing"] \/ UNCHANGED row
    BY <1>3 DEF Claim
  <2>2. [row EXCEPT !.status = "processing"].status = "processing"
    BY <1>1, StatusOf
  <2> QED
    BY <1>3, <2>1, <2>2
<1>4. CASE GiveUp(t)
  <2>1. TryUpdate(t, [row EXCEPT !.status = "failed"])
    BY <1>4 DEF GiveUp
  <2>2. [row EXCEPT !.status = "failed"].status = "failed"
    BY <1>1, StatusOf
  <2> QED
    BY <1>4, <2>1, <2>2, TryStatus
<1>5. CASE MarkReady(t)
  <2> DEFINE new == [row EXCEPT !.status = "ready", !.avail = made[t],
                                !.thumb = poster[t], !.progress = 100]
  <2>1. row' = new \/ UNCHANGED row
    BY <1>5 DEF MarkReady
  <2>2. new.status = "ready"
    BY <1>1, StatusOf
  <2> HIDE DEF new
  <2> QED
    BY <1>5, <2>1, <2>2
<1>6. \A p : TryUpdate(t, [row EXCEPT !.progress = p]) => row'.status = row.status
  <2> SUFFICES ASSUME NEW p, TryUpdate(t, [row EXCEPT !.progress = p])
               PROVE  row'.status = row.status
    OBVIOUS
  <2>1. [row EXCEPT !.progress = p].status = row.status
    BY <1>1, StatusOf
  <2> QED
    BY <2>1, TryStatus
<1>7. CASE SetHLSInfo(t)
  <2>1. TryUpdate(t, [row EXCEPT !.hls = TRUE])
    BY <1>7 DEF SetHLSInfo
  <2>2. [row EXCEPT !.hls = TRUE].status = row.status
    BY <1>1, StatusOf
  <2> QED
    BY <2>1, <2>2, TryStatus
<1>8. CASE Transcode(t) \/ Transcoded(t) \/ Snap(t) \/ Finish(t)
  BY <1>2, <1>6, <1>8 DEF Transcode, Transcoded, Snap, Finish
<1> QED
  BY <1>2, <1>3, <1>4, <1>5, <1>7, <1>8
     DEF Work, Dequeue, Load, StageRaw, StagedRaw, Check, Probe, Encoded, Segment,
         SegmentOn, Segmented, WriteMaster, Snapped, SyncFile, SyncDone

\* The attempt that holds a row in `processing` keeps holding it until it has
\* moved the row on.
LEMMA HolderKeeps ==
    ASSUME NeverCut, TypeOK, AllAlive, NEW t \in Task, Work(t),
           stage[t] \in Claimed, row.status = "processing", row'.status = "processing"
    PROVE  stage'[t] \in Claimed
<1>1. /\ row \in Row
      /\ stage \in [Task -> Stage]
      /\ alive[t] /\ Recorded /\ ~Refused(t)
  BY DEF TypeOK, AllAlive, Recorded, Refused, NeverCut
<1>2. \A s : Goto(t, s) => stage'[t] = s
  BY <1>1 DEF Goto
<1>3. CASE UNCHANGED stage
  BY <1>3
<1>4. ~GiveUp(t)
  <2>1. [row EXCEPT !.status = "failed"].status = "failed"
    BY <1>1, StatusOf
  <2>2. GiveUp(t) => row' = [row EXCEPT !.status = "failed"]
    BY <1>1 DEF GiveUp, TryUpdate
  <2> QED
    BY <2>1, <2>2
<1>5. ~MarkReady(t)
  <2>1. [row EXCEPT !.status = "ready", !.avail = made[t],
                    !.thumb = poster[t], !.progress = 100].status = "ready"
    BY <1>1, StatusOf
  <2>2. MarkReady(t) => row' = [row EXCEPT !.status = "ready", !.avail = made[t],
                                           !.thumb = poster[t], !.progress = 100]
    BY <1>1 DEF MarkReady
  <2> QED
    BY <2>1, <2>2
<1>6. CASE Probe(t) \/ Transcode(t) \/ Encoded(t) \/ Transcoded(t)
  BY <1>2, <1>3, <1>6 DEF Probe, Transcode, Encoded, Transcoded, Claimed, Writing
<1>7. CASE Segment(t) \/ SegmentOn(t) \/ Segmented(t) \/ WriteMaster(t)
  BY <1>2, <1>3, <1>7 DEF Segment, SegmentOn, Segmented, WriteMaster, Claimed, Writing
<1>8. CASE SetHLSInfo(t) \/ Snap(t) \/ Snapped(t)
  BY <1>2, <1>8 DEF SetHLSInfo, Snap, Snapped, Claimed, Writing
<1> QED
  BY <1>4, <1>5, <1>6, <1>7, <1>8
     DEF Work, Dequeue, Load, StageRaw, StagedRaw, Check, Claim, Finish, SyncFile,
         SyncDone, Claimed, Writing

\* A step of one task leaves the others where they are.
LEMMA WorksOnOwnStage ==
    ASSUME TypeOK, NEW t \in Task, Work(t), NEW u \in Task \ {t}
    PROVE  stage'[u] = stage[u]
<1>1. stage \in [Task -> Stage]
  BY DEF TypeOK
<1>2. CASE UNCHANGED stage
  BY <1>2
<1>3. CASE \E s : Goto(t, s)
  BY <1>1, <1>3 DEF Goto
<1>4. CASE Dequeue(t) \/ Load(t) \/ StageRaw(t) \/ StagedRaw(t) \/ Check(t) \/ Claim(t)
  BY <1>2, <1>3, <1>4 DEF Dequeue, Load, StageRaw, StagedRaw, Check, Claim, Fail
<1>5. CASE Probe(t) \/ GiveUp(t) \/ Transcode(t) \/ Encoded(t) \/ Transcoded(t)
  BY <1>2, <1>3, <1>5 DEF Probe, GiveUp, Transcode, Encoded, Transcoded, Fail
<1>6. CASE Segment(t) \/ SegmentOn(t) \/ Segmented(t) \/ WriteMaster(t) \/ SetHLSInfo(t)
  BY <1>2, <1>3, <1>6 DEF Segment, SegmentOn, Segmented, WriteMaster, SetHLSInfo
<1>7. CASE Snap(t) \/ Snapped(t) \/ MarkReady(t) \/ Finish(t) \/ SyncFile(t) \/ SyncDone(t)
  BY <1>2, <1>3, <1>7 DEF Snap, Snapped, MarkReady, Finish, SyncFile, SyncDone, Fail
<1> QED
  BY <1>4, <1>5, <1>6, <1>7 DEF Work

LEMMA OwnedNext ==
    ASSUME NeverCut, TypeOK, AllAlive, ProcessingIsOwned, [Next]_vars
    PROVE  ProcessingIsOwned'
<1> SUFFICES ASSUME row'.status = "processing"
             PROVE  \E u \in Task : stage'[u] \in Claimed
  BY DEF ProcessingIsOwned
<1>1. row \in Row /\ stage \in [Task -> Stage]
  BY DEF TypeOK
<1>2. \A s, t : Goto(t, s) =>
        \A u \in Task : stage'[u] = IF u = t THEN s ELSE stage[u]
  BY <1>1 DEF Goto
<1>3. CASE UNCHANGED <<row, stage>>
  BY <1>3 DEF ProcessingIsOwned
<1>4. CASE UNCHANGED vars
  BY <1>3, <1>4 DEF vars
<1>5. CASE UploadSave
  BY <1>1, <1>2, <1>5 DEF UploadSave, ProcessingIsOwned, Claimed, Writing
<1>6. CASE UploadRecord
  BY <1>1, <1>2, <1>6 DEF UploadRecord, ProcessingIsOwned, Claimed, Writing, NewVideo, NoRow
<1>7. CASE Delete
  BY <1>3, <1>7 DEF Delete, DeleteRow, DeleteRaw, DeleteOutputs, DeleteDir, DeleteThumb,
                    DeleteCrash, NoRow
<1>8. ASSUME NEW t \in Task, Api(t)
      PROVE  \E u \in Task : stage'[u] \in Claimed
  <2>a. [row EXCEPT !.status = "uploading"].status = "uploading"
    BY <1>1, StatusOf
  <2>1. row' # row => row'.status = "uploading"
    BY <1>8, <2>a DEF Api, Enqueue, AdminLoad, AdminReset, ApiCrash
  <2>2. stage[t] \notin Claimed
    BY <1>8 DEF Api, Enqueue, AdminLoad, AdminReset, ApiCrash, InApi, Claimed, Writing
  <2>3. PICK u \in Task : stage[u] \in Claimed
    BY <2>1 DEF ProcessingIsOwned
  <2>4. stage'[u] = stage[u]
    BY <1>2, <1>8, <2>2, <2>3 DEF Api, Enqueue, AdminLoad, AdminReset, ApiCrash
  <2> QED
    BY <2>3, <2>4
<1>9. ASSUME NEW t \in Task, Interrupt(t)
      PROVE  \E u \in Task : stage'[u] \in Claimed
  BY <1>9 DEF Interrupt, Timeout, Crash, Shutdown, NeverCut
<1>10. ASSUME NEW t \in Task, Work(t)
       PROVE  \E u \in Task : stage'[u] \in Claimed
  <2>1. CASE Claim(t)
    <3>1. Recorded
      BY <2>1 DEF Claim, Applies, Recorded
    <3>2. ~Refused(t)
      BY <3>1 DEF Refused, AllAlive, NeverCut
    <3> QED
      BY <1>2, <2>1, <3>2 DEF Claim, Claimed
  <2>2. CASE ~Claim(t)
    <3>1. row.status = "processing"
      BY <1>10, <2>2, WorkOnStatus
    <3>2. PICK u \in Task : stage[u] \in Claimed
      BY <3>1 DEF ProcessingIsOwned
    <3>3. CASE u = t
      BY <1>10, <3>1, <3>2, <3>3, HolderKeeps
    <3>4. CASE u # t
      <4>1. stage'[u] = stage[u]
        BY <1>2, <1>10, <3>4, WorksOnOwnStage
      <4> QED
        BY <3>2, <4>1
    <3> QED
      BY <3>3, <3>4
  <2> QED
    BY <2>1, <2>2
<1> QED
  BY <1>4, <1>5, <1>6, <1>7, <1>8, <1>9, <1>10 DEF Next

\* Unless an attempt is cut short or the database fails, a video is only ever in
\* `processing` while an attempt is at work on it, also when several attempts on it
\* overlap and whatever the API does meanwhile.
THEOREM ProcessingOwned ==
    ASSUME NeverCut
    PROVE  Spec => []ProcessingIsOwned
<1>1. Init => AllAlive /\ ProcessingIsOwned
  BY DEF Init, AllAlive, ProcessingIsOwned, NoRow
<1>2. TypeOK /\ (AllAlive /\ ProcessingIsOwned) /\ [Next]_vars
        => (AllAlive /\ ProcessingIsOwned)'
  BY AliveNext, OwnedNext
<1> QED
  BY <1>1, <1>2, TypeCorrect, PTL DEF Spec

\* NothingStranded, which the deadline and the loss of a worker break: they and a
\* failing database are all that can.  Otherwise a video in `processing` always has a
\* task that will take it further.
THEOREM ProcessingMovesOn ==
    ASSUME NeverCut
    PROVE  Spec => []NothingStranded
<1>1. ProcessingIsOwned => NothingStranded
  BY DEF ProcessingIsOwned, NothingStranded, Live, Claimed, Writing, Ended
<1> QED
  BY <1>1, ProcessingOwned, PTL

=============================================================================
