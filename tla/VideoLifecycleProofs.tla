------------------------ MODULE VideoLifecycleProofs ------------------------
(***************************************************************************)
(* VideoPipeline implements VideoLifecycle when RetryVideo is only called  *)
(* while no task of the video is pending, whatever fails.                  *)
(***************************************************************************)
EXTENDS VideoPipelineProofs

USE ParamAssumption

-----------------------------------------------------------------------------
(* The invariant *)

\* Where an attempt can be once it has transcoded something.
Publishing == {"hls", "segmenting", "leftover", "hlsinfo", "thumb", "snapping", "ready"}

\* The statuses the row can have while task t, or its request, is at its stage;
\* the row may also have been deleted.
Fits(t) ==
    /\ stage[t] \in {"recorded", "reset"} => row.status \in {"none", "uploading"}
    /\ stage[t] = "loaded" => row.status \in {"none", "failed"}
    /\ stage[t] = "claim" => row.status \in {"none", "uploading", "failed"}
    /\ stage[t] \in Claimed => row.status \in {"none", "processing"}
    /\ stage[t] \in {"final", "sync"} => row.status \in {"none", "ready"}
    /\ stage[t] \in Publishing => made[t] # {}

\* At most one task is pending, and its stage determines the status.
OneAtATime == \A t, u \in Task : Live(t) /\ Live(u) => t = u

\* Nothing happens to a video before its row is inserted, or after its deletion.
Ordered ==
    /\ Recorded => del = "no"
    /\ stage[UploadTask] = "none" => \A t \in Task : stage[t] = "none"
    /\ stage[UploadTask] \in {"none", "saved"} => ~Recorded /\ del = "no"

OnlyReadyOffers == row.status # "ready" => row.avail = {}

LifeInv == OneAtATime /\ (\A t \in Task : Fits(t)) /\ Ordered /\ OnlyReadyOffers

-----------------------------------------------------------------------------
(* What a step does to the columns a client sees *)

LEMMA AvailOf ==
    ASSUME NEW r \in Row
    PROVE  /\ \A s : [r EXCEPT !.status = s].avail = r.avail
           /\ \A p : [r EXCEPT !.progress = p].avail = r.avail
           /\ [r EXCEPT !.hls = TRUE].avail = r.avail
           /\ \A A, p : [r EXCEPT !.status = "ready", !.avail = A,
                                  !.thumb = p, !.progress = 100].avail = A
BY DEF Row

SameOffer == row'.status = row.status /\ row'.avail = row.avail

\* A best-effort update of the progress or of the HLS flag is not an offer.
LEMMA TryKeeps ==
    ASSUME row \in Row, NEW t \in Task
    PROVE  /\ \A p : TryUpdate(t, [row EXCEPT !.progress = p]) => SameOffer
           /\ TryUpdate(t, [row EXCEPT !.hls = TRUE]) => SameOffer
<1>1. ASSUME NEW new, TryUpdate(t, new), new.status = row.status, new.avail = row.avail
      PROVE  SameOffer
  BY <1>1 DEF TryUpdate, SameOffer
<1>2. \A p : /\ [row EXCEPT !.progress = p].status = row.status
             /\ [row EXCEPT !.progress = p].avail = row.avail
  BY StatusOf, AvailOf
<1>3. /\ [row EXCEPT !.hls = TRUE].status = row.status
      /\ [row EXCEPT !.hls = TRUE].avail = row.avail
  BY StatusOf, AvailOf
<1> QED
  BY <1>1, <1>2, <1>3

\* The steps of the worker: a row is claimed, given up, published, or left.
LEMMA WorkOnRow ==
    ASSUME TypeOK, LifeInv, NEW t \in Task, Work(t)
    PROVE  \/ SameOffer
           \/ /\ row.status \in {"uploading", "failed"} /\ row'.status = "processing"
              /\ row'.avail = row.avail
           \/ /\ row.status = "processing" /\ row'.status = "failed"
              /\ row'.avail = row.avail
           \/ /\ row.status = "processing" /\ row'.status = "ready"
              /\ row'.avail \in (SUBSET Quality) \ {{}}
<1>1. row \in Row /\ Fits(t) /\ made[t] \subseteq Quality
  BY DEF TypeOK, LifeInv
<1>2. CASE UNCHANGED row
  BY <1>2 DEF SameOffer
<1>3. CASE Claim(t)
  <2>1. CASE Recorded /\ row' = [row EXCEPT !.status = "processing"]
    <3>1. row'.status = "processing" /\ row'.avail = row.avail
      BY <1>1, <2>1, StatusOf, AvailOf
    <3>2. row.status \in {"uploading", "failed"}
      BY <1>1, <1>3, <2>1 DEF Claim, Fits, Recorded
    <3> QED
      BY <3>1, <3>2
  <2> QED
    BY <1>2, <1>3, <2>1 DEF Claim, Applies
<1>4. CASE GiveUp(t)
  <2>1. CASE Recorded /\ row' = [row EXCEPT !.status = "failed"]
    <3>1. row'.status = "failed" /\ row'.avail = row.avail
      BY <1>1, <2>1, StatusOf, AvailOf
    <3>2. row.status = "processing"
      BY <1>1, <1>4, <2>1 DEF GiveUp, Fits, Recorded, Claimed
    <3> QED
      BY <3>1, <3>2
  <2> QED
    BY <1>2, <1>4, <2>1 DEF GiveUp, Applies, TryUpdate
<1>5. CASE MarkReady(t)
  <2> DEFINE new == [row EXCEPT !.status = "ready", !.avail = made[t],
                                !.thumb = poster[t], !.progress = 100]
  <2>1. CASE Recorded /\ row' = new
    <3>1. new.status = "ready" /\ new.avail = made[t]
      BY <1>1, StatusOf, AvailOf
    <3>2. row.status = "processing"
      BY <1>1, <1>5, <2>1 DEF MarkReady, Fits, Recorded, Claimed, Writing
    <3>3. made[t] # {}
      BY <1>1, <1>5 DEF MarkReady, Fits, Publishing
    <3> HIDE DEF new
    <3> QED
      BY <1>1, <2>1, <3>1, <3>2, <3>3
  <2> QED
    BY <1>2, <1>5, <2>1 DEF MarkReady, Applies
<1>6. CASE Transcode(t) \/ Transcoded(t) \/ SetHLSInfo(t) \/ Snap(t) \/ Finish(t)
  BY <1>1, <1>2, <1>6, TryKeeps DEF Transcode, Transcoded, SetHLSInfo, Snap, Finish
<1> QED
  BY <1>2, <1>3, <1>4, <1>5, <1>6
     DEF Work, Dequeue, Load, StageRaw, StagedRaw, Check, Probe, Encoded, Segment,
         SegmentOn, Segmented, WriteMaster, Snapped, SyncFile, SyncDone

\* A task's own step takes it to a stage that fits the row it leaves.
LEMMA WorkFits ==
    ASSUME TypeOK, LifeInv, NEW t \in Task, Work(t)
    PROVE  Fits(t)'
<1>1. /\ row \in Row /\ stage \in [Task -> Stage] /\ made \in [Task -> SUBSET Quality]
      /\ Fits(t)
  BY DEF TypeOK, LifeInv
<1>2. \A s : Goto(t, s) => stage'[t] = s
  BY <1>1 DEF Goto
<1>3. Fail(t) => stage'[t] \in {"queued", "archived"}
  BY <1>2 DEF Fail
<1>4. CASE stage'[t] \in {"queued", "archived", "load", "check", "stage", "staging", "done"}
  BY <1>4 DEF Fits, Claimed, Writing, Publishing
<1>5. CASE Dequeue(t) \/ StageRaw(t) \/ StagedRaw(t) \/ SyncDone(t)
  BY <1>2, <1>3, <1>4, <1>5 DEF Dequeue, StageRaw, StagedRaw, SyncDone
<1>6. CASE Load(t)
  BY <1>2, <1>3, <1>4, <1>6 DEF Load, Fits, Claimed, Writing, Publishing
<1>7. CASE Check(t)
  BY <1>2, <1>3, <1>4, <1>7 DEF Check, Claimable, Fits, Claimed, Writing, Publishing
<1>8. CASE Claim(t)
  <2>1. CASE row' = [row EXCEPT !.status = "processing"] /\ stage'[t] = "probe"
    BY <1>1, <2>1, StatusOf DEF Fits, Claimed, Writing, Publishing
  <2> QED
    BY <1>2, <1>3, <1>4, <1>8, <2>1 DEF Claim
<1>9. CASE GiveUp(t)
  BY <1>3, <1>4, <1>9 DEF GiveUp
<1>10. CASE MarkReady(t)
  <2> DEFINE new == [row EXCEPT !.status = "ready", !.avail = made[t],
                                !.thumb = poster[t], !.progress = 100]
  <2>1. CASE row' = new /\ stage'[t] = "final"
    <3>1. new.status = "ready"
      BY <1>1, StatusOf
    <3> HIDE DEF new
    <3> QED
      BY <2>1, <3>1 DEF Fits, Claimed, Writing, Publishing
  <2> QED
    BY <1>2, <1>3, <1>4, <1>10, <2>1 DEF MarkReady
<1>11. CASE Finish(t)
  <2>1. SameOffer
    BY <1>1, <1>11, TryKeeps DEF Finish
  <2>2. row.status \in {"none", "ready"}
    BY <1>1, <1>11 DEF Finish, Fits
  <2>3. stage'[t] \in {"sync", "done"}
    BY <1>2, <1>11 DEF Finish
  <2> QED
    BY <2>1, <2>2, <2>3 DEF SameOffer, Fits, Claimed, Writing, Publishing
<1>12. CASE SyncFile(t)
  <2>1. UNCHANGED <<row, made>> /\ stage[t] = "sync"
    BY <1>12 DEF SyncFile
  <2>2. stage'[t] = "sync" \/ Fail(t)
    BY <1>12, <2>1 DEF SyncFile
  <2> QED
    BY <1>1, <1>3, <1>4, <2>1, <2>2 DEF Fits, Claimed, Writing, Publishing
<1>13. ASSUME SameOffer, stage[t] \in Claimed, stage'[t] \in Claimed,
              stage'[t] \in Publishing => made'[t] # {}
       PROVE  Fits(t)'
  BY <1>1, <1>13 DEF SameOffer, Fits, Claimed, Writing
<1>14. CASE Probe(t)
  BY <1>2, <1>13, <1>14 DEF Probe, SameOffer, Claimed, Writing, Publishing
<1>15. CASE Transcode(t)
  <2>1. SameOffer /\ stage[t] = "transcode" /\ stage'[t] \in {"transcode", "encoding"}
    BY <1>1, <1>2, <1>15, TryKeeps DEF Transcode
  <2> QED
    BY <1>13, <2>1 DEF Claimed, Writing, Publishing
<1>16. CASE Encoded(t)
  BY <1>2, <1>13, <1>16 DEF Encoded, SameOffer, Claimed, Writing, Publishing
<1>17. CASE Transcoded(t)
  <2>1. SameOffer /\ stage[t] = "transcode" /\ UNCHANGED made
    BY <1>1, <1>17, TryKeeps DEF Transcoded, SameOffer
  <2>2. stage'[t] = "giveup" \/ (stage'[t] = "hls" /\ made[t] # {})
    BY <1>2, <1>17 DEF Transcoded
  <2> QED
    BY <1>13, <2>1, <2>2 DEF Claimed, Writing, Publishing
<1>18. CASE Segment(t) \/ SegmentOn(t) \/ Segmented(t) \/ WriteMaster(t) \/ Snapped(t)
  <2>1. UNCHANGED <<row, made>> /\ stage[t] \in Publishing
    BY <1>18 DEF Segment, SegmentOn, Segmented, WriteMaster, Snapped, attempt, Publishing
  <2>2. stage'[t] \in Publishing
    BY <1>2, <1>18, <2>1 DEF Segment, SegmentOn, Segmented, WriteMaster, Snapped, Publishing
  <2>3. made[t] # {}
    BY <1>1, <2>1 DEF Fits
  <2> QED
    BY <1>13, <2>1, <2>2, <2>3 DEF SameOffer, Claimed, Writing, Publishing
<1>19. CASE SetHLSInfo(t) \/ Snap(t)
  <2>1. SameOffer /\ UNCHANGED made /\ stage[t] \in {"hlsinfo", "thumb"}
    BY <1>1, <1>19, TryKeeps DEF SetHLSInfo, Snap, attempt
  <2>2. stage'[t] \in {"thumb", "snapping", "ready"}
    BY <1>2, <1>19 DEF SetHLSInfo, Snap
  <2>3. made[t] # {}
    BY <1>1, <2>1 DEF Fits, Publishing
  <2> QED
    BY <1>13, <2>1, <2>2, <2>3 DEF Claimed, Writing
<1> QED
  BY <1>5, <1>6, <1>7, <1>8, <1>9, <1>10, <1>11, <1>12, <1>14, <1>15, <1>16, <1>17,
     <1>18, <1>19 DEF Work

-----------------------------------------------------------------------------
(* The invariant is preserved *)

LEMMA LifeInit == Init => LifeInv
BY DEF Init, LifeInv, OneAtATime, Fits, Ordered, OnlyReadyOffers, Live, Recorded, NoRow,
       Claimed, Writing, Publishing

\* When the one pending task moves, nothing is to be shown of the others.
LEMMA ActorMoves ==
    ASSUME LifeInv, NEW t \in Task, Live(t),
           \A u \in Task \ {t} : stage'[u] = stage[u],
           Fits(t)', Ordered', OnlyReadyOffers'
    PROVE  LifeInv'
<1>1. \A u \in Task \ {t} : stage'[u] \in {"none"} \cup Ended
  BY DEF LifeInv, OneAtATime, Live
<1>2. OneAtATime'
  BY <1>1 DEF OneAtATime, Live
<1>3. \A u \in Task \ {t} : Fits(u)'
  BY <1>1 DEF Fits, Ended, Claimed, Writing, Publishing
<1> QED
  BY <1>2, <1>3 DEF LifeInv

\* The pending task does not unmake the order of events either.
LEMMA ActorOrdered ==
    ASSUME LifeInv, NEW t \in Task, Live(t),
           \A u \in Task \ {t} : stage'[u] = stage[u],
           stage'[t] \notin {"none", "saved"},
           Recorded' => Recorded, UNCHANGED del
    PROVE  Ordered'
<1>1. stage'[UploadTask] \notin {"none", "saved"}
  <2>1. CASE t = UploadTask
    BY <2>1
  <2>2. CASE t # UploadTask
    <3>1. stage[UploadTask] # "none"
      BY DEF LifeInv, Ordered, Live
    <3>2. stage[UploadTask] # "saved"
      BY <2>2 DEF LifeInv, OneAtATime, Live, Ended
    <3> QED
      BY <2>2, <3>1, <3>2
  <2> QED
    BY <2>1, <2>2
<1> QED
  BY <1>1 DEF LifeInv, Ordered

\* A step of the worker is a step of a pending task that stays with the worker or
\* with asynq.
LEMMA WorkIsLive ==
    ASSUME TypeOK, NEW t \in Task, Work(t)
    PROVE  Live(t) /\ UNCHANGED del /\ stage'[t] \notin {"none", "saved"}
<1>1. stage \in [Task -> Stage]
  BY DEF TypeOK
<1>2. \A s : Goto(t, s) => stage'[t] = s
  BY <1>1 DEF Goto
<1>3. Fail(t) => stage'[t] \in {"queued", "archived"}
  BY <1>2 DEF Fail
<1> USE <1>2, <1>3 DEF Live, Ended
<1>4. CASE Dequeue(t) \/ Load(t) \/ StageRaw(t) \/ StagedRaw(t) \/ Check(t) \/ Claim(t)
  BY <1>4 DEF Dequeue, Load, StageRaw, StagedRaw, Check, Claim
<1>5. CASE Probe(t) \/ GiveUp(t) \/ Transcode(t) \/ Encoded(t) \/ Transcoded(t)
  BY <1>5 DEF Probe, GiveUp, Transcode, Encoded, Transcoded
<1>6. CASE Segment(t) \/ SegmentOn(t) \/ Segmented(t) \/ WriteMaster(t) \/ SetHLSInfo(t)
  BY <1>6 DEF Segment, SegmentOn, Segmented, WriteMaster, SetHLSInfo
<1>7. CASE Snap(t) \/ Snapped(t) \/ MarkReady(t) \/ Finish(t)
  BY <1>7 DEF Snap, Snapped, MarkReady, Finish
<1>8. CASE SyncFile(t) \/ SyncDone(t)
  BY <1>8 DEF SyncFile, SyncDone
<1> QED
  BY <1>4, <1>5, <1>6, <1>7, <1>8 DEF Work

LEMMA LifeWork ==
    ASSUME TypeOK, LifeInv, NEW t \in Task, Work(t)
    PROVE  LifeInv'
<1>1. Live(t) /\ UNCHANGED del /\ stage'[t] \notin {"none", "saved"}
  BY WorkIsLive
<1>2. \A u \in Task \ {t} : stage'[u] = stage[u]
  BY WorksOnOwnStage
<1>3. Fits(t)'
  BY WorkFits
<1>4. (Recorded' => Recorded) /\ OnlyReadyOffers'
  BY WorkOnRow DEF SameOffer, Recorded, LifeInv, OnlyReadyOffers
<1>5. Ordered'
  BY <1>1, <1>2, <1>4, ActorOrdered
<1> QED
  BY <1>1, <1>2, <1>3, <1>4, <1>5, ActorMoves

LEMMA LifeDelete ==
    ASSUME LifeInv, Delete
    PROVE  LifeInv'
<1>1. UNCHANGED <<stage, made>> /\ del' # "no"
  BY DEF Delete, DeleteRow, DeleteRaw, DeleteOutputs, DeleteDir, DeleteThumb, DeleteCrash, attempt
<1>2. (row' = NoRow /\ Recorded) \/ (UNCHANGED row /\ del # "no")
  <2>1. CASE DeleteRow
    BY <2>1 DEF DeleteRow
  <2>2. CASE DeleteRaw \/ DeleteOutputs \/ DeleteDir
    BY <2>2 DEF DeleteRaw, DeleteOutputs, DeleteDir
  <2>3. CASE DeleteThumb \/ DeleteCrash
    BY <2>3 DEF DeleteThumb, DeleteCrash
  <2> QED
    BY <2>1, <2>2, <2>3 DEF Delete
<1>3. NoRow.status = "none" /\ NoRow.avail = {}
  BY DEF NoRow
<1>4. OneAtATime'
  BY <1>1 DEF LifeInv, OneAtATime, Live
<1>5. \A t \in Task : Fits(t)'
  BY <1>1, <1>2, <1>3 DEF LifeInv, Fits
<1>6. Ordered'
  BY <1>1, <1>2, <1>3 DEF LifeInv, Ordered, Recorded
<1>7. OnlyReadyOffers'
  BY <1>2, <1>3 DEF LifeInv, OnlyReadyOffers
<1> QED
  BY <1>4, <1>5, <1>6, <1>7 DEF LifeInv

LEMMA LifeUpload ==
    ASSUME TypeOK, LifeInv, UploadSave \/ UploadRecord
    PROVE  LifeInv'
<1>1. /\ UploadTask \in Task /\ row \in Row
      /\ \A s : Goto(UploadTask, s) =>
            \A u \in Task : stage'[u] = IF u = UploadTask THEN s ELSE stage[u]
  BY DEF TypeOK, Goto
<1>2. CASE UploadSave
  <2>1. /\ UNCHANGED <<row, del>> /\ stage'[UploadTask] \in {"saved", "dropped"}
        /\ \A u \in Task \ {UploadTask} : stage'[u] = "none"
    BY <1>1, <1>2 DEF UploadSave, LifeInv, Ordered
  <2>2. ~Recorded /\ del = "no"
    BY <1>2 DEF UploadSave, LifeInv, Ordered
  <2>3. OneAtATime'
    BY <2>1 DEF OneAtATime, Live
  <2>4. \A u \in Task : Fits(u)'
    BY <1>1, <2>1 DEF Fits, Claimed, Writing, Publishing
  <2>5. Ordered' /\ OnlyReadyOffers'
    BY <1>1, <2>1, <2>2 DEF LifeInv, Ordered, OnlyReadyOffers, Recorded
  <2> QED
    BY <2>3, <2>4, <2>5 DEF LifeInv
<1>3. CASE UploadRecord
  <2>1. /\ Live(UploadTask) /\ UNCHANGED del /\ ~Recorded /\ del = "no"
        /\ stage'[UploadTask] \in {"recorded", "dropped"}
        /\ \A u \in Task \ {UploadTask} : stage'[u] = stage[u]
    BY <1>1, <1>3 DEF UploadRecord, LifeInv, Ordered, Live, Ended
  <2>2. row' = NewVideo \/ (UNCHANGED row /\ stage'[UploadTask] = "dropped")
    BY <1>1, <1>3 DEF UploadRecord
  <2>3. NewVideo.status = "uploading" /\ NewVideo.avail = {}
    BY DEF NewVideo, NoRow
  <2>4. Fits(UploadTask)'
    BY <2>1, <2>2, <2>3 DEF Fits, Claimed, Writing, Publishing
  <2>5. Ordered' /\ OnlyReadyOffers'
    BY <2>1, <2>2, <2>3 DEF LifeInv, Ordered, OnlyReadyOffers
  <2> QED
    BY <1>1, <2>1, <2>4, <2>5, ActorMoves
<1> QED
  BY <1>2, <1>3

LEMMA LifeApi ==
    ASSUME AdminWaits, TypeOK, LifeInv, NEW t \in Task, Api(t)
    PROVE  LifeInv'
<1>1. /\ row \in Row
      /\ \A s : Goto(t, s) => \A u \in Task : stage'[u] = IF u = t THEN s ELSE stage[u]
  BY DEF TypeOK, Goto
<1>2. CASE AdminLoad(t)
  <2>1. /\ UNCHANGED <<row, del>> /\ row.status = "failed" /\ t # UploadTask
        /\ \A u \in Task : ~Live(u)
        /\ \A u \in Task : stage'[u] = IF u = t THEN "loaded" ELSE stage[u]
    BY <1>1, <1>2 DEF AdminLoad
  <2>2. \A u \in Task \ {t} : stage'[u] \in {"none"} \cup Ended
    BY <2>1 DEF Live
  <2>3. OneAtATime'
    BY <2>2 DEF OneAtATime, Live
  <2>4. \A u \in Task : Fits(u)'
    BY <2>1, <2>2 DEF Fits, Ended, Claimed, Writing, Publishing
  <2>5. stage[UploadTask] # "none" /\ stage'[UploadTask] = stage[UploadTask]
    BY <2>1 DEF LifeInv, Ordered, Recorded
  <2>6. stage[UploadTask] # "saved"
    BY <2>1 DEF Live, Ended
  <2>7. Ordered' /\ OnlyReadyOffers'
    BY <2>1, <2>5, <2>6 DEF LifeInv, Ordered, OnlyReadyOffers, Recorded
  <2> QED
    BY <2>3, <2>4, <2>7 DEF LifeInv
<1>3. CASE Enqueue(t) \/ AdminReset(t) \/ ApiCrash(t)
  <2>1. /\ Live(t) /\ UNCHANGED del
        /\ \A u \in Task \ {t} : stage'[u] = stage[u]
        /\ stage'[t] \in {"queued", "dropped", "reset"}
    BY <1>1, <1>3 DEF Enqueue, AdminReset, ApiCrash, InApi, Live, Ended
  <2>2. \/ UNCHANGED row /\ stage'[t] # "reset"
        \/ AdminReset(t) /\ Recorded /\ row' = [row EXCEPT !.status = "uploading"]
    BY <1>1, <1>3 DEF Enqueue, AdminReset, ApiCrash
  <2>3. /\ [row EXCEPT !.status = "uploading"].status = "uploading"
        /\ [row EXCEPT !.status = "uploading"].avail = row.avail
    BY <1>1, StatusOf, AvailOf
  <2>4. AdminReset(t) => row.status \in {"none", "failed"}
    BY DEF AdminReset, LifeInv, Fits
  <2>5. Fits(t)'
    BY <2>1, <2>2, <2>3 DEF Fits, Claimed, Writing, Publishing
  <2>6. (Recorded' => Recorded) /\ OnlyReadyOffers'
    BY <2>2, <2>3, <2>4 DEF LifeInv, OnlyReadyOffers, Recorded
  <2>7. Ordered'
    BY <2>1, <2>6, ActorOrdered
  <2> QED
    BY <2>1, <2>5, <2>6, <2>7, ActorMoves
<1> QED
  BY <1>2, <1>3 DEF Api

LEMMA LifeInterrupt ==
    ASSUME TypeOK, LifeInv, NEW t \in Task, Interrupt(t)
    PROVE  LifeInv'
<1>1. UNCHANGED <<row, del, made>>
  BY DEF Interrupt, Timeout, Crash, Shutdown, attempt
<1>2. CASE UNCHANGED stage
  BY <1>1, <1>2 DEF LifeInv, OneAtATime, Fits, Ordered, OnlyReadyOffers, Live, Recorded
<1>3. CASE Crash(t) \/ Shutdown(t)
  <2>1. Live(t)
    BY <1>3 DEF Crash, Shutdown, Running, InWorker, Live, Ended, Claimed, Writing
  <2>2. /\ stage'[t] \in {"queued", "archived"}
        /\ \A u \in Task \ {t} : stage'[u] = stage[u]
    BY <1>3 DEF Crash, Shutdown, Fail, Goto, TypeOK
  <2>3. Fits(t)' /\ OnlyReadyOffers' /\ (Recorded' => Recorded)
    BY <1>1, <2>2 DEF LifeInv, Fits, OnlyReadyOffers, Recorded, Claimed, Writing, Publishing
  <2>4. Ordered'
    BY <1>1, <2>1, <2>2, <2>3, ActorOrdered
  <2> QED
    BY <2>1, <2>2, <2>3, <2>4, ActorMoves
<1> QED
  BY <1>2, <1>3 DEF Interrupt, Timeout

LEMMA LifeNext ==
    ASSUME AdminWaits, TypeOK, LifeInv, [Next]_vars
    PROVE  LifeInv'
<1>1. CASE UNCHANGED vars
  BY <1>1 DEF vars, attempt, LifeInv, OneAtATime, Fits, Ordered, OnlyReadyOffers, Live,
              Recorded
<1> QED
  BY <1>1, LifeUpload, LifeDelete, LifeApi, LifeWork, LifeInterrupt DEF Next

-----------------------------------------------------------------------------
(* The refinement *)

LEMMA LifecycleInit == Init => Lifecycle!Init
BY DEF Init, Lifecycle!Init, Observed, Recorded, NoRow

\* Every step of the pipeline is a step of the lifecycle, or not seen by clients.
LEMMA LifecycleStep ==
    ASSUME AdminWaits, TypeOK, LifeInv, [Next]_vars
    PROVE  [Lifecycle!Next]_(Lifecycle!vars)
<1> USE DEF Observed, Recorded
<1>1. row \in Row /\ Ordered /\ OnlyReadyOffers
  BY DEF TypeOK, LifeInv
<1>2. CASE SameOffer /\ UNCHANGED del
  BY <1>2 DEF SameOffer, Lifecycle!vars
<1>3. CASE UNCHANGED vars
  BY <1>2, <1>3 DEF vars, SameOffer
<1>4. CASE UploadSave
  BY <1>2, <1>4 DEF UploadSave, SameOffer
<1>5. CASE UploadRecord
  <2>1. CASE row' = NewVideo
    <3>1. row.status = "none" /\ row.avail = {} /\ del = "no" /\ UNCHANGED del
      BY <1>1, <1>5 DEF UploadRecord, Ordered, OnlyReadyOffers
    <3>2. NewVideo.status = "uploading" /\ NewVideo.avail = {}
      BY DEF NewVideo, NoRow
    <3>3. Lifecycle!Record
      BY <2>1, <3>1, <3>2 DEF Lifecycle!Record, Lifecycle!Move
    <3> QED
      BY <3>3 DEF Lifecycle!Next
  <2> QED
    BY <1>2, <1>5, <2>1 DEF UploadRecord, SameOffer
<1>6. CASE DeleteRow
  <2>1. row.status \in {"uploading", "processing", "ready", "failed"}
    BY <1>1, <1>6 DEF DeleteRow, Row
  <2>2. row'.status = "none" /\ row'.avail = {} /\ del' = "raw"
    BY <1>6 DEF DeleteRow, NoRow
  <2>3. Lifecycle!Remove
    BY <2>1, <2>2 DEF Lifecycle!Remove
  <2> QED
    BY <2>3 DEF Lifecycle!Next
<1>7. CASE DeleteRaw \/ DeleteOutputs \/ DeleteDir \/ DeleteThumb \/ DeleteCrash
  <2>1. UNCHANGED row /\ del # "no" /\ del' # "no"
    BY <1>7 DEF DeleteRaw, DeleteOutputs, DeleteDir, DeleteThumb, DeleteCrash
  <2> QED
    BY <1>1, <2>1 DEF Ordered, Lifecycle!vars
<1>8. ASSUME NEW t \in Task, Api(t)
      PROVE  [Lifecycle!Next]_(Lifecycle!vars)
  <2>1. CASE Recorded /\ AdminReset(t) /\ row' = [row EXCEPT !.status = "uploading"]
    <3>1. row.status = "failed"
      BY <1>1, <2>1 DEF AdminReset, LifeInv, Fits
    <3>2. row'.status = "uploading" /\ row'.avail = row.avail
      BY <1>1, <2>1, StatusOf, AvailOf
    <3>3. Lifecycle!Retry
      BY <3>1, <3>2 DEF Lifecycle!Retry, Lifecycle!Move
    <3> QED
      BY <3>3 DEF Lifecycle!Next
  <2>2. CASE UNCHANGED <<row, del>>
    BY <1>2, <2>2 DEF SameOffer
  <2> QED
    BY <1>8, <2>1, <2>2 DEF Api, Enqueue, AdminLoad, AdminReset, ApiCrash
<1>9. ASSUME NEW t \in Task, Interrupt(t)
      PROVE  [Lifecycle!Next]_(Lifecycle!vars)
  BY <1>2, <1>9 DEF Interrupt, Timeout, Crash, Shutdown, SameOffer
<1>10. ASSUME NEW t \in Task, Work(t)
       PROVE  [Lifecycle!Next]_(Lifecycle!vars)
  <2>1. UNCHANGED del
    BY <1>10, WorkIsLive
  <2>2. CASE SameOffer
    BY <1>2, <2>1, <2>2
  <2>3. CASE /\ row.status \in {"uploading", "failed"} /\ row'.status = "processing"
             /\ row'.avail = row.avail
    BY <2>3 DEF Lifecycle!Next, Lifecycle!PickUp, Lifecycle!Move
  <2>4. CASE /\ row.status = "processing" /\ row'.status = "failed"
             /\ row'.avail = row.avail
    BY <2>4 DEF Lifecycle!Next, Lifecycle!GiveUp, Lifecycle!Move
  <2>5. CASE /\ row.status = "processing" /\ row'.status = "ready"
             /\ row'.avail \in (SUBSET Quality) \ {{}}
    BY <2>5 DEF Lifecycle!Next, Lifecycle!Publish
  <2> QED
    BY <1>10, <2>2, <2>3, <2>4, <2>5, WorkOnRow
<1> QED
  BY <1>3, <1>4, <1>5, <1>6, <1>7, <1>8, <1>9, <1>10 DEF Next, Delete

\* Whatever fails, and for any number of retries: as long as RetryVideo is only
\* called when no task of the video is pending, the statuses and renditions that the
\* API shows follow VideoLifecycle.  A published video is never taken back and a
\* deleted one never returns.
THEOREM PipelineFollowsLifecycle ==
    ASSUME AdminWaits
    PROVE  Spec => FollowsLifecycle
<1>1. Init => LifeInv /\ Lifecycle!Init
  BY LifeInit, LifecycleInit
<1>2. TypeOK /\ LifeInv /\ [Next]_vars => LifeInv' /\ [Lifecycle!Next]_(Lifecycle!vars)
  BY LifeNext, LifecycleStep
<1> QED
  BY <1>1, <1>2, TypeCorrect, PTL DEF Spec, FollowsLifecycle, Lifecycle!Spec

\* ReadyIsFinal, which a RetryVideo that overlaps asynq's own retries breaks: when
\* RetryVideo waits for the pending tasks, a video that was published once stays ready
\* until it is deleted, whatever fails.
THEOREM ReadyStaysReady ==
    ASSUME AdminWaits
    PROVE  Spec => ReadyIsFinal
<1>1. Init => LifeInv
  BY LifeInit
<1>2. TypeOK /\ LifeInv /\ [Next]_vars => LifeInv'
  BY LifeNext
<1>3. ASSUME TypeOK, TypeOK', LifeInv, [Next]_vars
      PROVE  [row.status = "ready" => row'.status \in {"ready", "none"}]_vars
  <2> SUFFICES ASSUME row.status = "ready", row'.status # "none"
               PROVE  row'.status = "ready"
    OBVIOUS
  <2>1. [Lifecycle!Next]_(Lifecycle!vars)
    BY <1>3, LifecycleStep
  <2>2. Observed = "ready" /\ Observed' = row'.status
    BY DEF Observed, Recorded
  <2>3. Observed' \in {"ready", "removed"}
    BY <2>1, <2>2 DEF Lifecycle!Next, Lifecycle!Record, Lifecycle!PickUp, Lifecycle!GiveUp,
       Lifecycle!Retry, Lifecycle!Publish, Lifecycle!Remove, Lifecycle!Move, Lifecycle!vars
  <2>4. row'.status # "removed"
    BY <1>3 DEF TypeOK, Row
  <2> QED
    BY <2>2, <2>3, <2>4
<1> QED
  BY <1>1, <1>2, <1>3, TypeCorrect, PTL DEF Spec, ReadyIsFinal

=============================================================================
