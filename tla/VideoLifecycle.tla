---------------------------- MODULE VideoLifecycle ----------------------------
(***************************************************************************)
(* What the pipeline promises the clients of the API about one video: the  *)
(* lifecycle a reader of its status field may rely on.                     *)
(*                                                                         *)
(* A recorded video is picked up from `uploading`, or again from `failed`; *)
(* an attempt publishes a non-empty set of renditions or gives up; what is *)
(* published is never taken back or changed, short of deleting the video,  *)
(* and a deleted video never comes back.                                   *)
(*                                                                         *)
(* This is the lifecycle as the code has it.  The diagram in README.md,    *)
(* "Video lifecycle", differs in one edge: there (line 193) an             *)
(* administrator's retry takes a failed video to `processing`, while       *)
(* RetryVideo takes it to `uploading`, where it stays when it cannot be    *)
(* queued.  A reader of the diagram alone would call Retry an error.       *)
(***************************************************************************)
CONSTANT Quality

VARIABLES
    state,  \* "unborn", the row's status, or "removed"
    offered \* the renditions the video is published with

vars == <<state, offered>>

Init == state = "unborn" /\ offered = {}

Move(from, to) ==
    /\ state \in from
    /\ state' = to
    /\ UNCHANGED offered

Record == Move({"unborn"}, "uploading")
PickUp == Move({"uploading", "failed"}, "processing")
GiveUp == Move({"processing"}, "failed")

\* Not in README's diagram.
Retry == Move({"failed"}, "uploading")

Publish ==
    /\ state = "processing"
    /\ state' = "ready"
    /\ offered' \in (SUBSET Quality) \ {{}}

Remove ==
    /\ state \in {"uploading", "processing", "ready", "failed"}
    /\ state' = "removed"
    /\ offered' = {}

Next == Record \/ PickUp \/ GiveUp \/ Retry \/ Publish \/ Remove

Spec == Init /\ [][Next]_vars

==============================================================================
