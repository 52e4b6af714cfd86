--------------------------- MODULE MCVideoPipeline ---------------------------
(***************************************************************************)
(* Small instances of VideoPipeline for TLC: which failures each instance  *)
(* of the environment may inject, and the tasks that are interchangeable.  *)
(***************************************************************************)
EXTENDS VideoPipeline, TLC

EveryFault == FaultKind

\* Everything but the loss of the worker process.  (A worker that dies while it
\* copies the raw object leaves a part of it that the next attempt takes for the
\* whole: see WorkerDies.)
WorkerStaysUp == FaultKind \ {"crash", "shutdown"}

\* Attempts are never cut short and the database answers: what overlapping
\* attempts do to each other and to a delete, and what clients who leave do.
FailingTools == {"client", "enqueue", "ffmpeg"}

QueueIsDown == {"enqueue"}
WorkerDies == {"crash"}
BadSource == {"ffmpeg"}
CutShort == {"shutdown", "timeout"}

\* Tasks enqueued by RetryVideo differ in nothing.
Interchangeable == Permutations(Task \ {UploadTask})

==============================================================================
