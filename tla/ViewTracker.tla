---------------------------- MODULE ViewTracker ----------------------------
(***************************************************************************)
(* Views of a video: a claim in Redis that keeps the repeats of a viewer   *)
(* from counting (SET NX EX), and the rows in PostgreSQL that count.       *)
(***************************************************************************)
EXTENDS Clock

CONSTANTS Viewer,       \* viewers: accounts, or sessions of anonymous ones
          ViewWindow    \* viewDedupeWindow, in ticks

ASSUME ViewAssumption == ViewWindow \in Nat \ {0}

VARIABLES claim,        \* video:view_dedupe:<video>:<viewer>: its expiry, or 0
          viewed,       \* video_views: how many views each viewer began when
          trouble,      \* history: failed commands on behalf of each viewer
          orphaned      \* history: viewers with a claim that nobody gives back

views == <<claim, viewed, trouble, orphaned>>

ViewsInit ==
    /\ claim = [c \in Viewer |-> 0]
    /\ viewed = [c \in Viewer |-> [t \in Time |-> 0]]
    /\ trouble = [c \in Viewer |-> 0]
    /\ orphaned = {}

\* Mutant of Fresh: SET EX without NX.
FreshAlways(c) == c \in Viewer

\* SET NX EX
Fresh(c) == claim[c] = 0

SetClaim(c) == claim' = [claim EXCEPT ![c] = now + ViewWindow]

DelClaim(c) ==
    /\ claim' = [claim EXCEPT ![c] = 0]
    /\ orphaned' = orphaned \ {c}

\* RecordView commits a row for the view c began at time t.
CountView(c, t) == viewed' = [viewed EXCEPT ![c][t] = @ + 1]

Trouble(c) == trouble' = [trouble EXCEPT ![c] = @ + 1]

Orphan(cs) == orphaned' = orphaned \cup cs

ViewsTick ==
    /\ claim' = [c \in Viewer |-> IF now + 1 >= claim[c] THEN 0 ELSE claim[c]]
    /\ orphaned' = {c \in orphaned : now + 1 < claim[c]}
    /\ UNCHANGED <<viewed, trouble>>

ViewsTypeOK ==
    /\ claim \in [Viewer -> Nat]
    /\ viewed \in [Viewer -> [Time -> Nat]]
    /\ trouble \in [Viewer -> Nat]
    /\ orphaned \subseteq Viewer
=============================================================================
