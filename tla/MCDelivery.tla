---------------------------- MODULE MCDelivery -----------------------------
(***************************************************************************)
(* A small instance of Delivery for TLC.                                   *)
(***************************************************************************)
EXTENDS Delivery, TLC

\* One playlist and one view in a window: the second request of a kind is refused.
MCBudget == "streaming" :> 1 @@ "user_api" :> 1

\* Views and playlists share nothing but the clock: behaviours with both are not
\* explored.
Asked(rule) == \/ \E r \in Req : req[r].rule = rule
               \/ \E k \in Counter : k[1] = rule /\ admitted[k] > 0
OneKind == ~(Asked("streaming") /\ Asked("user_api"))

\* Time and requests begin with the publication: what is asked for before ends at
\* the row check.
PublishedFirst == row = "hidden" => now = 0 /\ events = 0

Symmetry == Permutations(Api) \cup Permutations(Key)
=============================================================================
