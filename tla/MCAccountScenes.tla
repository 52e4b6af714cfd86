--------------------------- MODULE MCAccountScenes ---------------------------
(***************************************************************************)
(* The instance of Accounts that the run `accounts` checks.  Two scenes    *)
(* share it: every operation, up to LastTick, and the operations on tokens *)
(* alone for one tick more, on an account just registered.  In the second  *)
(* everything that revokes a token expires, and revocations overtake each  *)
(* other.                                                                  *)
(***************************************************************************)
EXTENDS MCAccounts

VARIABLE scene

Everything == scene = "everything" /\ Init

\* A registration has just been answered with the first two tokens.
Registered ==
    /\ scene = "tokens"
    /\ \E u \in User, refresh, access \in Jti :
          /\ refresh # access
          /\ row = [v \in User |-> IF v = u THEN NewUser(NoRow.pw, NoRow.role) ELSE NoRow]
          /\ lastSet = [v \in User |-> [pw |-> NoRow.pw, at |-> IF v = u THEN 1 ELSE 0]]
          /\ issued = {refresh, access}
          /\ tok = [j \in Jti |->
                       IF j \notin issued THEN NoToken
                       ELSE [user |-> u, type |-> IF j = refresh THEN "refresh" ELSE "access",
                             role |-> NoRow.role, iat |-> 1,
                             exp |-> 1 + IF j = refresh THEN RefreshTTL ELSE AccessTTL]]
    /\ now = 1 /\ storeUp = TRUE /\ dead = {} /\ revived = {}
    /\ denied = [j \in Jti |-> 0]
    /\ marker = [u \in User |-> [cutoff |-> 0, until |-> 0]]
    /\ req = [r \in Req |-> Idle] /\ started = 0
    /\ links = 0 /\ fate = [l \in Link |-> "none"] /\ raced = FALSE

LastTick == MaxTime - 1

Played ==
    /\ UNCHANGED scene
    /\ scene = "everything" => now' <= LastTick
    /\ scene = "tokens" =>
          /\ UNCHANGED row
          /\ \A r \in Req : req'[r].kind \in {"none", "refresh", "logout", "logoutall"}

MCSpec == (Everything \/ Registered) /\ [][Next /\ Played]_<<vars, scene>>
==============================================================================
