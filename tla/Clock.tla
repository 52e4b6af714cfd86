------------------------------- MODULE Clock -------------------------------
(***************************************************************************)
(* The time the caches, the limiter and the view window expire by, in      *)
(* ticks.                                                                  *)
(***************************************************************************)
EXTENDS Integers

CONSTANT MaxTime    \* bound on the clock of a behaviour

ASSUME ClockAssumption == MaxTime \in Nat

VARIABLE now

Time == 0..MaxTime

\* The expiry of a key that has none.
Never == -1
=============================================================================
