----------------------------- MODULE PendingEntry -----------------------------
(***************************************************************************)
(* The pure state machine of one armed zone entry, zcastor/entry/pending.py:*)
(* given a price it waits, fills or cancels.  The code writes every test    *)
(* twice, for buys and for sells; here a price is measured from the level   *)
(* on the side the trade profits from, which folds the two into one.        *)
(*                                                                          *)
(* An entry is a record [buy, zone, kind, reached, created]; `reached'      *)
(* stands for reached_zone, which the exhaustion route always sets together *)
(* with swept and the fresh route sets alone.                               *)
(***************************************************************************)
EXTENDS Integers

CONSTANTS
  Confirm,     \* confirm_pts
  Invalidate,  \* invalidate_pts
  Touch        \* zone_touch_pts

\* config/policy.json has 40, 60 and 25.
ASSUME GeometryAssumption ==
  /\ {Confirm, Invalidate, Touch} \subseteq Nat \ {0}
  /\ Touch < Confirm

RouteKinds == {"fresh", "exhaustion"}

\* Points above the level for a buy, below it for a sell.
Depth(e, price) == IF e.buy THEN price - e.zone ELSE e.zone - price

\* Mutant of Reaches: the two theses exchanged.
ReachesSwapped(e, price) ==
  Depth(e, price) <= (IF e.kind = "fresh" THEN 0 ELSE Touch)

\* A fresh entry has reached its zone when price comes near the level, an
\* exhaustion entry when it has swept it.
Reaches(e, price) ==
  Depth(e, price) <= (IF e.kind = "exhaustion" THEN 0 ELSE Touch)

\* The first price a fresh entry reaches its zone with is not tested further.
Breaks(e, price) ==
  \/ e.kind = "exhaustion" /\ Depth(e, price) <= -2 * Invalidate
  \/ e.kind = "fresh" /\ e.reached /\ Depth(e, price) <= -Invalidate

Reclaims(e, price) == e.reached /\ Depth(e, price) >= Confirm

Evaluate(e, price) ==
  IF Breaks(e, price) THEN "cancel"
  ELSE IF Reclaims(e, price) THEN "fill"
  ELSE "wait"
=============================================================================
