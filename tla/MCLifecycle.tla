----------------------------- MODULE MCLifecycle -----------------------------
(* Instances of Lifecycle for TLC, and charts for the verdicts that its      *)
(* resolver writes down.                                                     *)
EXTENDS Measuring

One == {"signal"}

\* Up to two bars around 10, closed anywhere, and three that all contain 10.
SmallBar == {b \in [low : 8..11, high : 9..12, close : 8..12] :
               b.low <= b.close /\ b.close <= b.high}
TinyBar == {b \in SmallBar : b.low <= 10 /\ 10 <= b.high /\ b.close = b.low}
UpToThreeBars == {<<>>} \union [1..1 -> SmallBar] \union [1..2 -> SmallBar] \union [1..3 -> TinyBar]
Few == {0, 1, 2}
Ten == {10}
=============================================================================
