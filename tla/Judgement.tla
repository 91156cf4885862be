------------------------------ MODULE Judgement ------------------------------
(***************************************************************************)
(* What became of a signal: classify (resolve/classify.py), the verdict the *)
(* resolver writes down for every decision, from the bars of its horizon.   *)
(*                                                                          *)
(* A bar is the range the bid was in.  Bars and spreads are in points, as are*)
(* the reference price, which is a bid, and the distances.  A position is     *)
(* bought at the ask and sold at the bid: the ask is the bid and the spread.  *)
(***************************************************************************)
EXTENDS Integers, Sequences

Bar == [low : Int, high : Int, close : Int]
Outcome == {"sl", "tp", "timeout"}

CONSTANTS
  Charts,      \* what is judged: sequences of bars,
  RefPrices, Spreads, Distances,  \* references, spreads, stops and targets
  DefaultRR    \* hundredths of a stop, for a signal without a target

ASSUME ChartsAssumption ==
  /\ Charts \subseteq Seq({b \in Bar : b.low <= b.close /\ b.close <= b.high})
  /\ RefPrices \subseteq Int /\ Spreads \subseteq Nat /\ Distances \subseteq Nat
  /\ DefaultRR \in Nat

Entry(buy, ref, spread) == IF buy THEN ref + spread ELSE ref
\* A target of none is derived from the stop, to the nearest point.
Target(sl, tp) == IF sl > 0 /\ tp <= 0 THEN (sl * DefaultRR + 50) \div 100 ELSE tp

StopAt(bar, buy, ref, spread, sl) ==
  IF buy THEN bar.low <= Entry(buy, ref, spread) - sl
         ELSE bar.high + spread >= Entry(buy, ref, spread) + sl
TargetAt(bar, buy, ref, spread, tp) ==
  IF buy THEN bar.high >= Entry(buy, ref, spread) + tp
         ELSE bar.low + spread <= Entry(buy, ref, spread) - tp

\* Mutant of Scan: the target is looked at first.
ScanTargetFirst(bars, buy, ref, spread, sl, tp) ==
  LET Stops(i) == StopAt(bars[i], buy, ref, spread, sl)
      Targets(i) == TargetAt(bars[i], buy, ref, spread, tp)
      Quiet(i) == \A j \in 1..i : ~Stops(j) /\ ~Targets(j)
  IN IF \E i \in DOMAIN bars : Quiet(i - 1) /\ Targets(i) THEN "tp"
     ELSE IF \E i \in DOMAIN bars : Quiet(i - 1) /\ Stops(i) THEN "sl"
     ELSE "timeout"

\* The loop: the first bar that touches either; the stop, when it touches both.
Scan(bars, buy, ref, spread, sl, tp) ==
  LET Stops(i) == StopAt(bars[i], buy, ref, spread, sl)
      Targets(i) == TargetAt(bars[i], buy, ref, spread, tp)
      Quiet(i) == \A j \in 1..i : ~Stops(j) /\ ~Targets(j)
  IN IF \E i \in DOMAIN bars : Quiet(i - 1) /\ Stops(i) THEN "sl"
     ELSE IF \E i \in DOMAIN bars : Quiet(i - 1) /\ Targets(i) THEN "tp"
     ELSE "timeout"

\* No stop, no verdict but the last close's.
OutcomeOf(bars, buy, ref, spread, sl, tp) ==
  IF sl > 0 /\ Target(sl, tp) > 0 THEN Scan(bars, buy, ref, spread, sl, Target(sl, tp))
  ELSE "timeout"

NetPts(bars, buy, ref, spread, sl, tp) ==
  LET outcome == OutcomeOf(bars, buy, ref, spread, sl, tp)
      last == bars[Len(bars)].close
  IN CASE outcome = "sl" -> -sl
       [] outcome = "tp" -> Target(sl, tp)
       [] buy -> last - Entry(buy, ref, spread)
       [] OTHER -> Entry(buy, ref, spread) - last - spread

\* Nothing, or a verdict: whether the trade won, and whether the price went where
\* the signal said, whatever its stop made of that.
Verdict(bars, buy, ref, spread, sl, tp) ==
  IF bars = <<>> THEN {}
  ELSE LET net == NetPts(bars, buy, ref, spread, sl, tp)
           last == bars[Len(bars)].close
       IN {[outcome |-> OutcomeOf(bars, buy, ref, spread, sl, tp),
            net_pts |-> net, won |-> net > 0,
            correct |-> IF buy THEN last > ref ELSE ref > last]}

-----------------------------------------------------------------------------
(* The reference: a price that walks through the bars.                      *)

\* In each bar the bid visits both ends, the low first or the high first, and so
\* a walk is a sequence of half bars.
Walks(bars) == [DOMAIN bars -> BOOLEAN]
HalfBars(bars) == [bar : DOMAIN bars, half : 1..2]
Bid(bars, lowFirst, t) ==
  IF lowFirst[t.bar] <=> t.half = 1 THEN bars[t.bar].low ELSE bars[t.bar].high
Earlier(t, u) == t.bar < u.bar \/ (t.bar = u.bar /\ t.half < u.half)

\* What the position would fetch at a bid: it was opened on one side of the spread
\* and is closed on the other.
Gain(buy, ref, spread, bid) ==
  IF buy THEN bid - (ref + spread) ELSE ref - (bid + spread)

\* How a position with this stop and this target ends on a walk.
Held(bars, lowFirst, buy, ref, spread, sl, tp) ==
  LET At(t) == Gain(buy, ref, spread, Bid(bars, lowFirst, t))
      Undecided(t) == \A u \in HalfBars(bars) : Earlier(u, t) => -sl < At(u) /\ At(u) < tp
  IN IF \E t \in HalfBars(bars) : Undecided(t) /\ At(t) <= -sl THEN "sl"
     ELSE IF \E t \in HalfBars(bars) : Undecided(t) /\ At(t) >= tp THEN "tp"
     ELSE "timeout"

\* classify.py: "Same-bar stop and target resolves to the stop ... assuming the
\* good one turns a coin flip into free money on paper."  For either direction and
\* any spread, the verdict is the worst of what a position would have come to over
\* all the walks the bars allow: a target only when every walk reaches it first, a
\* stop only when some walk does, and a timeout only when none ends.
IsWorst(bars, buy, ref, spread, sl, tp) ==
  LET verdict == OutcomeOf(bars, buy, ref, spread, sl, tp)
      held == {Held(bars, lowFirst, buy, ref, spread, sl, Target(sl, tp)) : lowFirst \in Walks(bars)}
  IN sl > 0 /\ Target(sl, tp) > 0 =>
       CASE verdict = "sl" -> "sl" \in held
         [] verdict = "tp" -> held = {"tp"}
         [] verdict = "timeout" -> held = {"timeout"}
VerdictIsWorst ==
  \A bars \in Charts, buy \in BOOLEAN, ref \in RefPrices, spread \in Spreads,
     sl \in Distances, tp \in Distances : IsWorst(bars, buy, ref, spread, sl, tp)
=============================================================================
