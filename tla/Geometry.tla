------------------------------- MODULE Geometry -------------------------------
(***************************************************************************)
(* Where an entry, its stop and its target are put: TargetOptimizer         *)
(* (targets/optimizer.py), the target stage and the gates that judge what it*)
(* computed (gates/targets.py, gates/range.py), the zone an entry is armed   *)
(* at (entry/zones.py) and the hourly levels it falls back on               *)
(* (market/levels.py).                                                      *)
(*                                                                          *)
(* Prices and distances are in points.  The policy's fractions and multiples *)
(* are in hundredths, and a fraction of a distance is rounded down to a point*)
(* where the code keeps a float.  A signal's level is 0 when it is missing,  *)
(* unparseable or not positive, which _level and _number make one thing.     *)
(***************************************************************************)
EXTENDS Integers, Sequences

CONSTANTS
  Timeframe, Phase, Regime, Session,
  Policy,  \* policy.json, its names
  Signals, Prices,             \* what is put through: signals and prices;
  Levels, Distances, Markets   \* zones given, distances given, hours of bars

ASSUME PolicyAssumption ==
  /\ Policy.tf_sl_range_pts \in [Timeframe -> [low : Nat \ {0, 1}, high : Nat]]
  /\ \A tf \in Timeframe : Policy.tf_sl_range_pts[tf].low <= Policy.tf_sl_range_pts[tf].high
  /\ Policy.tf_tp_ceiling_pts \in [Timeframe -> Nat]
  /\ Policy.phase_fraction \in [Phase -> 0..100]
  /\ Policy.session_rr \in [Session -> Nat]
  /\ Policy.regime_atr_bias \in [Regime -> Nat]
  /\ Policy.capped \subseteq Regime /\ Policy.regime_rr_cap \in [Policy.capped -> Nat]
  /\ Policy.regime_rr_cap_timeframes \subseteq Timeframe
  /\ {Policy.phase_blend, Policy.sr_blend, Policy.atr_half_weight} \subseteq 0..100
  /\ Policy.sr_buffer_pts \in Nat
  /\ Policy.min_target_rr \in Nat /\ Policy.min_risk_reward \in Nat
  /\ Policy.stop_buffer_pts \in Nat \ {0} /\ Policy.max_stop_pts \in Nat
  /\ Policy.zone_min_pts \in Nat \ {0} /\ Policy.zone_max_pts \in Nat

\* The least target, rounded down to a point, is one the risk-reward gate passes.
ASSUME MarginAssumption ==
  \A tf \in Timeframe :
    (Policy.min_target_rr - Policy.min_risk_reward) * Policy.tf_sl_range_pts[tf].low >= 100

Signal == [direction : {"UP", "DOWN"}, timeframe : Timeframe, phase : Phase,
           regime : Regime, session : Session, atr : Nat,
           support_pts : Nat, resistance_pts : Nat]

Hour == [low : Nat \ {0}, high : Nat \ {0}]

ASSUME InputsAssumption ==
  /\ Signals \subseteq Signal /\ Prices \subseteq Int
  /\ Levels \subseteq Nat /\ Distances \subseteq Nat /\ Markets \subseteq Seq(Hour)

Part(hundredths, pts) == (hundredths * pts) \div 100
Least(a, b) == IF a <= b THEN a ELSE b
Most(a, b) == IF a >= b THEN a ELSE b

-----------------------------------------------------------------------------
(* TargetOptimizer.                                                         *)

Low(s) == Policy.tf_sl_range_pts[s.timeframe].low
High(s) == Policy.tf_sl_range_pts[s.timeframe].high
Clamp(s, x) == Most(Low(s), Least(High(s), x))
Blend(weight, a, b) == Part(weight, a) + Part(100 - weight, b)

\* The level a loss runs into, and the one a gain runs into.
Behind(s) == IF s.direction = "UP" THEN s.support_pts ELSE s.resistance_pts
Ahead(s) == IF s.direction = "UP" THEN s.resistance_pts ELSE s.support_pts

PhaseTarget(s) == Low(s) + Part(Policy.phase_fraction[s.phase], High(s) - Low(s))
AtrScaled(s) ==
  LET atr == IF s.atr = 0 THEN 200 ELSE s.atr
  IN Clamp(s, Part(Policy.regime_atr_bias[s.regime], Part(Policy.atr_half_weight, atr)))

\* Mutant of SlPts: the level's buffered distance, without the bounds.
SlPtsAnchored(s) ==
  LET stop == Clamp(s, Blend(Policy.phase_blend, PhaseTarget(s), AtrScaled(s)))
      anchored == Behind(s) + Policy.sr_buffer_pts
  IN IF Behind(s) > 0 THEN Blend(Policy.sr_blend, anchored, stop) ELSE stop

SlPts(s) ==
  LET stop == Clamp(s, Blend(Policy.phase_blend, PhaseTarget(s), AtrScaled(s)))
      anchored == Behind(s) + Policy.sr_buffer_pts
  IN IF Behind(s) > 0 /\ Low(s) <= anchored /\ anchored <= High(s)
     THEN Clamp(s, Blend(Policy.sr_blend, anchored, stop))
     ELSE stop

\* The least target: the stop at the minimum multiple.
Floor(s) == Part(Policy.min_target_rr, SlPts(s))

\* The level ahead, if it clears the floor, or the session's multiple of the stop.
Structure(s) == Ahead(s) - Policy.sr_buffer_pts
Clears(s) == Ahead(s) > 0 /\ 100 * Structure(s) >= Policy.min_target_rr * SlPts(s)
Aim(s) ==
  IF Clears(s) THEN Structure(s)
  ELSE Part(Most(Policy.session_rr[s.session], Policy.min_target_rr), SlPts(s))

\* Mutant of TpPts: the regime's cap is applied last, below the floor.
TpPtsCappedLast(s) ==
  LET aim == Most(Least(Aim(s), Policy.tf_tp_ceiling_pts[s.timeframe]), Floor(s))
  IN IF s.regime \in Policy.capped /\ s.timeframe \in Policy.regime_rr_cap_timeframes
     THEN Least(aim, Part(Policy.regime_rr_cap[s.regime], SlPts(s)))
     ELSE aim

\* The ceiling caps, the floor lifts, the regime caps, and the floor lifts again.
TpPts(s) ==
  LET aim == Most(Least(Aim(s), Policy.tf_tp_ceiling_pts[s.timeframe]), Floor(s))
  IN IF s.regime \in Policy.capped /\ s.timeframe \in Policy.regime_rr_cap_timeframes
     THEN Most(Least(aim, Part(Policy.regime_rr_cap[s.regime], SlPts(s))), Floor(s))
     ELSE aim

\* A price this far in the direction of a signal, or against it.
Toward(s, price, pts) == IF s.direction = "UP" THEN price + pts ELSE price - pts
ComputeSl(s, price) == Toward(s, price, -SlPts(s))
ComputeTp(s, price) == Toward(s, price, TpPts(s))

-----------------------------------------------------------------------------
(* The gates.                                                               *)

Abs(x) == IF x >= 0 THEN x ELSE -x

\* TargetStage.evaluate: nothing to compute from, or a stop of no distance, is a reject.
EvaluateTargets(s, price) ==
  IF price <= 0 \/ Abs(price - ComputeSl(s, price)) <= 0 THEN [verdict |-> "reject"]
  ELSE [verdict |-> "allow",
        sl |-> ComputeSl(s, price), sl_pts |-> Abs(price - ComputeSl(s, price)),
        tp |-> ComputeTp(s, price), tp_pts |-> Abs(ComputeTp(s, price) - price)]

\* RiskRewardGate.
RiskReward(targets) ==
  IF 100 * targets.tp_pts < Policy.min_risk_reward * targets.sl_pts
  THEN "suppress" ELSE "allow"

-----------------------------------------------------------------------------
(* HourlyLevels and ZoneDerivation.  An hour has a high and a low.          *)

\* _find_swings: hours whose extreme nothing within k hours goes beyond; none
\* are near the ends, and none exist in fewer than 2k + 1 hours.
Around(hours, k, i) == {j \in 1..Len(hours) : i - k <= j /\ j <= i + k}
Interior(hours, k) == (k + 1)..(Len(hours) - k)
SwingLows(hours, k) ==
  {hours[i].low : i \in {i \in Interior(hours, k) :
                           \A j \in Around(hours, k, i) : hours[i].low <= hours[j].low}}
SwingHighs(hours, k) ==
  {hours[i].high : i \in {i \in Interior(hours, k) :
                            \A j \in Around(hours, k, i) : hours[i].high >= hours[j].high}}

\* nearest_support and nearest_resistance: one level, or none.
Nearest(levels, price, isBuy) ==
  LET beyond == {v \in levels : IF isBuy THEN v < price ELSE v > price}
  IN {v \in beyond : \A w \in beyond : IF isBuy THEN w <= v ELSE v <= w}

\* The zone: the signal's own level, or the distance it gave, or a swing.  At most
\* one; the price and the distance are 0 when the signal has none.
ZoneOf(price, isBuy, absolute, distance, swings) ==
  IF absolute > 0 THEN {absolute}
  ELSE IF distance > 0 THEN {IF isBuy THEN price - distance ELSE price + distance}
  ELSE Nearest(swings, price, isBuy)

\* Mutant of Derive: what a level is called is believed.
DeriveUnsided(price, isBuy, absolute, distance, swings) ==
  {[zone_price |-> zone,
    stop_price |-> IF isBuy THEN zone - Policy.stop_buffer_pts ELSE zone + Policy.stop_buffer_pts]
     : zone \in {z \in ZoneOf(price, isBuy, absolute, distance, swings) :
                   /\ Abs(price - z) >= Policy.zone_min_pts
                   /\ Abs(price - z) <= Policy.zone_max_pts
                   /\ Policy.stop_buffer_pts <= Policy.max_stop_pts}}

\* derive: an entry, or none when the zone is too near, too far, or on the wrong
\* side of the price.
Derive(price, isBuy, absolute, distance, swings) ==
  {[zone_price |-> zone,
    stop_price |-> IF isBuy THEN zone - Policy.stop_buffer_pts ELSE zone + Policy.stop_buffer_pts]
     : zone \in {z \in ZoneOf(price, isBuy, absolute, distance, swings) :
                   /\ Abs(price - z) >= Policy.zone_min_pts
                   /\ Abs(price - z) <= Policy.zone_max_pts
                   /\ IF isBuy THEN z < price ELSE z > price
                   /\ Policy.stop_buffer_pts <= Policy.max_stop_pts}}

-----------------------------------------------------------------------------
(* Properties.                                                              *)

\* optimizer.py: "The stop must land inside" its timeframe's range, the target
\* is capped by the ceiling and lifted by the floor, and a level too near to be a
\* target "is an obstacle".  What the target stage allows has its stop within the
\* bounds and on the losing side, its target on the winning side, no nearer than
\* the floor, whatever caps it, and no further than the ceiling unless the floor
\* is; the target passes a known level only when that level is nearer than the
\* floor; and the risk-reward gate, which has a minimum of its own, has nothing
\* left to object to.
MarketEntryHolds(s, price) ==
  LET t == EvaluateTargets(s, price) IN
  t.verdict = "allow" =>
    /\ Low(s) <= t.sl_pts /\ t.sl_pts <= High(s)
    /\ IF s.direction = "UP" THEN t.sl < price /\ price < t.tp
                             ELSE t.tp < price /\ price < t.sl
    /\ Floor(s) <= t.tp_pts /\ t.tp_pts <= Most(Policy.tf_tp_ceiling_pts[s.timeframe], Floor(s))
    /\ Ahead(s) > 0 /\ t.tp_pts > Structure(s)
         => 100 * Structure(s) < Policy.min_target_rr * t.sl_pts
    /\ RiskReward(t) = "allow"
MarketEntriesHold == \A s \in Signals, price \in Prices : MarketEntryHolds(s, price)

\* zones.py: "A support above the market is a mislabelled level, and arming it
\* would place a buy stop where a buy limit was intended."  Whatever the signal
\* calls a level, and whatever the bars were, an armed entry lies between its stop
\* and the price; one the bars gave is at an hour's extreme, and no other swing
\* lies between it and the price.
Swings(hours, k, isBuy) == IF isBuy THEN SwingLows(hours, k) ELSE SwingHighs(hours, k)
Between(a, x, b) == (a < x /\ x < b) \/ (b < x /\ x < a)
ZoneEntryHolds(price, isBuy, absolute, distance, hours, k) ==
  \A e \in Derive(price, isBuy, absolute, distance, Swings(hours, k, isBuy)) :
    /\ IF isBuy THEN e.stop_price < e.zone_price /\ e.zone_price < price
                ELSE price < e.zone_price /\ e.zone_price < e.stop_price
    /\ absolute = 0 /\ distance = 0 =>
         /\ \E i \in DOMAIN hours : e.zone_price \in {hours[i].low, hours[i].high}
         /\ \A v \in Swings(hours, k, isBuy) : ~Between(e.zone_price, v, price)
ZoneEntriesHold ==
  \A price \in Prices, isBuy \in BOOLEAN, absolute \in Levels, distance \in Distances,
     hours \in Markets, k \in 1..2 :
    ZoneEntryHolds(price, isBuy, absolute, distance, hours, k)
=============================================================================
