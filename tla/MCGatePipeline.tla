--------------------------- MODULE MCGatePipeline ---------------------------
(* Every stack of up to three gates with any flags, whose gates may return   *)
(* any verdict, the two stacks that the server wires, and inputs for the      *)
(* geometry that the gates of those stacks judge.                            *)
EXTENDS Acting

AnyGate == [runsWhenRouted : BOOLEAN, expensive : BOOLEAN, advisory : BOOLEAN,
            verdicts : {Verdict}, needs : {{}}, puts : {{}}]
UpToThree == UNION {[1..n -> AnyGate] : n \in 1..3}
ShortAndWired == UpToThree \union WiredStacks

\* A run of a wired stack is told apart by what its continuation can depend on:
\* how far it is, what has been put, what has bound, and whether a gate raised.
Progress == <<stack, Len(results), derived, routed, bound, outcome, returned,
              raised = {}>>
Distinct == <<Progress, IF stack \in WiredStacks THEN <<>> ELSE <<results, raised>>>>

\* policy.json, in hundredths where it has fractions, for two of its timeframes.
Timeframes == {"5m", "1h"}
Phases == {"fresh", "active", "exhausting"}
Regimes == {"trending", "volatile", "ranging"}
Sessions == {"London", "NY PM"}
DeployedPolicy ==
  [tf_sl_range_pts |-> [tf \in Timeframes |-> IF tf = "5m" THEN [low |-> 400, high |-> 500]
                                                          ELSE [low |-> 500, high |-> 900]],
   tf_tp_ceiling_pts |-> [tf \in Timeframes |-> IF tf = "5m" THEN 900 ELSE 2200],
   phase_fraction |-> [p \in Phases |-> CASE p = "fresh" -> 90 [] p = "active" -> 65
                                          [] OTHER -> 30],
   session_rr |-> [s \in Sessions |-> IF s = "London" THEN 200 ELSE 120],
   regime_atr_bias |-> [r \in Regimes |-> CASE r = "trending" -> 100 [] r = "volatile" -> 130
                                            [] OTHER -> 70],
   capped |-> {"ranging", "volatile"},
   regime_rr_cap |-> [r \in {"ranging", "volatile"} |-> IF r = "ranging" THEN 150 ELSE 120],
   regime_rr_cap_timeframes |-> {"5m"},
   phase_blend |-> 60, sr_blend |-> 70, atr_half_weight |-> 50, sr_buffer_pts |-> 15,
   min_target_rr |-> 150, min_risk_reward |-> 100,
   stop_buffer_pts |-> 600, max_stop_pts |-> 1400, zone_min_pts |-> 80, zone_max_pts |-> 400]

\* Levels out of, at the edges of and inside the bounds; and the levels of a
\* market of up to five hours.
SomeSignals ==
  [direction : {"UP", "DOWN"}, timeframe : Timeframes, phase : Phases, regime : Regimes,
   session : Sessions, atr : {0, 900, 3000},
   support_pts : {0, 384, 385, 700, 1400}, resistance_pts : {0, 384, 385, 700, 1400}]
Somewhere == {0, 5000}
Away == {0, 50, 300}
Near == {0, 4300, 4700, 5000, 5200}
SomeHours == {[low |-> a, high |-> b] : a \in {4600, 4800}, b \in {5100, 5300}}
UpToFiveHours == UNION {[1..n -> SomeHours] : n \in 0..5}
=============================================================================
