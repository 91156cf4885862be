----------------------------- MODULE WiredGates -----------------------------
(***************************************************************************)
(* The gate stack that app/server.py wires, as GatePipeline sees it: of each *)
(* gate its declared flags, the verdicts its evaluate can return, and, of    *)
(* the values one gate hands to another through need() and put(), those it   *)
(* always puts and those it may need.  A value a gate needs only for some    *)
(* signals counts as needed, and what only get() reads is left out: a        *)
(* missing one is replaced by a default.                                     *)
(***************************************************************************)
EXTENDS GatePipeline

Values == {"direction", "is_buy", "mid", "execution_price", "spread_pts",
           "tp_pts", "sl_pts", "sl"}

\* base.py: what a gate declares unless it says otherwise, and an evaluate that
\* has nothing to object to.
Plain == [runsWhenRouted |-> TRUE, expensive |-> FALSE, advisory |-> FALSE,
          verdicts |-> {"allow"}, needs |-> {}, puts |-> {}]
Suppressing == [Plain EXCEPT !.verdicts = {"allow", "suppress"}]
\* Gates about a market entry, which do not run for a routed signal.
MarketOnly == [Suppressing EXCEPT !.runsWhenRouted = FALSE]

DirectionGate == [Plain EXCEPT !.verdicts = {"allow", "reject"},
                               !.puts = {"direction", "is_buy"}]
ConfidenceGate == Suppressing
FeedGate == [Plain EXCEPT !.verdicts = {"allow", "reject"},
                          !.needs = {"is_buy"},
                          !.puts = {"mid", "execution_price", "spread_pts"}]
SpreadHardGate == [Suppressing EXCEPT !.needs = {"spread_pts"}]
DeadmanGate == [Suppressing EXCEPT !.expensive = TRUE]
StackLimitGate == [Suppressing EXCEPT !.expensive = TRUE]
EntryCooldownGate == [MarketOnly EXCEPT !.needs = {"direction", "execution_price"}]
ZoneGate == [Plain EXCEPT !.verdicts = {"allow", "route"},
                          !.needs = {"mid", "direction"}]
FlipConfirmGate == Suppressing
SignalCoherenceGate == [Suppressing EXCEPT !.needs = {"direction"}]
ModelCoherenceGate == [Plain EXCEPT !.advisory = TRUE]
SessionGate == Suppressing
RegimeContextGate == [Plain EXCEPT !.verdicts = {"allow", "route"}]
LondonBiasGate ==
  [MarketOnly EXCEPT !.needs = {"direction", "execution_price", "spread_pts"}]

\* Mutant of TargetStage: a stop that cannot be computed is let through.
TargetStageLenient == [Plain EXCEPT !.needs = {"execution_price"},
                                    !.puts = {"tp_pts", "sl_pts"}]

TargetStage == [Plain EXCEPT !.verdicts = {"allow", "reject"},
                             !.needs = {"execution_price"},
                             !.puts = {"sl", "tp_pts", "sl_pts"}]
SpreadViabilityGate == [MarketOnly EXCEPT !.needs = {"spread_pts", "tp_pts"}]
RangeAdequacyGate == [MarketOnly EXCEPT !.needs = {"direction", "sl_pts"}]
RiskRewardGate == [MarketOnly EXCEPT !.needs = {"tp_pts", "sl_pts"}]
SessionExhaustionGate ==
  [MarketOnly EXCEPT !.expensive = TRUE, !.needs = {"execution_price", "direction"}]
\* Advisory unless policy enforces the ledger.
EdgeLedgerGate(enforce) == IF enforce THEN Suppressing
                           ELSE [Plain EXCEPT !.advisory = TRUE]
ViabilityGate ==
  [MarketOnly EXCEPT !.expensive = TRUE,
                     !.needs = {"sl_pts", "direction", "execution_price"}]

\* Mutant of Wired: the targets come after gates that judge them.
WiredTargetsLate(enforce) ==
  <<DirectionGate, ConfidenceGate, FeedGate, SpreadHardGate, DeadmanGate,
    StackLimitGate, EntryCooldownGate, ZoneGate, FlipConfirmGate,
    SignalCoherenceGate, ModelCoherenceGate, SessionGate, RegimeContextGate,
    LondonBiasGate, SpreadViabilityGate, RangeAdequacyGate, TargetStage,
    RiskRewardGate, SessionExhaustionGate, EdgeLedgerGate(enforce),
    ViabilityGate>>

\* server.py, _gates.
Wired(enforce) ==
  <<DirectionGate, ConfidenceGate, FeedGate, SpreadHardGate, DeadmanGate,
    StackLimitGate, EntryCooldownGate, ZoneGate, FlipConfirmGate,
    SignalCoherenceGate, ModelCoherenceGate, SessionGate, RegimeContextGate,
    LondonBiasGate, TargetStage, SpreadViabilityGate, RangeAdequacyGate,
    RiskRewardGate, SessionExhaustionGate, EdgeLedgerGate(enforce),
    ViabilityGate>>
WiredStacks == {Wired(enforce) : enforce \in BOOLEAN}

\* What the engine reads of the derived values when it acts: _execute needs
\* them all, and the watcher arms against the price and the direction.
ExecuteNeeds == {"is_buy", "execution_price", "sl", "direction", "mid"}
ArmReads == {"execution_price", "direction"}

\* Whatever the stack lets through, and whatever gates raised on the way, the
\* engine finds every value it acts on.
ActsOnWhatWasPut ==
  stack \in WiredStacks /\ returned =>
    /\ action = "allow" => ExecuteNeeds \subseteq derived
    /\ action = "route" => ArmReads \subseteq derived
=============================================================================
