-------------------------------- MODULE Acting --------------------------------
(***************************************************************************)
(* What the engine does with what the stack lets through: it orders at the   *)
(* stop and the target that the target stage computed, or arms the zone that *)
(* the watcher derives (Engine._execute and Engine._route, execution/        *)
(* engine.py).  The stacks are those of WiredGates, the numbers Geometry's.  *)
(***************************************************************************)
EXTENDS WiredGates, Geometry

\* optimizer.py and zones.py together: whatever gates were skipped, raised or
\* objected on the way, a signal is acted on only with the values that some gate
\* has put; it is ordered only with a stop and a target that are where
\* MarketEntryHolds says, for whatever signal it was; and one that is routed, by any
\* gate, even one before the target stage, is armed only where ZoneEntryHolds says.
EntriesHold ==
  /\ ActsOnWhatWasPut
  /\ stack \in WiredStacks /\ returned =>
       /\ action = "allow" => MarketEntriesHold
       /\ action = "route" => ZoneEntriesHold
=============================================================================
