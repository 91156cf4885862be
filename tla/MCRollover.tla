----------------------------- MODULE MCRollover -----------------------------
(* Instances of Rollover for TLC.                                            *)
EXTENDS Rollover

CONSTANTS d1, d2
OneDecision == {d1}
TwoDecisions == {d1, d2}

\* That a log is anchored matters to none but the closing that replaces it, when it
\* looks it up: the instance has a drain land a log once some closing replaces it.
AnchoredWhenSeen ==
  \A log \in Log :
    index[log] = "none" /\ index'[log] = "Active" => \E w \in Writers : closer[w].previous = log
=============================================================================
