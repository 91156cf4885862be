------------------------------ MODULE Measuring ------------------------------
(***************************************************************************)
(* The resolver's life cycle (Lifecycle) with the verdict it computes        *)
(* (Judgement): OutcomeResolver.tick fetches the bars of a signal's horizon, *)
(* classifies them and writes down what it found (resolve/resolver.py).      *)
(***************************************************************************)
EXTENDS Lifecycle, Judgement

\* resolver.py measures every decision, refusals included, and what it has once
\* written is never judged again: so of no signal whose outcome has been written,
\* whatever its bars were, does it say more than the worst of what they allow.
SpokenIsWorst == spoken # {} => VerdictIsWorst
=============================================================================
