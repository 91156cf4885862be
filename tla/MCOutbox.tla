------------------------------ MODULE MCOutbox ------------------------------
(* Instances of Outbox for TLC: two entries of one key, one of another.     *)
EXTENDS Outbox, TLC

CONSTANTS e1, e2, e3, k1, k2, engine, resolver

MCKey == {k1, k2}
Three == {e1, e2, e3}
ThreeKeyOf == (e1 :> k1) @@ (e2 :> k1) @@ (e3 :> k2)
Twins == {e1, e2}
TwinsKeyOf == (e1 :> k1) @@ (e2 :> k1)
Strangers == {e1, e3}
StrangersKeyOf == (e1 :> k1) @@ (e3 :> k2)
TwoCallers == {engine, resolver}
OneCaller == {engine}

\* Outbox as far as its compactions are clean, the premise of its theorems.
CleanSpec == Init /\ [][Next /\ CleanCompaction]_vars

\* What the compaction run is restricted to, so that it shows compact() alone:
\* no enqueue is between its checks and its insertion while it runs.
QuietCompaction ==
  dpc["loop"] = "replace" => \A c \in Callers : pc[c] = "idle"

\* The callers are interchangeable, and so are the entries of one key.
Interchangeable == Permutations(TwoCallers) \union Permutations({e1, e2})
=============================================================================
