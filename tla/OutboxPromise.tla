---------------------------- MODULE OutboxPromise ----------------------------
(***************************************************************************)
(* What the outbox promises its callers (zcastor/anchor/outbox.py, module   *)
(* docstring): once owed, the anchoring of a key stays owed until it is     *)
(* settled, it is settled only after a record landed, and no record lands   *)
(* for a key that is not owed or is already settled.                        *)
(***************************************************************************)
EXTENDS Naturals

CONSTANT Key

VARIABLES owed,     \* keys the outbox has taken on
          settled,  \* keys it knows to be anchored
          copies    \* records per key on the chain

vars == <<owed, settled, copies>>

Init == owed = {} /\ settled = {} /\ copies = [k \in Key |-> 0]

TakeOn(k) ==
  /\ k \notin owed
  /\ owed' = owed \union {k}
  /\ UNCHANGED <<settled, copies>>

Submit(k) ==
  /\ k \in owed \ settled
  /\ copies' = [copies EXCEPT ![k] = copies[k] + 1]
  /\ UNCHANGED <<owed, settled>>

Settle(k) ==
  /\ k \in owed \ settled /\ copies[k] > 0
  /\ settled' = settled \union {k}
  /\ UNCHANGED <<owed, copies>>

Next == \E k \in Key : TakeOn(k) \/ Submit(k) \/ Settle(k)

Spec == Init /\ [][Next]_vars
=============================================================================
