--------------------------------- MODULE Nvnm ---------------------------------
(***************************************************************************)
(* NvnmBackend and Web3Transport (zcastor/anchor/nvnm.py): one account that  *)
(* sends one transaction at a time to a chain that may be out of reach, and  *)
(* whose transactions are mined in the order of their nonces.                *)
(*                                                                          *)
(* A nonce is counted from the number of transactions mined: waiting[i] is   *)
(* the transaction of the i-th nonce not mined yet.                          *)
(***************************************************************************)
EXTENDS Integers, Sequences, SequencesExt

CONSTANTS
  Entry,       \* PendingRecords
  Call,        \* what is asked of the chain for each, and what the record lacks
  Unanswered,  \* entries to which the node has only errors of unknown wording
  Refused,     \* entries the chain refuses, at once or once they are mined
  Misworded    \* entries to which the node may call a nonce that is taken invalid

Field == {"checksum", "registry_id", "record_id"}
ASSUME CallsAssumption ==
  /\ Call \in [Entry -> [function : {"addRecord", "updateRecordStatus"}, lacks : SUBSET Field]]
  /\ Unanswered \subseteq Entry /\ Refused \subseteq Entry /\ Misworded \subseteq Entry

VARIABLES
  waiting,   \* transactions the chain has and has not mined
  copies,    \* records of each entry on the chain; two stand for more
  unheard,   \* entries of which a transaction was mined and nobody learned it
  awaiting,  \* the entry whose receipt a call waits for, if any,
  receipt,   \* and what there is of it
  reachable  \* the chain answers, and mines in time

chain == <<waiting, copies, unheard>>
call == <<awaiting, receipt>>
NoEntry == "none"
ASSUME NoEntryAssumption == NoEntry \notin Entry

ChainInit ==
  /\ waiting = <<>> /\ copies = [e \in Entry |-> 0] /\ unheard = {}
  /\ awaiting = NoEntry /\ receipt = "none" /\ reachable \in BOOLEAN

\* add_record and update_status refuse a record the chain could make nothing of.
Needed == [addRecord |-> {"checksum", "registry_id"},
           updateRecordStatus |-> {"record_id", "registry_id"}]
Malformed(e) == Call[e].lacks \intersect Needed[Call[e].function] # {}

\* _classify: an error with one of _PERMANENT_MARKERS is permanent; any other, a
\* taken nonce and a receipt that did not come included, is transient, unless the node
\* calls the nonce invalid.
Permanent == {"unauthorized", "invalid nonce"}
Classify(error) == IF error \in Permanent THEN "permanent" ELSE "transient"

\* Mutant of Nonce: what waits is counted as well.
NoncePending == Len(waiting) + 1

\* get_transaction_count: the transactions mined.
Nonce == 1

\* The chain takes the transaction, or one that pays more in place of the one that
\* has its nonce; that one it takes is underway is all a call then knows.
Send(e) ==
  /\ ~Malformed(e) /\ e \notin Unanswered
  /\ IF Nonce > Len(waiting) THEN waiting' = Append(waiting, e)
     ELSE waiting' = [waiting EXCEPT ![Nonce] = e]
  /\ awaiting' = e /\ receipt' = "none"
  /\ UNCHANGED <<copies, unheard>>

\* What a call for e raises when no transaction comes of it: the record is refused
\* here, there is no chain, the node objects to the call, or the nonce is taken.
Says(e) ==
  IF ~reachable THEN {"unreachable"}
  ELSE UNION {IF e \in Unanswered THEN {"unrecognised"} ELSE {},
              IF e \in Refused THEN {"unauthorized"} ELSE {},
              IF Nonce > Len(waiting) THEN {}
              ELSE {"nonce taken"} \union (IF e \in Misworded THEN {"invalid nonce"} ELSE {})}
Raises(e, kind) ==
  /\ awaiting = NoEntry
  /\ IF Malformed(e) THEN kind = "permanent" ELSE \E error \in Says(e) : kind = Classify(error)

\* The call ends; if the receipt it does not read is there, nobody learns of it.
Hang ==
  /\ awaiting' = NoEntry /\ receipt' = "none"
  /\ unheard' = IF receipt = "ok" THEN unheard \union {awaiting} ELSE unheard
  /\ UNCHANGED <<waiting, copies>>

\* The receipt is there, and read; a status other than 1 is a rejection.
Read(status) ==
  /\ awaiting # NoEntry /\ receipt = status
  /\ awaiting' = NoEntry /\ receipt' = "none"
  /\ UNCHANGED chain

\* A transaction is mined, and maybe someone waits for its receipt.
Mine ==
  LET e == Head(waiting)
      ok == e \notin Refused
      awaited == awaiting = e /\ Len(waiting) = 1
  IN /\ waiting # <<>> /\ waiting' = Tail(waiting)
     /\ copies' = IF ok /\ copies[e] < 2 THEN [copies EXCEPT ![e] = @ + 1] ELSE copies
     /\ receipt' = IF awaited THEN (IF ok THEN "ok" ELSE "revert") ELSE receipt
     /\ unheard' = IF ok /\ ~awaited THEN unheard \union {e} ELSE unheard
     /\ UNCHANGED <<awaiting, reachable>>

ChainChanges == reachable' = ~reachable /\ UNCHANGED <<chain, call>>

-----------------------------------------------------------------------------
\* nvnm.py: "Wrong in the safe direction costs a retry."  It costs no more than
\* that: however often a call is retried, no two of its transactions are underway
\* at once, and a second copy of a record is on the chain only if one of them was
\* mined with nobody to hear of it.
RetriesCostNothing ==
  /\ IsInjective(waiting)
  /\ \A e \in Entry : copies[e] > 1 => e \in unheard
=============================================================================
