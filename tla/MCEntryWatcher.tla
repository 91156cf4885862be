--------------------------- MODULE MCEntryWatcher ---------------------------
(* Instances of EntryWatcher for TLC.  The prices are the ones at which the  *)
(* tests of a buy at level 4 change their answer: collapsed (depth -4),      *)
(* broken (-2, which is also swept), touched (1), reclaimed and far enough   *)
(* to arm (3).                                                               *)
EXTENDS EntryWatcher

MCPrices == {0, 2, 5, 7}
One == {"signal"}
BuyAtFour == [signal |-> [buy |-> TRUE, zone |-> 4]]
MCExpiry == [s \in Signal |-> 0]

\* Of the histories, what EndsOnce and FillsFollowTheThesis tell apart.
Unexplained == [s \in Signal |-> positions[s] - unread[s] - crossed[s]]
Seen == <<now, cache, table, threads, cycle, bridge, counts, Unexplained, ending, low>>
=============================================================================
