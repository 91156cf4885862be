------------------------------- MODULE Booking -------------------------------
(***************************************************************************)
(* From a decision to a booked trade on MT5: what Engine.process does with  *)
(* the gates that remember earlier trades (gates/stack.py, gates/cooldown.py,*)
(* gates/zone.py), the order, the journal and the memories it feeds         *)
(* (execution/engine.py, app/server.py), and the close poller that books    *)
(* what has ended (execution/booking.py).  They share one broker, one       *)
(* journal on disk, and MarketData's cached list of open positions          *)
(* (market/mt5.py), which only a new decision clears.                       *)
(*                                                                          *)
(* One thread per signal, one that polls.  A step is one access to something*)
(* shared.  A signal opens at most one position, whose ticket is the signal;*)
(* of a signal whose order is sent again (EntryWatcher's OrderRaises), the   *)
(* position whose answer was lost is the one of NoOrder, and the one that is *)
(* sent again is as another signal's.                                        *)
(* Every price is in one bucket of the zone memory, and within the cooldown's*)
(* distance of every other.                                                 *)
(***************************************************************************)
EXTENDS Naturals, FiniteSets

CONSTANTS
  Signal,       \* signals, each with its own call of Engine.process
  Dir, Frame,   \* the direction and the timeframe of each
  Suppressors,  \* timeframes higher in the hierarchy that suppress this one
  Limit,        \* max_position_stack
  Block,        \* block_entries: they exhaust a direction of the zone,
  Compress,     \* fast_compress_entries: and so do these, within the fast window
  MaxMishaps    \* bound: failed calls to the broker or the disk, and restarts

ASSUME BookingAssumption ==
  /\ IsFiniteSet(Signal) /\ Dir \in [Signal -> {"UP", "DOWN"}]
  /\ {Limit, Block, Compress} \subseteq Nat \ {0} /\ MaxMishaps \in Nat
  /\ "poll" \notin Signal /\ "none" \notin Signal

VARIABLES
  position,  \* at the broker: "none", "open", partly closed, "closed"
  journal,   \* the trade of a ticket: "absent", "open", "closed"
  booked,    \* the result it was closed with: of all of it, or of a part
  ledger,    \* tickets whose result the edge ledger has
  cache,     \* MarketData._cache["positions"]: nothing, or one answer
  pc, got,   \* each thread's step, and the list of positions it holds
  verdict,   \* what the gates have said of a signal so far
  entries,   \* ZoneTracker: live entries of each direction and timeframe
  cooldown,  \* EntryCooldownGate: nothing, or the last fill's direction
  left, cur,  \* the poll: tickets to book, the one at hand
  mishaps,
  \* History.
  before,    \* positions open when a signal began
  misread,   \* tickets that a poll's list lacked though they were open
  lost       \* tickets whose order, entry or result a fault or a crash took

broker == <<position>>
books == <<journal, booked, ledger>>
memory == <<entries, cooldown>>
poller == <<left, cur>>
history == <<before, misread, lost>>
vars == <<broker, books, cache, pc, got, verdict, memory, poller, mishaps, history>>

Threads == Signal \union {"poll"}
Alive == {t \in Signal : position[t] \in {"open", "part"}}
Opened == {t \in Signal : journal[t] = "open"}
NoTicket == "none"
ZoneKey == {<<Dir[s], Frame[s]>> : s \in Signal}

\* An answer: the tickets listed, and whether that was old, or no answer at all,
\* when a signal began that reads it.
Answer == [tickets : SUBSET Signal, blind : BOOLEAN]
NoList == [tickets |-> {}, blind |-> FALSE]

Init ==
  /\ position = [t \in Signal |-> "none"] /\ journal = [t \in Signal |-> "absent"]
  /\ booked = [t \in Signal |-> "none"] /\ ledger = {}
  /\ cache = {}
  /\ pc = [t \in Threads |-> IF t = "poll" THEN "idle" ELSE "new"]
  /\ got = [t \in Threads |-> NoList] /\ verdict = [s \in Signal |-> "allow"]
  /\ entries = [k \in ZoneKey |-> 0] /\ cooldown = {}
  /\ left = {} /\ cur = NoTicket
  /\ mishaps = 0
  /\ before = [s \in Signal |-> {}] /\ misread = {} /\ lost = {}

At(t, from, to) == pc[t] = from /\ pc' = [pc EXCEPT ![t] = to]
Mishap == mishaps < MaxMishaps /\ mishaps' = mishaps + 1

-----------------------------------------------------------------------------
(* get_open_positions, by any thread: look, ask the broker, store.  The step *)
(* names say what the list is for: "stack" for the gate, "spent" for closing *)
(* a direction, "diff" for the poll.                                         *)

Uses == {"stack", "spent", "diff"}
Look == [stack |-> "stackLook", spent |-> "spentLook", diff |-> "diffLook"]
Keep == [stack |-> "stackKeep", spent |-> "spentKeep", diff |-> "diffKeep"]

\* _cached finds the list.
Hit(t, use) ==
  /\ At(t, Look[use], use)
  /\ cache # {} /\ got' = [got EXCEPT ![t] = CHOOSE answer \in cache : TRUE]
  /\ UNCHANGED <<broker, books, cache, verdict, memory, poller, mishaps, history>>
\* _fetch_positions: what positions_get says, or nothing when it raises.
Ask(t, use) ==
  /\ cache = {} /\ At(t, Look[use], Keep[use])
  /\ \/ /\ got' = [got EXCEPT ![t] = [tickets |-> Alive, blind |-> FALSE]]
        /\ UNCHANGED mishaps
     \/ Mishap /\ got' = [got EXCEPT ![t] = [tickets |-> {}, blind |-> TRUE]]
  /\ UNCHANGED <<broker, books, cache, verdict, memory, poller, history>>
Store(t, use) ==
  /\ At(t, Keep[use], use)
  /\ cache' = {got[t]}
  /\ UNCHANGED <<broker, books, got, verdict, memory, poller, mishaps, history>>
Positions(t) == \E use \in Uses : Hit(t, use) \/ Ask(t, use) \/ Store(t, use)

\* A thread's list goes out of scope; so do, when it ends, all locals of a call.
Forget(t) == got' = [got EXCEPT ![t] = NoList]
Locals(s, v) ==
  LET over == pc'[s] = "done" IN
  /\ verdict' = [verdict EXCEPT ![s] = IF over THEN "allow" ELSE v]
  /\ got' = [got EXCEPT ![s] = IF over THEN NoList ELSE @]
  /\ before' = [before EXCEPT ![s] = IF over THEN {} ELSE @]

-----------------------------------------------------------------------------
(* Engine.process: the gates.                                               *)

\* An answer some thread still holds is older than the decision that begins.
Aged == [t \in Threads |->
           IF pc[t] \in {Keep[use] : use \in Uses} THEN [got[t] EXCEPT !.blind = TRUE]
           ELSE got[t]]

\* market.begin() clears the cache.  The first gates may suppress the signal:
\* the stack limit, being expensive, is then skipped.
Begin(s) ==
  /\ \E objected \in BOOLEAN :
       /\ At(s, "new", IF objected THEN "zone" ELSE Look.stack)
       /\ verdict' = [verdict EXCEPT ![s] = IF objected THEN "suppress" ELSE "allow"]
  /\ cache' = {} /\ got' = Aged
  /\ before' = [before EXCEPT ![s] = Alive]
  /\ UNCHANGED <<broker, books, memory, poller, mishaps, misread, lost>>

\* Any other signal, which the gates reject: it clears the cache too.
BeginElsewhere ==
  /\ cache' = {} /\ got' = Aged
  /\ UNCHANGED <<broker, books, pc, verdict, memory, poller, mishaps, history>>

\* What _notify_fill hands to record_fill: the side of the order.
Side(d) == IF d = "UP" THEN "BUY" ELSE "SELL"

\* Mutant of Full: the limit itself is allowed.
FullLate(s) == Cardinality(got[s].tickets) > Limit

\* StackLimitGate: the positions listed against the limit.
Full(s) == Cardinality(got[s].tickets) >= Limit

\* EntryCooldownGate: unless the cooldown is over, for this and every later
\* signal, the direction of ctx is compared with what was recorded.
Cooling(s) == Dir[s] \in cooldown'

StackAndCooldown(s) ==
  /\ At(s, "stack", "zone")
  /\ cooldown' \in {{}, cooldown}
  /\ verdict' = [verdict EXCEPT ![s] = IF Full(s) \/ Cooling(s) THEN "suppress" ELSE @]
  /\ UNCHANGED <<broker, books, cache, got, entries, poller, mishaps, history>>

\* What the engine does with the verdict.
Acts(v) == CASE v = "allow" -> "order" [] v = "route" -> "armed" [] OTHER -> "done"

\* The zones ZoneTracker.check looks at: the signal's own, and the same direction's
\* in every higher timeframe that suppresses the signal's.
Own(s) == <<Dir[s], Frame[s]>>
Looked(s) == {Own(s)} \union (({Dir[s]} \X Suppressors[Frame[s]]) \intersect ZoneKey)

\* What _live leaves of the entries: those that left the window are forgotten when
\* their zone is looked at.
Live(zones) ==
  {live \in [ZoneKey -> 0..Cardinality(Signal)] :
     \A k \in ZoneKey : IF k \in zones THEN live[k] <= entries[k] ELSE live[k] = entries[k]}

\* Whether one of the zones is spent: Block live entries spend it, and Compress of
\* them if they are within the fast window.
Blocked(live, zones) ==
  {spent \in BOOLEAN :
     /\ (\E k \in zones : live[k] >= Block) => spent
     /\ spent => \E k \in zones : live[k] >= Block \/ live[k] >= Compress}

\* ZoneGate, and the gates after it: each may object, or route; a spent zone
\* routes what nobody has suppressed.  A rejection ends the call.
ZoneGate(s) ==
  /\ pc[s] = "zone"
  /\ \E live \in Live(Looked(s)), says \in {"allow", "route", "suppress", "reject"} :
     \E spent \in Blocked(live, Looked(s)) :
       LET v == IF "suppress" \in {verdict[s], says} THEN "suppress"
                ELSE IF spent THEN "route" ELSE says
       IN /\ entries' = live
          /\ pc' = [pc EXCEPT ![s] = IF says = "reject" THEN "done"
                                     ELSE IF spent THEN Look.spent ELSE Acts(v)]
          /\ Locals(s, v)
  /\ UNCHANGED <<broker, books, cache, cooldown, poller, mishaps, misread, lost>>

-----------------------------------------------------------------------------
(* Engine.process: acting.                                                  *)

\* _close_exhausted_direction: close_position for each listed position of the
\* direction, whatever became of the signal.  The broker refuses a ticket that
\* is closed already.
CloseSpent(s, t) ==
  /\ pc[s] = "spent" /\ t \in got[s].tickets /\ Dir[t] = Dir[s]
  /\ got' = [got EXCEPT ![s].tickets = @ \ {t}]
  /\ \/ /\ position' = [position EXCEPT ![t] = IF t \in Alive THEN "closed" ELSE @]
        /\ UNCHANGED mishaps
     \/ Mishap /\ UNCHANGED position
  /\ UNCHANGED <<books, cache, pc, verdict, memory, poller, history>>
Spent(s) ==
  /\ \A t \in got[s].tickets : Dir[t] # Dir[s]
  /\ At(s, "spent", Acts(verdict[s])) /\ Locals(s, verdict[s])
  /\ UNCHANGED <<broker, books, cache, memory, poller, mishaps, misread, lost>>

\* market_order, for the engine or, when it fires an armed entry, the watcher.
Order(s) ==
  /\ pc[s] \in {"order", "armed"} /\ pc' = [pc EXCEPT ![s] = "journal"]
  /\ position' = [position EXCEPT ![s] = "open"]
  /\ Forget(s) /\ before' = [before EXCEPT ![s] = {}]
  /\ UNCHANGED <<books, cache, verdict, memory, poller, mishaps, misread, lost>>
\* An entry is cancelled; or the order is refused; or it is executed and its
\* answer lost.
NoOrder(s) ==
  /\ pc[s] \in {"order", "armed"} /\ pc' = [pc EXCEPT ![s] = "done"] /\ Locals(s, "allow")
  /\ \/ UNCHANGED <<position, lost, mishaps>>
     \/ Mishap /\ position' = [position EXCEPT ![s] = "open"] /\ lost' = lost \union {s}
  /\ UNCHANGED <<books, cache, memory, poller, misread>>

\* Mutant of OpenTrade: only the engine's own orders are journalled.
OpenTradeOfMarket(s) ==
  /\ At(s, "journal", "remember")
  /\ journal' = [journal EXCEPT ![s] = IF verdict[s] = "route" THEN "absent" ELSE "open"]
  /\ UNCHANGED <<broker, booked, ledger, cache, got, verdict, memory, poller, mishaps, history>>

\* journal.open_trade; when it raises, nothing that follows is done.
OpenTrade(s) ==
  /\ At(s, "journal", "remember")
  /\ journal' = [journal EXCEPT ![s] = "open"]
  /\ UNCHANGED <<broker, booked, ledger, cache, got, verdict, memory, poller, mishaps, history>>

OpenTradeRaises(s) ==
  /\ At(s, "journal", "done") /\ Mishap /\ lost' = lost \union {s} /\ Locals(s, "allow")
  /\ UNCHANGED <<broker, books, cache, memory, poller, misread>>

\* ZoneTracker.record_entry, "after a fill, never before".
RecordEntry(s) ==
  \E live \in Live({Own(s)}) : entries' = [live EXCEPT ![Own(s)] = @ + 1]

\* risk.record_entry, then, for the engine's own orders, on_fill_notify.
Remember(s) ==
  /\ At(s, "remember", "done")
  /\ RecordEntry(s)
  /\ cooldown' = IF verdict[s] = "allow" THEN {Side(Dir[s])} ELSE cooldown
  /\ Locals(s, "allow")
  /\ UNCHANGED <<broker, books, cache, poller, mishaps, misread, lost>>

Decide(s) ==
  \/ Positions(s) \/ StackAndCooldown(s) \/ ZoneGate(s)
  \/ Spent(s) \/ (\E t \in Signal : CloseSpent(s, t))
  \/ OpenTrade(s) \/ OpenTradeRaises(s) \/ Remember(s)
Process(s) == Begin(s) \/ Decide(s) \/ Order(s) \/ NoOrder(s)

-----------------------------------------------------------------------------
(* ClosePoller.poll and Booker.book.                                        *)

\* Mutant of PollBegin: whatever the journal has ever had.
PollBeginAll ==
  /\ Opened # {} /\ At("poll", "idle", Look.diff)
  /\ left' = {t \in Signal : journal[t] # "absent"}
  /\ UNCHANGED <<broker, books, cache, got, verdict, memory, cur, mishaps, history>>

\* What the journal expects to be open; nothing to do when it expects nothing.
PollBegin ==
  /\ Opened # {} /\ At("poll", "idle", Look.diff)
  /\ left' = Opened
  /\ UNCHANGED <<broker, books, cache, got, verdict, memory, cur, mishaps, history>>

\* Mutant of Diff: every expected ticket is looked up.
DiffAll ==
  /\ At("poll", "diff", "book") /\ Forget("poll")
  /\ misread' = misread \union ((left \ got["poll"].tickets) \intersect Alive)
  /\ UNCHANGED <<broker, books, cache, verdict, memory, poller, mishaps, before, lost>>

\* Mutant of Diff: what is live instead of what is not.
DiffSwapped ==
  /\ At("poll", "diff", "book") /\ Forget("poll")
  /\ left' = left \intersect got["poll"].tickets
  /\ UNCHANGED <<broker, books, cache, verdict, memory, cur, mishaps, history>>

\* expected - live.
Diff ==
  /\ At("poll", "diff", "book") /\ Forget("poll")
  /\ left' = left \ got["poll"].tickets
  /\ misread' = misread \union (left' \intersect Alive)
  /\ UNCHANGED <<broker, books, cache, verdict, memory, cur, mishaps, before, lost>>

\* get_closed_deal: the sum over the deals so far, once there is a closing one.
DealOf(t) == CASE position[t] = "part" -> "part" [] position[t] = "closed" -> "whole"
              [] OTHER -> "none"
\* None: entry deals only, or the history is not available.  Retry next cycle.
NotClosed(t) ==
  /\ pc["poll"] = "book" /\ t \in left /\ left' = left \ {t}
  /\ \/ DealOf(t) = "none" /\ UNCHANGED mishaps
     \/ Mishap
  /\ UNCHANGED <<broker, books, cache, pc, got, verdict, memory, cur, history>>
\* journal.close_trade with that sum; when it raises, the cycle ends.
CloseTrade(t) ==
  /\ DealOf(t) # "none" /\ t \in left /\ At("poll", "book", "edge")
  /\ journal' = [journal EXCEPT ![t] = "closed"]
  /\ booked' = [booked EXCEPT ![t] = DealOf(t)]
  /\ cur' = t /\ left' = left \ {t}
  /\ UNCHANGED <<broker, ledger, cache, got, verdict, memory, mishaps, history>>
CloseTradeRaises ==
  /\ \E t \in left : DealOf(t) # "none"
  /\ At("poll", "book", "idle") /\ Mishap /\ left' = {}
  /\ UNCHANGED <<broker, books, cache, got, verdict, memory, cur, history>>

\* _record_edge, whose exceptions are swallowed.  Its return for a trade without
\* risk is left out: an order's price lies apart from its stop (Acting, EntryWatcher).
RecordEdge ==
  /\ At("poll", "edge", "book")
  /\ \/ ledger' = ledger \union {cur} /\ UNCHANGED <<lost, mishaps>>
     \/ Mishap /\ lost' = lost \union {cur} /\ UNCHANGED ledger
  /\ cur' = NoTicket
  /\ UNCHANGED <<broker, journal, booked, cache, got, verdict, memory, left, before, misread>>
PollEnd ==
  /\ left = {} /\ At("poll", "book", "idle")
  /\ UNCHANGED <<broker, books, cache, got, verdict, memory, poller, mishaps, history>>

Poll ==
  \/ PollBegin \/ Positions("poll") \/ Diff \/ PollEnd
  \/ (\E t \in Signal : NotClosed(t) \/ CloseTrade(t))
  \/ CloseTradeRaises \/ RecordEdge

-----------------------------------------------------------------------------
(* The world.                                                               *)

\* A stop, a target, a hand at the terminal: of the whole position, or a part.
Ends(t) ==
  /\ \/ position[t] = "open" /\ position' = [position EXCEPT ![t] = "part"]
     \/ t \in Alive /\ position' = [position EXCEPT ![t] = "closed"]
  /\ UNCHANGED <<books, cache, pc, got, verdict, memory, poller, mishaps, history>>

\* The process dies and starts again: the journal and the ledger are files, the
\* rest was memory.
Restart ==
  /\ Mishap
  /\ pc' = [t \in Threads |-> IF t = "poll" THEN "idle"
                              ELSE IF pc[t] = "new" THEN "new" ELSE "done"]
  /\ got' = [t \in Threads |-> NoList] /\ cache' = {}
  /\ verdict' = [s \in Signal |-> "allow"] /\ before' = [s \in Signal |-> {}]
  /\ entries' = [k \in ZoneKey |-> 0] /\ cooldown' = {}
  /\ lost' = lost \union {s \in Signal : pc[s] = "journal"}
                 \union (IF pc["poll"] = "edge" THEN {cur} ELSE {})
  /\ left' = {} /\ cur' = NoTicket
  /\ UNCHANGED <<broker, books, misread>>

Next ==
  \/ (\E s \in Signal : Process(s) \/ Ends(s))
  \/ BeginElsewhere \/ Poll \/ Restart

Spec == Init /\ [][Next]_vars

\* _poll_closes polls for ever; nothing is asked of the signals.
FairSpec == Spec /\ WF_vars(Poll)

-----------------------------------------------------------------------------
(* Properties.                                                              *)

\* Every variable has its type; what the poll books it found open in the journal,
\* and a trade is closed with a result, once.
TypeOK ==
  /\ position \in [Signal -> {"none", "open", "part", "closed"}]
  /\ journal \in [Signal -> {"absent", "open", "closed"}]
  /\ booked \in [Signal -> {"none", "part", "whole"}]
  /\ \A t \in Signal : (journal[t] = "closed") <=> (booked[t] # "none")
  /\ cache \in {{}} \union {{answer} : answer \in Answer}
  /\ \A t \in Threads : got[t] \in Answer
  /\ left \subseteq Opened
  /\ cur # NoTicket => cur \in {t \in Signal : journal[t] = "closed"}
  /\ pc["poll"] = "edge" <=> cur # NoTicket

\* booking.py: "None if the position is not actually closed yet".  The result of
\* a part is booked for the whole only of a position that a list of open
\* positions lacked while it was open: an old list, or one that was not answered.
BookedWhole == \A t \in Signal : booked[t] = "part" => t \in misread

\* stack.py: "Caps concurrent exposure."  A signal that may still trade began, or
\* now has, fewer than the limit of those open when it began, unless the list it
\* judged was older than it or none at all.  Positions that other calls opened
\* meanwhile are not among them: the check and the order are not one step.
StackHolds ==
  \A s \in Signal :
    pc[s] \in {"zone", "order"} /\ verdict[s] = "allow" =>
      got[s].blind \/ Cardinality(before[s] \intersect Alive) < Limit

\* A position ends in the journal, and its result in the ledger, or the broker's
\* answer, open_trade or the ledger failed just then, or the process died: never
\* because of what other signals, the watcher or the poll were doing.
AccountedFor ==
  \A t \in Signal :
    /\ position[t] # "none" /\ journal[t] = "absent" => t \in lost \/ pc[t] = "journal"
    /\ journal[t] = "closed" /\ t \notin ledger => t \in lost \/ (cur = t /\ pc["poll"] = "edge")

\* booking.py: "whatever closed while the process was down is simply missing from
\* the open list on the next tick."  What the journal has open and the broker has
\* closed is booked in the end, crash or not, if the cached list does not name it
\* for ever; only signals make the cache forget.
Due(t) == journal[t] = "open" /\ position[t] = "closed"
ClosedIsBooked ==
  \A t \in Signal :
    ([]<>(\A answer \in cache : t \notin answer.tickets))
      => (Due(t) ~> (journal[t] = "closed"))

\* cooldown.py: "after a fill, refuse further market entries for a cooldown
\* period."  No signal passes the gate in the direction of the fill it remembers.
CooldownRefuses ==
  [][\A s \in Signal :
       pc[s] = "stack" /\ pc'[s] = "zone" /\ Side(Dir[s]) \in cooldown'
         => verdict'[s] = "suppress"]_vars
=============================================================================
