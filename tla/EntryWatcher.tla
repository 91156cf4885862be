----------------------------- MODULE EntryWatcher -----------------------------
(***************************************************************************)
(* The entry watcher of zcastor/entry/watcher.py, with what it shares: the  *)
(* per-decision cache of MarketData (zcastor/market/mt5.py), which only     *)
(* Engine.process clears, and the broker.                                   *)
(*                                                                          *)
(* One thread per signal runs Engine.process and may arm an entry; one      *)
(* thread polls.  A step is one access to the cache, to the pending table   *)
(* or to the broker; the broker may answer anything each time it is asked,  *)
(* and the clock may move between any two steps.  The gates are in          *)
(* GatePipeline: here a signal may be declined at any point before it is    *)
(* routed.                                                                  *)
(***************************************************************************)
EXTENDS PendingEntry, FiniteSets

CONSTANTS
  Signal,       \* signals, each with its own call of Engine.process
  Entries,      \* the level each of them would arm at: [buy, zone]
  Prices,       \* ticks the market may show
  ZoneMin, ZoneMax,  \* zone_min_pts, zone_max_pts
  Expiry,       \* expiry_min of each signal's timeframe
  MaxHold,      \* max_hold_hours
  Day, Start,   \* length of a day, and how much of the first had passed at first
  LastArm,      \* bound: no signal arrives later
  MaxTime,      \* bound: when the clock stops
  MaxOthers,    \* bound: orders of other threads under way at once
  MaxRaises,    \* bound: how often reading a remote result raises in a poll
  MaxRestarts   \* bound: how often the process starts again

ASSUME WatcherAssumption ==
  /\ IsFiniteSet(Signal) /\ Prices \subseteq Nat
  /\ Entries \in [Signal -> [buy : BOOLEAN, zone : Nat]]
  /\ Expiry \in [Signal -> Nat]
  /\ {ZoneMin, ZoneMax, MaxHold, LastArm, MaxTime, MaxOthers, MaxRaises, MaxRestarts}
       \subseteq Nat
  /\ Day \in Nat \ {0} /\ Start \in 0..(Day - 1)
  /\ MaxTime >= LastArm + MaxHold + 1
  /\ {"poll", "none", "other"} \intersect Signal = {}

VARIABLES
  now,        \* the clock
  cache,      \* MarketData._cache: for each key nothing, or one answer
  pending,    \* signals in EntryWatcher._pending
  entry,      \* the PendingEntry of a signal
  armedDay,   \* _armed_day
  pc, got,    \* each thread's step and the last market answer it got
  left,       \* entries the running poll has not looked at yet
  cur,        \* the entry it is about to fire
  tick,       \* the tick a decision is made with, or a poll evaluates
  pollNow,    \* the time it took with it
  request,    \* whose order the bridge's _zc_req holds
  others,     \* orders and closes of other threads between their two calls
  raises, restarts,
  \* History.
  positions,  \* orders executed at the broker, per signal
  unread,     \* of them, those whose result could not be read
  crossed,    \* of them, those another thread's call sent
  ending,     \* how an armed entry ended
  low,        \* the lowest Depth an entry was evaluated at
  stale       \* the cached account is older than the running poll

table == <<pending, entry, armedDay>>
threads == <<pc, got>>
cycle == <<left, cur, tick, pollNow>>
bridge == <<request, others>>
counts == <<raises, restarts>>
orders == <<positions, unread, crossed>>
history == <<orders, ending, low, stale>>
vars == <<now, cache, table, threads, cycle, bridge, counts, history>>

NoAnswer == -1    \* an {"error": ...} tick; also: nothing read
Short == 0        \* the account cannot bear the structural stop, or does not answer
Ample == 1        \* it can
Answers(key) == IF key = "tick" THEN Prices \union {NoAnswer} ELSE {Short, Ample}
Keys == {"tick", "account"}
Cachable(key) == {{}} \union {{answer} : answer \in Answers(key)}
NoSignal == "none"
Other == "other"  \* any other thread's order or close

Threads == Signal \union {"poll"}
Endings == {"filled", "expired", "level_broke", "max_hold", "day_boundary",
            "not_viable", "order_failed"}
DayOf(t) == (t + Start) \div Day

Init ==
  /\ now = 0 /\ cache = [key \in Keys |-> {}]
  /\ pending = {} /\ armedDay = 0
  /\ entry = [s \in Signal |-> [buy |-> Entries[s].buy, zone |-> Entries[s].zone,
       kind |-> "fresh", reached |-> FALSE, created |-> 0]]
  /\ pc = [t \in Threads |-> IF t = "poll" THEN "idle" ELSE "new"]
  /\ got = [t \in Threads |-> NoAnswer]
  /\ left = {} /\ cur = NoSignal /\ tick = [t \in Threads |-> NoAnswer]
  /\ pollNow = 0
  /\ request = NoSignal /\ others = 0 /\ raises = 0 /\ restarts = 0
  /\ positions = [s \in Signal |-> 0] /\ unread = positions /\ crossed = positions
  /\ ending = [s \in Signal |-> "none"]
  /\ low = [s \in Signal |-> ZoneMax] /\ stale = FALSE

-----------------------------------------------------------------------------
(* MarketData._cached, by any thread: look, then ask the broker, then store.*)

At(t, from, to) == pc[t] = from /\ pc' = [pc EXCEPT ![t] = to]

\* A thread's local goes out of scope.
Forget(t) == got' = [got EXCEPT ![t] = NoAnswer]

CacheHit(t, key, from, to) ==
  /\ At(t, from, to)
  /\ \E value \in cache[key] : got' = [got EXCEPT ![t] = value]
  /\ UNCHANGED <<cache, stale>>
CacheMiss(t, key, from, to) ==
  /\ At(t, from, to)
  /\ cache[key] = {}
  /\ \E answer \in Answers(key) : got' = [got EXCEPT ![t] = answer]
  /\ UNCHANGED <<cache, stale>>
CacheStore(t, key, from, to) ==
  /\ At(t, from, to)
  /\ cache' = [cache EXCEPT ![key] = {got[t]}] /\ stale' = (stale /\ key # "account")
  /\ UNCHANGED got

\* The tick and the account, one after the other: what the gates of a signal
\* read, and what a poll reads when it has an entry to look at, or to fire.  A
\* poll asks for the account twice, for its balance and for its free margin.
Read(t) ==
  /\ \/ CacheHit(t, "tick", "tick", "priced") \/ CacheMiss(t, "tick", "tick", "tickStore")
     \/ CacheStore(t, "tick", "tickStore", "priced")
     \/ CacheHit(t, "account", "account", "judge")
     \/ CacheMiss(t, "account", "account", "accountStore")
     \/ CacheStore(t, "account", "accountStore", "judge")
     \/ CacheHit(t, "account", "margin", "order")
     \/ CacheMiss(t, "account", "margin", "marginStore")
     \/ CacheStore(t, "account", "marginStore", "order")
  /\ UNCHANGED <<now, table, cycle, bridge, counts, orders, ending, low>>

-----------------------------------------------------------------------------
(* Engine.process, up to the watcher's arm.                                 *)

\* A new signal clears the cache: market.begin().
Begin(s) ==
  /\ now <= LastArm
  /\ At(s, "new", "tick")
  /\ cache' = [key \in Keys |-> {}] /\ stale' = FALSE
  /\ UNCHANGED <<now, table, got, cycle, bridge, counts, orders, ending, low>>

\* A gate decides otherwise, before or after the account is read.
Decline(s) ==
  /\ pc[s] \in {"priced", "judge"} /\ pc' = [pc EXCEPT ![s] = "done"]
  /\ Forget(s) /\ tick' = [tick EXCEPT ![s] = NoAnswer]
  /\ UNCHANGED <<now, cache, table, left, cur, pollNow, bridge, counts, history>>

\* The price the decision is made with, before the account is read.
Price(s) ==
  /\ At(s, "priced", "account") /\ tick' = [tick EXCEPT ![s] = got[s]] /\ Forget(s)
  /\ UNCHANGED <<now, cache, table, left, cur, pollNow, bridge, counts, history>>

\* arm: ZoneDerivation refuses a level that is too near, too far or on the wrong
\* side of that price, and none is derived without a price.
Usable(s) == tick[s] # NoAnswer /\ Depth(Entries[s], tick[s]) \in ZoneMin..ZoneMax
Judged(s, to) ==
  /\ At(s, "judge", to) /\ Forget(s) /\ tick' = [tick EXCEPT ![s] = NoAnswer]
Refuse(s) ==
  /\ ~Usable(s) /\ Judged(s, "done")
  /\ UNCHANGED <<now, cache, table, left, cur, pollNow, bridge, counts, history>>

\* PendingEntry.create stamps the entry, whose kind the gates have chosen, then
\* arm inserts it under the lock.
Create(s) ==
  /\ Usable(s) /\ Judged(s, "insert")
  /\ \E kind \in RouteKinds : entry' = [entry EXCEPT ![s].kind = kind, ![s].created = now]
  /\ UNCHANGED <<now, cache, pending, armedDay, left, cur, pollNow, bridge, counts, history>>
Insert(s) ==
  /\ At(s, "insert", "done")
  /\ pending' = pending \union {s}
  /\ UNCHANGED <<now, cache, entry, armedDay, got, cycle, bridge, counts, history>>

\* Any other signal, none of whose entries matter: it clears the cache and leaves
\* in it what its gates read before one of them declined it.  Once nothing is left
\* to end, it would change nothing.
OtherSignal ==
  /\ pending # {} \/ \E s \in Signal : pc[s] # "done"
  /\ \E ticks \in Cachable("tick"), accounts \in Cachable("account") :
       /\ accounts # {} => ticks # {}
       /\ cache' = [key \in Keys |-> IF key = "tick" THEN ticks ELSE accounts]
  /\ stale' = FALSE
  /\ UNCHANGED <<now, table, threads, cycle, bridge, counts, orders, ending, low>>

Process(s) == Begin(s) \/ Read(s) \/ Decline(s) \/ Price(s) \/ Refuse(s) \/ Create(s) \/ Insert(s)

-----------------------------------------------------------------------------
(* poll                                                                     *)

\* cancel(signal_id, reason), of all of `gone'.
Cancel(gone, reason) ==
  /\ pending' = pending \ gone
  /\ ending' = [s \in Signal |-> IF s \in gone THEN reason ELSE ending[s]]

\* Mutant of SweepHold: a dead feed holds stale entries too.
SweepHoldWithFeed ==
  /\ At("poll", "idle", "boundary")
  /\ stale' = (cache["account"] # {})
  /\ Cancel({s \in pending : now - entry[s].created > MaxHold /\ cache["tick"] # {NoAnswer}},
            "max_hold")
  /\ UNCHANGED <<now, cache, entry, armedDay, got, cycle, bridge, counts, orders, low>>

\* _sweep: entries older than max_hold, then what an earlier day armed.
SweepHold ==
  /\ At("poll", "idle", "boundary")
  /\ stale' = (cache["account"] # {})
  /\ Cancel({s \in pending : now - entry[s].created > MaxHold}, "max_hold")
  /\ UNCHANGED <<now, cache, entry, armedDay, got, cycle, bridge, counts, orders, low>>
SweepDay ==
  /\ At("poll", "boundary", "snapshot")
  /\ Cancel(IF DayOf(now) = armedDay THEN {} ELSE pending, "day_boundary")
  /\ armedDay' = DayOf(now)
  /\ UNCHANGED <<now, cache, entry, got, cycle, bridge, counts, orders, low, stale>>

Snapshot ==
  /\ At("poll", "snapshot", IF pending = {} THEN "idle" ELSE "tick")
  /\ left' = pending
  /\ UNCHANGED <<now, cache, table, got, cur, tick, pollNow, bridge, counts, history>>

\* No tick: every entry is held, and none of them is tested for expiry.
Stall ==
  /\ got["poll"] = NoAnswer
  /\ At("poll", "priced", "idle")
  /\ left' = {}
  /\ UNCHANGED <<now, cache, table, got, cur, tick, pollNow, bridge, counts, history>>
TakeTick ==
  /\ got["poll"] # NoAnswer
  /\ At("poll", "priced", "entries")
  /\ tick' = [tick EXCEPT !["poll"] = got["poll"]] /\ pollNow' = now /\ Forget("poll")
  /\ UNCHANGED <<now, cache, table, left, cur, bridge, counts, history>>

Looked(s) == left' = left \ {s}
Expired(s) == pollNow - entry[s].created > Expiry[s]
Least(m, n) == IF m <= n THEN m ELSE n

Expire(s) ==
  /\ pc["poll"] = "entries" /\ s \in left /\ Expired(s)
  /\ Cancel({s}, "expired") /\ Looked(s)
  /\ UNCHANGED <<now, cache, entry, armedDay, threads, cur, tick, pollNow,
                 bridge, counts, orders, low, stale>>

\* evaluate mutates the entry, then the verdict is acted on.
Judge(s) ==
  /\ entry' = [entry EXCEPT ![s].reached = @ \/ Reaches(entry[s], tick["poll"])]
  /\ low' = [low EXCEPT ![s] = Least(@, Depth(entry[s], tick["poll"]))]
Wait(s) ==
  /\ pc["poll"] = "entries" /\ s \in left /\ ~Expired(s)
  /\ Evaluate(entry[s], tick["poll"]) = "wait"
  /\ Judge(s) /\ Looked(s)
  /\ UNCHANGED <<now, cache, pending, armedDay, threads, cur, tick, pollNow,
                 bridge, counts, orders, ending, stale>>
Break(s) ==
  /\ pc["poll"] = "entries" /\ s \in left /\ ~Expired(s)
  /\ Evaluate(entry[s], tick["poll"]) = "cancel"
  /\ Judge(s) /\ Looked(s) /\ Cancel({s}, "level_broke")
  /\ UNCHANGED <<now, cache, armedDay, threads, cur, tick, pollNow, bridge,
                 counts, orders, stale>>

\* Mutant of Fire: the entry being fired is not remembered.
FireForgets(s) ==
  /\ s \in left /\ ~Expired(s)
  /\ Evaluate(entry[s], tick["poll"]) = "fill"
  /\ At("poll", "entries", "account")
  /\ Judge(s) /\ Looked(s)
  /\ UNCHANGED <<now, cache, pending, armedDay, got, cur, tick, pollNow, bridge,
                 counts, orders, ending, stale>>

\* _fire: the account is read again, then the order is sent.
Fire(s) ==
  /\ s \in left /\ ~Expired(s)
  /\ Evaluate(entry[s], tick["poll"]) = "fill"
  /\ At("poll", "entries", "account")
  /\ Judge(s) /\ Looked(s) /\ cur' = s
  /\ UNCHANGED <<now, cache, pending, armedDay, got, tick, pollNow, bridge,
                 counts, orders, ending, stale>>

\* _viable: the balance, then the free margin.
Unviable ==
  /\ got["poll"] # Ample /\ pc["poll"] \in {"judge", "order"}
  /\ pc' = [pc EXCEPT !["poll"] = "entries"] /\ Forget("poll")
  /\ Cancel({cur}, "not_viable") /\ cur' = NoSignal
  /\ UNCHANGED <<now, cache, entry, armedDay, left, tick, pollNow, bridge, counts,
                 orders, low, stale>>
Afford ==
  /\ got["poll"] = Ample
  /\ At("poll", "judge", "margin") /\ Forget("poll")
  /\ UNCHANGED <<now, cache, table, cycle, bridge, counts, history>>

\* send_request: the order is built in the remote interpreter, under a name that
\* all threads share, then whatever has that name is sent.
Stage ==
  /\ got["poll"] = Ample
  /\ At("poll", "order", "send") /\ Forget("poll") /\ request' = cur
  /\ UNCHANGED <<now, cache, table, cycle, others, counts, history>>
Sent(executed) == [s \in Signal |-> IF s = request THEN executed ELSE 0]
Plus(f, g) == [s \in Signal |-> f[s] + g[s]]

Order ==
  /\ At("poll", "send", "pop")
  /\ positions' = Plus(positions, Sent(1))
  /\ UNCHANGED <<now, cache, table, got, cycle, bridge, counts, unread, crossed, ending,
                 low, stale>>

\* Mutant of OrderFails: the entry stays armed, to be tried again.
OrderFailsRetries ==
  /\ At("poll", "send", "entries")
  /\ \E executed \in {0, 1} : positions' = Plus(positions, Sent(executed))
  /\ cur' = NoSignal
  /\ UNCHANGED <<now, cache, table, got, left, tick, pollNow, bridge, counts, unread,
                 crossed, ending, low, stale>>

\* An order is refused, or its answer is lost on the way: the broker executed
\* it and market_order reports an error.
OrderFails ==
  /\ At("poll", "send", "entries")
  /\ \E executed \in {0, 1} : positions' = Plus(positions, Sent(executed))
  /\ Cancel({cur}, "order_failed") /\ cur' = NoSignal
  /\ UNCHANGED <<now, cache, entry, armedDay, got, left, tick, pollNow, bridge, counts,
                 unread, crossed, low, stale>>

\* What a remote call returned is itself remote: reading it may raise, of the
\* account or, after the broker has answered, of an order.  Nothing below
\* _poll_watcher catches that, and the entry stays armed.
PollRaises ==
  /\ raises < MaxRaises /\ raises' = raises + 1
  /\ pc' = [pc EXCEPT !["poll"] = "idle"] /\ Forget("poll")
  /\ left' = {} /\ cur' = NoSignal
  /\ tick' = [tick EXCEPT !["poll"] = NoAnswer] /\ pollNow' = 0 /\ stale' = FALSE
  /\ UNCHANGED <<now, cache, table, bridge, restarts, crossed, ending, low>>
ViableRaises ==
  /\ pc["poll"] \in {"judge", "order"} /\ PollRaises
  /\ UNCHANGED <<positions, unread>>
OrderRaises ==
  /\ pc["poll"] = "send" /\ PollRaises
  /\ \E executed \in {0, 1} : /\ positions' = Plus(positions, Sent(executed))
                              /\ unread' = Plus(unread, Sent(executed))

\* The entry leaves the table; on_fill's exceptions are swallowed.
Pop ==
  /\ At("poll", "pop", "entries")
  /\ Cancel({cur}, "filled") /\ cur' = NoSignal
  /\ UNCHANGED <<now, cache, entry, armedDay, got, left, tick, pollNow, bridge,
                 counts, orders, low, stale>>

PollEnd ==
  /\ left = {} /\ At("poll", "entries", "idle")
  /\ tick' = [tick EXCEPT !["poll"] = NoAnswer] /\ pollNow' = 0 /\ stale' = FALSE
  /\ UNCHANGED <<now, cache, table, got, left, cur, bridge, counts, orders, ending, low>>

Poll ==
  \/ SweepHold \/ SweepDay \/ Snapshot \/ Read("poll") \/ Stall \/ TakeTick
  \/ \E s \in Signal : Expire(s) \/ Wait(s) \/ Break(s) \/ Fire(s)
  \/ Unviable \/ Afford \/ Stage \/ Order \/ OrderFails \/ ViableRaises \/ OrderRaises
  \/ Pop \/ PollEnd

-----------------------------------------------------------------------------
(* The world.                                                               *)

\* Another thread's order, or its close, through the same bridge.  What it stages
\* at another time the poll overwrites before it sends: it could as well begin then.
OtherStages ==
  /\ pc["poll"] \in {"order", "send"}
  /\ others < MaxOthers /\ others' = others + 1 /\ request' = Other
  /\ UNCHANGED <<now, cache, table, threads, cycle, counts, history>>
OtherSends ==
  /\ others > 0 /\ others' = others - 1
  /\ \E executed \in {0, 1} : /\ positions' = Plus(positions, Sent(executed))
                              /\ crossed' = Plus(crossed, Sent(executed))
  /\ UNCHANGED <<now, cache, table, threads, cycle, request, counts, unread, ending, low,
                 stale>>

\* After LastArm the clock waits for the signals still being processed.
Clock ==
  /\ now < MaxTime
  /\ now >= LastArm => \A s \in Signal : pc[s] \in {"new", "done"}
  /\ now' = now + 1
  /\ UNCHANGED <<cache, table, threads, cycle, bridge, counts, history>>

\* The process dies and starts again; the watcher keeps nothing on disk.
Restart ==
  /\ restarts < MaxRestarts /\ restarts' = restarts + 1
  /\ cache' = [key \in Keys |-> {}]
  /\ pending' = {} /\ armedDay' = DayOf(now)
  /\ ending' = [s \in Signal |-> IF s \in pending THEN "lost" ELSE ending[s]]
  /\ pc' = [t \in Threads |-> IF t = "poll" THEN "idle"
                              ELSE IF pc[t] = "new" THEN "new" ELSE "done"]
  /\ got' = [t \in Threads |-> NoAnswer]
  /\ left' = {} /\ cur' = NoSignal /\ tick' = [t \in Threads |-> NoAnswer]
  /\ pollNow' = 0 /\ stale' = FALSE /\ request' = NoSignal /\ others' = 0
  /\ UNCHANGED <<now, entry, raises, orders, low>>

Next == (\E s \in Signal : Process(s)) \/ OtherSignal \/ OtherStages \/ OtherSends
        \/ Poll \/ Clock \/ Restart

Spec == Init /\ [][Next]_vars

\* _poll_watcher polls for ever, calls in progress go on, and time passes.
FairSpec ==
  /\ Spec /\ WF_vars(Poll) /\ WF_vars(Clock)
  /\ \A s \in Signal : WF_vars(Read(s) \/ Decline(s) \/ Price(s) \/ Refuse(s) \/ Create(s) \/ Insert(s))

-----------------------------------------------------------------------------
(* Properties.                                                              *)

Firing == pc["poll"] \in {"account", "accountStore", "judge", "margin", "marginStore",
                          "order", "send", "pop"}

\* Every variable has its type; the entry a poll fires is one it found armed and
\* nobody has taken away.
TypeOK ==
  /\ now \in 0..MaxTime /\ armedDay \in 0..DayOf(MaxTime)
  /\ raises \in 0..MaxRaises /\ restarts \in 0..MaxRestarts
  /\ request \in Signal \union {NoSignal, Other} /\ others \in 0..MaxOthers
  /\ \A key \in Keys : cache[key] \in Cachable(key)
  /\ pending \subseteq Signal /\ left \subseteq pending
  /\ Firing => cur \in pending \ left
  /\ ending \in [Signal -> Endings \union {"none", "lost"}]
  /\ \A s \in pending : ending[s] = "none" /\ entry[s].created <= now

\* An entry becomes one position, and more only by results that could not be read
\* and by another thread that sent its order: one for each.  One that was cancelled
\* for any reason but a reported order error has no other: an order that was
\* reported as failed is never sent again, and nothing fires after it was swept.
EndsOnce ==
  \A s \in Signal :
    positions[s] <= unread[s] + crossed[s]
                    + (IF ending[s] \in {"filled", "order_failed", "lost"}
                          \/ (cur = s /\ pc["poll"] = "pop")
                       THEN 1 ELSE 0)

\* pending.py: a fresh entry is filled after price has been near its level, an
\* exhaustion entry only after the level was swept, and never once it collapsed;
\* either at a price that has reclaimed the level.
FillsFollowTheThesis ==
  Firing =>
    /\ Depth(entry[cur], tick["poll"]) >= Confirm
    /\ entry[cur].kind = "fresh" => low[cur] <= Touch
    /\ entry[cur].kind = "exhaustion" => low[cur] <= 0 /\ low[cur] > -2 * Invalidate

\* watcher.py: "Four ways an armed entry ends".  Whatever the feed does, an entry
\* does not stay armed for ever.
ArmedEnds == \A s \in Signal : (s \in pending) ~> (s \notin pending)

\* watcher.py: "Viability is re-checked at fill time, not trusted from arming
\* time."  The account an order is sent on was asked for since the poll began.
ViableWhenFired == pc["poll"] = "send" => ~stale
=============================================================================
