-------------------------- MODULE EntryWatcherProofs --------------------------
(***************************************************************************)
(* Theorems about EntryWatcher, for any number of signals, any levels, any   *)
(* ticks and any number of restarts.                                         *)
(***************************************************************************)
EXTENDS EntryWatcher, TLAPS

SignalStep == {"new", "tick", "tickStore", "priced", "account", "accountStore", "judge",
               "insert", "done"}
PollStep == {"idle", "boundary", "snapshot", "tick", "tickStore", "priced", "entries",
             "account", "accountStore", "judge", "margin", "marginStore", "order", "send", "pop"}
Step == SignalStep \union PollStep

Armed == [buy : BOOLEAN, zone : Nat, kind : RouteKinds, reached : BOOLEAN, created : Nat]

TableTypes ==
  /\ now \in 0..MaxTime /\ armedDay \in 0..DayOf(MaxTime)
  /\ raises \in 0..MaxRaises /\ restarts \in 0..MaxRestarts
  /\ request \in Signal \union {NoSignal, Other} /\ others \in 0..MaxOthers
  /\ pending \subseteq Signal /\ entry \in [Signal -> Armed]
  /\ left \subseteq Signal /\ cur \in Signal \union {NoSignal} /\ pollNow \in Nat
  /\ positions \in [Signal -> Nat] /\ unread \in [Signal -> Nat] /\ crossed \in [Signal -> Nat]
  /\ ending \in [Signal -> Endings \union {"none", "lost"}]
  /\ low \in [Signal -> Int]
ThreadTypes ==
  /\ pc \in [Threads -> Step]
  /\ (\A s \in Signal : pc[s] \in SignalStep) /\ pc["poll"] \in PollStep
  /\ got \in [Threads -> Int] /\ tick \in [Threads -> Int]
  /\ \A t \in Threads : /\ pc[t] = "tickStore" => got[t] \in Answers("tick")
                        /\ pc[t] \in {"accountStore", "marginStore"} => got[t] \in Answers("account")
  /\ cache \in [Keys -> SUBSET Int]
  /\ \A key \in Keys : cache[key] \in Cachable(key)

-----------------------------------------------------------------------------
(* Types.                                                                   *)

LEMMA Names ==
  /\ "poll" \notin Signal /\ NoSignal \notin Signal /\ Other \notin Signal
  /\ Threads = Signal \union {"poll"}
  /\ \A s \in Signal : s \in Threads /\ s # "poll"
  /\ NoAnswer \in Int /\ Keys = {"tick", "account"}
  /\ \A key \in Keys : Answers(key) \subseteq Int
<1>1. NoAnswer \in Int /\ Short \in Int /\ Ample \in Int /\ Prices \subseteq Int
  BY WatcherAssumption DEF NoAnswer, Short, Ample
<1>2. \A key \in Keys : Answers(key) \subseteq Int
  BY <1>1 DEF Answers
<1>3. "poll" \notin Signal /\ NoSignal \notin Signal /\ Other \notin Signal
  BY WatcherAssumption DEF NoSignal, Other
<1> QED BY <1>1, <1>2, <1>3 DEF Threads, Keys

LEMMA Numbers ==
  /\ {ZoneMin, ZoneMax, MaxHold, LastArm, MaxTime, MaxOthers, MaxRaises, MaxRestarts} \subseteq Nat
  /\ Day \in Nat \ {0} /\ Start \in 0..(Day - 1)
  /\ Confirm \in Nat /\ Touch \in Nat /\ Invalidate \in Nat
  /\ Confirm > 0 /\ Touch > 0 /\ Invalidate > 0
BY WatcherAssumption, GeometryAssumption

\* An earlier time is of no later day.
LEMMA Days ==
  ASSUME NEW t \in 0..MaxTime
  PROVE  DayOf(t) \in 0..DayOf(MaxTime)
<1> DEFINE q == (t + Start) \div Day
           r == (MaxTime + Start) \div Day
<1>1. /\ t \in Nat /\ MaxTime \in Nat /\ t <= MaxTime
      /\ Start \in Nat /\ Day \in Nat /\ Day > 0
  BY Numbers
<1>2. /\ q \in Nat /\ Day * q <= t + Start
      /\ r \in Nat /\ MaxTime + Start < Day * r + Day
  BY <1>1
<1> HIDE DEF q, r
<1>3. q <= r
  <2> SUFFICES ASSUME q >= r + 1 PROVE FALSE
    BY <1>2
  <2>1. Day * q >= Day * (r + 1)
    BY <1>1, <1>2
  <2>2. Day * (r + 1) = Day * r + Day
    BY <1>1, <1>2
  <2> QED BY <1>1, <1>2, <2>1, <2>2
<1> QED BY <1>2, <1>3 DEF DayOf, q, r

LEMMA StepType ==
  ASSUME ThreadTypes, NEW t \in Threads, NEW step, pc' = [pc EXCEPT ![t] = step],
         t \in Signal => step \in SignalStep, t = "poll" => step \in PollStep
  PROVE  /\ pc' \in [Threads -> Step]
         /\ (\A s \in Signal : pc'[s] \in SignalStep) /\ pc'["poll"] \in PollStep
         /\ pc'[t] = step /\ \A u \in Threads \ {t} : pc'[u] = pc[u]
BY Names DEF ThreadTypes, Step

Storing == {"tickStore", "accountStore", "marginStore"}

\* A step that stores nothing leaves what is being stored.
LEMMA ThreadsKept ==
  ASSUME ThreadTypes, NEW t \in Threads, NEW step \in Step \ Storing,
         pc' = [pc EXCEPT ![t] = step],
         t \in Signal => step \in SignalStep, t = "poll" => step \in PollStep,
         got' \in [Threads -> Int], \A u \in Threads \ {t} : got'[u] = got[u],
         tick' \in [Threads -> Int], UNCHANGED cache
  PROVE  ThreadTypes'
<1>1. /\ pc' \in [Threads -> Step]
      /\ (\A s \in Signal : pc'[s] \in SignalStep) /\ pc'["poll"] \in PollStep
      /\ pc'[t] = step /\ \A u \in Threads \ {t} : pc'[u] = pc[u]
  BY StepType
<1>2. \A u \in Threads : /\ pc'[u] = "tickStore" => got'[u] \in Answers("tick")
                         /\ pc'[u] \in {"accountStore", "marginStore"} => got'[u] \in Answers("account")
  BY <1>1 DEF ThreadTypes, Storing
<1> QED BY <1>1, <1>2 DEF ThreadTypes

\* The steps in which an answer is looked up, and the ones it is handed on at.
Phases == {<<"tick", "tick", "tickStore", "priced">>,
           <<"account", "account", "accountStore", "judge">>,
           <<"account", "margin", "marginStore", "order">>}

\* What a thread reads through the cache.
LEMMA ReadTypes ==
  ASSUME ThreadTypes, NEW t \in Threads, Read(t)
  PROVE  /\ ThreadTypes'
         /\ \E phase \in Phases : \E step \in {phase[3], phase[4]} :
              /\ pc[t] \in {phase[2], phase[3]} /\ pc' = [pc EXCEPT ![t] = step]
              /\ t \in Signal => phase[2] # "margin"
         /\ UNCHANGED <<now, table, cycle, bridge, counts, orders, ending, low>>
<1> USE Names DEF At
<1>1. PICK phase \in Phases : \/ CacheHit(t, phase[1], phase[2], phase[4])
                              \/ CacheMiss(t, phase[1], phase[2], phase[3])
                              \/ CacheStore(t, phase[1], phase[3], phase[4])
  <2> HIDE DEF At
  <2>1. <<"tick", "tick", "tickStore", "priced">> \in Phases
        /\ <<"account", "account", "accountStore", "judge">> \in Phases
        /\ <<"account", "margin", "marginStore", "order">> \in Phases
    BY DEF Phases
  <2> QED BY <2>1 DEF Read
<1>2. UNCHANGED <<now, table, cycle, bridge, counts, orders, ending, low>> /\ tick' = tick
  BY DEF Read, cycle
<1> DEFINE item == phase[1]  look == phase[2]  store == phase[3]  next == phase[4]
<1>3. /\ item \in Keys /\ store \in Storing /\ look \in Step \ Storing /\ next \in Step \ Storing
      /\ item = IF store = "tickStore" THEN "tick" ELSE "account"
      /\ look \in SignalStep \union {"margin"}
      /\ look = "margin" <=> store = "marginStore"
      /\ look # "margin" => {store, next} \subseteq SignalStep
      /\ {store, next} \subseteq PollStep
  BY DEF Phases, Storing, Step, SignalStep, PollStep
<1>4. CASE CacheHit(t, item, look, next)
  <2>1. PICK value \in cache[item] : got' = [got EXCEPT ![t] = value]
    BY <1>4 DEF CacheHit
  <2>2. value \in Int
    BY <1>3, <2>1 DEF ThreadTypes
  <2>3. /\ got' \in [Threads -> Int] /\ \A u \in Threads \ {t} : got'[u] = got[u]
        /\ pc[t] = look /\ pc' = [pc EXCEPT ![t] = next] /\ cache' = cache
    BY <1>4, <2>1, <2>2 DEF CacheHit, ThreadTypes
  <2>4. tick' \in [Threads -> Int]
    BY <1>2 DEF ThreadTypes
  <2>5. t \in Signal => look # "margin"
    BY <2>3 DEF ThreadTypes, SignalStep
  <2>6. (t \in Signal => next \in SignalStep) /\ (t = "poll" => next \in PollStep)
    BY <1>3, <2>5
  <2> HIDE DEF item, look, store, next, At
  <2>7. ThreadTypes'
    BY ONLY ThreadTypes, t \in Threads, <1>3, <2>3, <2>4, <2>6, ThreadsKept
  <2> QED BY <1>2, <2>3, <2>5, <2>7 DEF look, next
<1>5. CASE CacheMiss(t, item, look, store)
  <2>1. PICK answer \in Answers(item) : got' = [got EXCEPT ![t] = answer]
    BY <1>5 DEF CacheMiss
  <2>2. /\ got' \in [Threads -> Int] /\ got'[t] \in Answers(item)
        /\ \A u \in Threads \ {t} : got'[u] = got[u]
    BY <1>3, <2>1 DEF ThreadTypes
  <2>3. pc[t] = look /\ pc' = [pc EXCEPT ![t] = store] /\ cache' = cache
    BY <1>5 DEF CacheMiss
  <2>4. t \in Signal => look # "margin"
    BY <2>3 DEF ThreadTypes, SignalStep
  <2>5. (t \in Signal => store \in SignalStep) /\ (t = "poll" => store \in PollStep)
    BY <1>3, <2>4
  <2>6. /\ pc' \in [Threads -> Step]
        /\ (\A s \in Signal : pc'[s] \in SignalStep) /\ pc'["poll"] \in PollStep
        /\ pc'[t] = store /\ \A u \in Threads \ {t} : pc'[u] = pc[u]
    BY ONLY ThreadTypes, t \in Threads, <2>3, <2>5, StepType
  <2>7. \A u \in Threads :
          /\ pc'[u] = "tickStore" => got'[u] \in Answers("tick")
          /\ pc'[u] \in {"accountStore", "marginStore"} => got'[u] \in Answers("account")
    <3>1. ASSUME NEW u \in Threads \ {t}
          PROVE  /\ pc'[u] = "tickStore" => got'[u] \in Answers("tick")
                 /\ pc'[u] \in {"accountStore", "marginStore"} => got'[u] \in Answers("account")
      BY <2>2, <2>6 DEF ThreadTypes
    <3>2. /\ pc'[t] = "tickStore" => item = "tick"
          /\ pc'[t] \in {"accountStore", "marginStore"} => item = "account"
      BY <1>3, <2>6
    <3> HIDE DEF item
    <3> QED BY <2>2, <3>1, <3>2
  <2>8. ThreadTypes'
    BY <1>2, <2>2, <2>3, <2>6, <2>7 DEF ThreadTypes
  <2> QED BY <1>2, <2>3, <2>4, <2>8
<1>6. CASE CacheStore(t, item, store, next)
  <2>1. /\ pc[t] = store /\ pc' = [pc EXCEPT ![t] = next] /\ got' = got
        /\ cache' = [cache EXCEPT ![item] = {got[t]}]
    BY <1>6 DEF CacheStore
  <2>2. got[t] \in Answers(item)
    BY <1>3, <2>1 DEF ThreadTypes, Storing
  <2>3. cache' \in [Keys -> SUBSET Int] /\ \A k \in Keys : cache'[k] \in Cachable(k)
    BY <1>3, <2>1, <2>2 DEF ThreadTypes, Cachable
  <2>4. t \in Signal => look # "margin"
    BY <1>3, <2>1 DEF ThreadTypes, SignalStep
  <2>5. (t \in Signal => next \in SignalStep) /\ (t = "poll" => next \in PollStep)
    BY <1>3, <2>4
  <2>6. /\ pc' \in [Threads -> Step]
        /\ (\A s \in Signal : pc'[s] \in SignalStep) /\ pc'["poll"] \in PollStep
        /\ pc'[t] = next /\ \A u \in Threads \ {t} : pc'[u] = pc[u]
    BY ONLY ThreadTypes, t \in Threads, <2>1, <2>5, StepType
  <2>7. \A u \in Threads :
          /\ pc'[u] = "tickStore" => got'[u] \in Answers("tick")
          /\ pc'[u] \in {"accountStore", "marginStore"} => got'[u] \in Answers("account")
    BY <1>3, <2>1, <2>6 DEF ThreadTypes, Storing
  <2>8. ThreadTypes'
    BY <1>2, <2>1, <2>3, <2>6, <2>7 DEF ThreadTypes
  <2> QED BY <1>2, <2>1, <2>4, <2>8
<1> QED BY <1>1, <1>4, <1>5, <1>6

LEMMA DepthType ==
  ASSUME NEW e \in Armed,
         NEW price \in Int
  PROVE  Depth(e, price) \in Int
BY DEF Depth, Armed

\* What an evaluation does to an entry.
LEMMA JudgeTypes ==
  ASSUME TableTypes, ThreadTypes, NEW s \in Signal, Judge(s)
  PROVE  /\ entry' \in [Signal -> Armed] /\ low' \in [Signal -> Int]
         /\ \A u \in Signal : /\ entry'[u].kind = entry[u].kind
                              /\ entry'[u].buy = entry[u].buy /\ entry'[u].zone = entry[u].zone
                              /\ entry'[u].created = entry[u].created
                              /\ u # s => entry'[u] = entry[u] /\ low'[u] = low[u]
         /\ entry'[s].reached => entry[s].reached \/ Reaches(entry[s], tick["poll"])
         /\ low'[s] = Least(low[s], Depth(entry[s], tick["poll"]))
         /\ Depth(entry[s], tick["poll"]) \in Int
<1> DEFINE reached == entry[s].reached \/ Reaches(entry[s], tick["poll"])
<1>1. entry[s] \in Armed /\ tick["poll"] \in Int /\ low[s] \in Int
  BY Names DEF TableTypes, ThreadTypes
<1>2. Depth(entry[s], tick["poll"]) \in Int
  BY <1>1, DepthType
<1>3. entry' = [entry EXCEPT ![s].reached = reached] /\ reached \in BOOLEAN
  BY <1>1 DEF Judge, Armed
<1> HIDE DEF reached
<1>4. [entry[s] EXCEPT !.reached = reached] \in Armed
  BY <1>1, <1>3 DEF Armed
<1>5. /\ entry' \in [Signal -> Armed]
      /\ entry'[s] = [entry[s] EXCEPT !.reached = reached]
      /\ \A u \in Signal : u # s => entry'[u] = entry[u]
  BY <1>3, <1>4 DEF TableTypes
<1>6. /\ entry'[s].kind = entry[s].kind /\ entry'[s].buy = entry[s].buy
      /\ entry'[s].zone = entry[s].zone /\ entry'[s].created = entry[s].created
      /\ entry'[s].reached = reached
  BY <1>1, <1>5 DEF Armed
<1>7. /\ low' = [low EXCEPT ![s] = Least(@, Depth(entry[s], tick["poll"]))]
      /\ Least(low[s], Depth(entry[s], tick["poll"])) \in Int
  BY <1>1, <1>2 DEF Judge, Least
<1>8. low' \in [Signal -> Int] /\ low'[s] = Least(low[s], Depth(entry[s], tick["poll"]))
      /\ \A u \in Signal : u # s => low'[u] = low[u]
  BY <1>7 DEF TableTypes
<1> QED BY <1>2, <1>5, <1>6, <1>8 DEF reached

LEMMA CancelTypes ==
  ASSUME TableTypes, NEW gone, NEW reason \in Endings, Cancel(gone, reason)
  PROVE  /\ pending' \subseteq Signal
         /\ ending' \in [Signal -> Endings \union {"none", "lost"}]
         /\ \A s \in Signal : ending'[s] = IF s \in gone THEN reason ELSE ending[s]
BY DEF TableTypes, Cancel

\* What is sent, and what is counted of it.
LEMMA SentTypes ==
  ASSUME TableTypes, NEW executed \in {0, 1}
  PROVE  /\ \A s \in Signal : Sent(executed)[s] = IF s = request THEN executed ELSE 0
         /\ \A f \in [Signal -> Nat] :
              /\ Plus(f, Sent(executed)) \in [Signal -> Nat]
              /\ \A s \in Signal : Plus(f, Sent(executed))[s]
                                     = IF s = request THEN f[s] + executed ELSE f[s]
<1>1. \A s \in Signal : Sent(executed)[s] = IF s = request THEN executed ELSE 0
  BY DEF Sent
<1>2. \A f \in [Signal -> Nat], s \in Signal :
        /\ Plus(f, Sent(executed))[s] = IF s = request THEN f[s] + executed ELSE f[s]
        /\ Plus(f, Sent(executed))[s] \in Nat
  BY <1>1 DEF Plus
<1> QED BY <1>1, <1>2 DEF Plus

LEMMA InitTypes == Init => TableTypes /\ ThreadTypes
<1> SUFFICES ASSUME Init PROVE TableTypes /\ ThreadTypes
  OBVIOUS
<1>1. entry \in [Signal -> Armed]
  <2>1. \A s \in Signal : Entries[s] \in [buy : BOOLEAN, zone : Nat]
    BY WatcherAssumption
  <2>2. \A s \in Signal : [buy |-> Entries[s].buy, zone |-> Entries[s].zone,
                          kind |-> "fresh", reached |-> FALSE, created |-> 0] \in Armed
    BY <2>1 DEF Armed, RouteKinds
  <2> QED BY <2>2 DEF Init
<1>2. 0 \in 0..MaxTime /\ DayOf(0) = 0 /\ 0 \in 0..DayOf(MaxTime)
  <2>1. Start \in Nat /\ Start < Day /\ Day \in Nat /\ Day > 0 /\ MaxTime \in Nat
    BY Numbers
  <2>2. (0 + Start) \div Day = 0
    BY <2>1
  <2> QED BY <2>1, <2>2, Days DEF DayOf
<1>3. TableTypes
  BY <1>1, <1>2, Numbers DEF Init, TableTypes
<1>4. ThreadTypes
  BY Names DEF Init, ThreadTypes, Step, SignalStep, PollStep, Cachable
<1> QED BY <1>3, <1>4

\* Every step keeps the types.
LEMMA NextTypes == TableTypes /\ ThreadTypes /\ [Next]_vars => TableTypes' /\ ThreadTypes'
<1> SUFFICES ASSUME TableTypes, ThreadTypes, [Next]_vars PROVE TableTypes' /\ ThreadTypes'
  OBVIOUS
<1> USE Names DEF table, threads, cycle, bridge, counts, orders, history, At, Forget
<1>0. /\ got \in [Threads -> Int] /\ tick \in [Threads -> Int] /\ NoAnswer \in Int
      /\ SignalStep \subseteq Step /\ PollStep \subseteq Step
  BY DEF ThreadTypes, Step
<1>1. ASSUME NEW s \in Signal, Begin(s) PROVE TableTypes' /\ ThreadTypes'
  <2>1. pc' = [pc EXCEPT ![s] = "tick"] /\ got' = got /\ tick' = tick
        /\ cache' = [key \in Keys |-> {}]
    BY <1>1 DEF Begin
  <2>2. /\ pc' \in [Threads -> Step]
        /\ (\A u \in Signal : pc'[u] \in SignalStep) /\ pc'["poll"] \in PollStep
        /\ pc'[s] = "tick" /\ \A u \in Threads \ {s} : pc'[u] = pc[u]
    BY <2>1, StepType DEF SignalStep
  <2>3. cache' \in [Keys -> SUBSET Int] /\ \A key \in Keys : cache'[key] \in Cachable(key)
    BY <2>1 DEF Cachable
  <2> QED BY <1>1, <2>1, <2>2, <2>3 DEF Begin, TableTypes, ThreadTypes
<1>2. ASSUME NEW t \in Threads, Read(t) PROVE TableTypes' /\ ThreadTypes'
  BY <1>2, ReadTypes DEF TableTypes
<1>3. ASSUME NEW s \in Signal, Decline(s) \/ Refuse(s) PROVE TableTypes' /\ ThreadTypes'
  <2>1. /\ pc' = [pc EXCEPT ![s] = "done"] /\ got' = [got EXCEPT ![s] = NoAnswer]
        /\ tick' = [tick EXCEPT ![s] = NoAnswer] /\ cache' = cache
    BY <1>3 DEF Decline, Refuse, Judged
  <2>2. got' \in [Threads -> Int] /\ tick' \in [Threads -> Int]
        /\ \A u \in Threads \ {s} : got'[u] = got[u]
    BY <1>0, <2>1
  <2>3. "done" \in SignalStep
    BY DEF SignalStep
  <2>4. ThreadTypes'
    BY <1>0, <2>1, <2>2, <2>3, ThreadsKept DEF Storing
  <2> QED BY <1>3, <2>4 DEF Decline, Refuse, TableTypes
<1>4. ASSUME NEW s \in Signal, Price(s) PROVE TableTypes' /\ ThreadTypes'
  <2>1. /\ pc' = [pc EXCEPT ![s] = "account"] /\ got' = [got EXCEPT ![s] = NoAnswer]
        /\ tick' = [tick EXCEPT ![s] = got[s]] /\ cache' = cache
    BY <1>4 DEF Price
  <2>2. got' \in [Threads -> Int] /\ tick' \in [Threads -> Int]
        /\ \A u \in Threads \ {s} : got'[u] = got[u]
    BY <1>0, <2>1
  <2>3. "account" \in SignalStep
    BY DEF SignalStep
  <2>4. ThreadTypes'
    BY <1>0, <2>1, <2>2, <2>3, ThreadsKept DEF Storing
  <2> QED BY <1>4, <2>4 DEF Price, TableTypes
<1>5. ASSUME NEW s \in Signal, Create(s) PROVE TableTypes' /\ ThreadTypes'
  <2>1. /\ pc' = [pc EXCEPT ![s] = "insert"] /\ got' = [got EXCEPT ![s] = NoAnswer]
        /\ tick' = [tick EXCEPT ![s] = NoAnswer] /\ cache' = cache
    BY <1>5 DEF Create, Judged
  <2>2. got' \in [Threads -> Int] /\ tick' \in [Threads -> Int]
        /\ \A u \in Threads \ {s} : got'[u] = got[u]
    BY <1>0, <2>1
  <2>3. "insert" \in SignalStep
    BY DEF SignalStep
  <2>4. ThreadTypes'
    BY <1>0, <2>1, <2>2, <2>3, ThreadsKept DEF Storing
  <2>5. entry' \in [Signal -> Armed]
    <3>1. PICK kind \in RouteKinds : entry' = [entry EXCEPT ![s].kind = kind, ![s].created = now]
      BY <1>5 DEF Create
    <3>2. entry[s] \in Armed /\ now \in Nat
      BY Numbers DEF TableTypes
    <3>3. [entry[s] EXCEPT !.kind = kind] \in Armed
      BY <3>2 DEF Armed
    <3>4. [[entry[s] EXCEPT !.kind = kind] EXCEPT !.created = now] \in Armed
      BY <3>2, <3>3 DEF Armed
    <3>5. entry' = [entry EXCEPT ![s] = [[entry[s] EXCEPT !.kind = kind] EXCEPT !.created = now]]
      BY <3>1 DEF TableTypes
    <3> QED BY <3>4, <3>5 DEF TableTypes
  <2> QED BY <1>5, <2>4, <2>5 DEF Create, TableTypes
<1>6. ASSUME NEW s \in Signal, Insert(s) PROVE TableTypes' /\ ThreadTypes'
  <2>1. "done" \in SignalStep
    BY DEF SignalStep
  <2>2. ThreadTypes'
    BY <1>0, <1>6, <2>1, ThreadsKept DEF Insert, Storing
  <2> QED BY <1>6, <2>2 DEF Insert, TableTypes
<1>7. CASE OtherSignal
  <2>1. cache' \in [Keys -> SUBSET Int] /\ \A key \in Keys : cache'[key] \in Cachable(key)
    <3>1. PICK ticks \in Cachable("tick"), accounts \in Cachable("account") :
            cache' = [key \in Keys |-> IF key = "tick" THEN ticks ELSE accounts]
      BY <1>7 DEF OtherSignal
    <3>2. ticks \subseteq Int /\ accounts \subseteq Int
      BY DEF Cachable
    <3> QED BY <3>1, <3>2
  <2> QED BY <1>7, <2>1 DEF OtherSignal, TableTypes, ThreadTypes
\* A step of the poll.
<1>8. ASSUME NEW step \in PollStep \ Storing, pc' = [pc EXCEPT !["poll"] = step],
             got' \in {got, [got EXCEPT !["poll"] = NoAnswer]},
             \E x \in Int : tick' \in {tick, [tick EXCEPT !["poll"] = x]}, UNCHANGED cache
      PROVE  ThreadTypes'
  <2>1. got' \in [Threads -> Int] /\ tick' \in [Threads -> Int]
        /\ \A u \in Threads \ {"poll"} : got'[u] = got[u]
    BY <1>0, <1>8
  <2> QED BY <1>0, <1>8, <2>1, ThreadsKept
<1>9. CASE SweepHold
  <2>1. ThreadTypes'
    BY <1>8, <1>9 DEF SweepHold, PollStep, Storing
  <2>2. pending' \subseteq Signal /\ ending' \in [Signal -> Endings \union {"none", "lost"}]
    BY <1>9, CancelTypes DEF SweepHold, Endings
  <2> QED BY <1>9, <2>1, <2>2 DEF SweepHold, TableTypes
<1>10. CASE SweepDay
  <2>1. ThreadTypes'
    BY <1>8, <1>10 DEF SweepDay, PollStep, Storing
  <2>2. pending' \subseteq Signal /\ ending' \in [Signal -> Endings \union {"none", "lost"}]
    BY <1>10, CancelTypes DEF SweepDay, Endings
  <2>3. armedDay' \in 0..DayOf(MaxTime)
    BY <1>10, Days DEF SweepDay, TableTypes
  <2> QED BY <1>10, <2>1, <2>2, <2>3 DEF SweepDay, TableTypes
<1>11. CASE Snapshot
  <2>1. ThreadTypes'
    BY <1>8, <1>11 DEF Snapshot, PollStep, Storing
  <2> QED BY <1>11, <2>1 DEF Snapshot, TableTypes
<1>12. CASE Stall
  <2>1. ThreadTypes'
    BY <1>8, <1>12 DEF Stall, PollStep, Storing
  <2> QED BY <1>12, <2>1 DEF Stall, TableTypes
<1>13. CASE TakeTick
  <2>1. ThreadTypes'
    BY <1>0, <1>8, <1>13 DEF TakeTick, PollStep, Storing
  <2>2. now \in Nat
    BY Numbers DEF TableTypes
  <2> QED BY <1>13, <2>1, <2>2 DEF TakeTick, TableTypes
<1>14. ASSUME NEW s \in Signal, Expire(s) PROVE TableTypes' /\ ThreadTypes'
  <2>1. pending' \subseteq Signal /\ ending' \in [Signal -> Endings \union {"none", "lost"}]
    BY <1>14, CancelTypes DEF Expire, Endings
  <2>2. ThreadTypes'
    BY <1>14 DEF Expire, ThreadTypes
  <2> QED BY <1>14, <2>1, <2>2 DEF Expire, Looked, TableTypes
<1>15. ASSUME NEW s \in Signal, Wait(s) PROVE TableTypes' /\ ThreadTypes'
  <2>1. entry' \in [Signal -> Armed] /\ low' \in [Signal -> Int]
    BY <1>15, JudgeTypes DEF Wait
  <2>2. ThreadTypes'
    BY <1>15 DEF Wait, ThreadTypes
  <2> QED BY <1>15, <2>1, <2>2 DEF Wait, Looked, TableTypes
<1>16. ASSUME NEW s \in Signal, Break(s) PROVE TableTypes' /\ ThreadTypes'
  <2>1. pending' \subseteq Signal /\ ending' \in [Signal -> Endings \union {"none", "lost"}]
    BY <1>16, CancelTypes DEF Break, Endings
  <2>2. entry' \in [Signal -> Armed] /\ low' \in [Signal -> Int]
    BY <1>16, JudgeTypes DEF Break
  <2>3. ThreadTypes'
    BY <1>16 DEF Break, ThreadTypes
  <2> QED BY <1>16, <2>1, <2>2, <2>3 DEF Break, Looked, TableTypes
<1>17. ASSUME NEW s \in Signal, Fire(s) PROVE TableTypes' /\ ThreadTypes'
  <2>1. entry' \in [Signal -> Armed] /\ low' \in [Signal -> Int]
    BY <1>17, JudgeTypes DEF Fire
  <2>2. ThreadTypes'
    BY <1>8, <1>17 DEF Fire, PollStep, Storing
  <2> QED BY <1>17, <2>1, <2>2 DEF Fire, Looked, TableTypes
<1>18. CASE Unviable
  <2>1. ThreadTypes'
    BY <1>8, <1>18 DEF Unviable, PollStep, Storing
  <2>2. pending' \subseteq Signal /\ ending' \in [Signal -> Endings \union {"none", "lost"}]
    BY <1>18, CancelTypes DEF Unviable, Endings
  <2> QED BY <1>18, <2>1, <2>2 DEF Unviable, TableTypes
<1>19. CASE Afford \/ Stage \/ Order
  <2>1. ThreadTypes'
    BY <1>8, <1>19 DEF Afford, Stage, Order, PollStep, Storing
  <2>2. positions' \in [Signal -> Nat]
    BY <1>19, SentTypes DEF Afford, Stage, Order, TableTypes
  <2> QED BY <1>19, <2>1, <2>2 DEF Afford, Stage, Order, TableTypes
<1>20. CASE OrderFails
  <2>1. ThreadTypes'
    BY <1>8, <1>20 DEF OrderFails, PollStep, Storing
  <2>2. positions' \in [Signal -> Nat]
    BY <1>20, SentTypes DEF OrderFails, TableTypes
  <2>3. pending' \subseteq Signal /\ ending' \in [Signal -> Endings \union {"none", "lost"}]
    BY <1>20, CancelTypes DEF OrderFails, Endings
  <2> QED BY <1>20, <2>1, <2>2, <2>3 DEF OrderFails, TableTypes
<1>26. CASE ViableRaises \/ OrderRaises
  <2>1. PollRaises
    BY <1>26 DEF ViableRaises, OrderRaises
  <2>2. ThreadTypes'
    BY <1>0, <1>8, <2>1 DEF PollRaises, PollStep, Storing
  <2>3. positions' \in [Signal -> Nat] /\ unread' \in [Signal -> Nat]
    BY <1>26, SentTypes DEF ViableRaises, OrderRaises, TableTypes
  <2>4. raises' \in 0..MaxRaises
    BY <2>1, Numbers DEF PollRaises, TableTypes
  <2> QED BY <2>1, <2>2, <2>3, <2>4 DEF PollRaises, TableTypes
<1>27. CASE OtherStages \/ OtherSends
  <2>1. positions' \in [Signal -> Nat] /\ crossed' \in [Signal -> Nat]
    BY <1>27, SentTypes DEF OtherStages, OtherSends, TableTypes
  <2>2. others' \in 0..MaxOthers /\ request' \in Signal \union {NoSignal, Other}
    BY <1>27, Numbers DEF OtherStages, OtherSends, TableTypes
  <2>3. ThreadTypes'
    BY <1>27 DEF OtherStages, OtherSends, ThreadTypes
  <2> QED BY <1>27, <2>1, <2>2, <2>3 DEF OtherStages, OtherSends, TableTypes
<1>21. CASE Pop
  <2>1. ThreadTypes'
    BY <1>8, <1>21 DEF Pop, PollStep, Storing
  <2>2. pending' \subseteq Signal /\ ending' \in [Signal -> Endings \union {"none", "lost"}]
    BY <1>21, CancelTypes DEF Pop, Endings
  <2> QED BY <1>21, <2>1, <2>2 DEF Pop, TableTypes
<1>22. CASE PollEnd
  <2>1. ThreadTypes'
    BY <1>0, <1>8, <1>22 DEF PollEnd, PollStep, Storing
  <2> QED BY <1>22, <2>1 DEF PollEnd, TableTypes
<1>23. CASE Clock
  <2>1. now' \in 0..MaxTime
    BY <1>23, Numbers DEF Clock, TableTypes
  <2> QED BY <1>23, <2>1 DEF Clock, TableTypes, ThreadTypes
<1>24. CASE Restart
  <2>1. armedDay' \in 0..DayOf(MaxTime)
    BY <1>24, Days DEF Restart, TableTypes
  <2>2. restarts' \in 0..MaxRestarts /\ others' \in 0..MaxOthers /\ ending' \in [Signal -> Endings \union {"none", "lost"}]
    BY <1>24, Numbers DEF Restart, TableTypes
  <2>3. /\ pc' \in [Threads -> Step]
        /\ (\A s \in Signal : pc'[s] \in {"new", "done"}) /\ pc'["poll"] = "idle"
    BY <1>0, <1>24 DEF Restart, SignalStep, PollStep, Step
  <2>4. ThreadTypes'
    BY <1>24, <2>3 DEF Restart, ThreadTypes, SignalStep, PollStep, Cachable
  <2> QED BY <1>24, <2>1, <2>2, <2>4 DEF Restart, TableTypes
<1>25. CASE UNCHANGED vars
  BY <1>25 DEF vars, TableTypes, ThreadTypes
<1> QED BY <1>1, <1>2, <1>3, <1>4, <1>5, <1>6, <1>7, <1>9, <1>10, <1>11, <1>12, <1>13, <1>14,
  <1>15, <1>16, <1>17, <1>18, <1>19, <1>20, <1>21, <1>22, <1>23, <1>24, <1>25, <1>26, <1>27
  DEF Next, Process, Poll

-----------------------------------------------------------------------------
(* The table, and what its entries have seen.                               *)

\* An entry is armed once, by a signal that is then done; a running poll looks at
\* armed entries only, and fires one of them.
TableInv ==
  /\ left \subseteq pending
  /\ pc["poll"] \in {"idle", "boundary", "snapshot"} => left = {}
  /\ \A s \in pending : pc[s] = "done" /\ ending[s] = "none" /\ entry[s].created <= now
  /\ \A s \in Signal : pc[s] # "done" =>
       ending[s] = "none" /\ ~entry[s].reached /\ low[s] = ZoneMax
  /\ \A s \in Signal : pc[s] = "insert" => entry[s].created <= now
  /\ Firing => cur \in pending \ left
  /\ ~Firing => cur = NoSignal

\* An entry has reached its zone only if price was there, and an exhaustion entry
\* that is still armed never saw the level collapse.
Near(e) == IF e.kind = "exhaustion" THEN 0 ELSE Touch
Followed(s) ==
  /\ entry[s].reached => low[s] <= Near(entry[s])
  /\ entry[s].kind = "exhaustion" => low[s] > -2 * Invalidate
ThesisInv ==
  /\ \A s \in pending : Followed(s)
  /\ FillsFollowTheThesis

FiringSteps == {"account", "accountStore", "judge", "margin", "marginStore", "order",
                "send", "pop"}

Types == TableTypes /\ ThreadTypes
Invs == TableInv /\ ThesisInv

LEMMA InitInvs == Init => Invs
BY Names, Numbers DEF Init, Invs, TableInv, ThesisInv, Firing, FillsFollowTheThesis

\* A step that cancels, fires and judges nothing.
LEMMA Quiet ==
  ASSUME Types, Types', Invs,
         UNCHANGED <<pending, ending, low, cur>>, now <= now',
         \A s \in pending : entry'[s] = entry[s],
         \A s \in Signal : entry'[s].reached = entry[s].reached,
         \A s \in Signal :
           \/ pc'[s] = pc[s] /\ entry'[s] = entry[s]
           \/ pc[s] # "done" /\ (pc'[s] = "insert" => entry'[s].created <= now'),
         left' \subseteq pending,
         pc'["poll"] \in {"idle", "boundary", "snapshot"} => left' = {},
         Firing' <=> Firing,
         Firing => left' = left /\ tick'["poll"] = tick["poll"]
  PROVE  Invs'
<1>1. now \in Int /\ now' \in Int /\ \A s \in Signal : entry[s].created \in Int
  BY Numbers DEF Types, TableTypes, Armed
<1>2. pending \subseteq Signal
  BY DEF Types, TableTypes
<1>3. \A s \in pending : pc'[s] = "done" /\ ending[s] = "none" /\ entry'[s].created <= now'
  BY <1>1, <1>2 DEF Invs, TableInv
<1>4. \A s \in Signal : pc'[s] # "done" =>
       ending[s] = "none" /\ ~entry'[s].reached /\ low[s] = ZoneMax
  BY DEF Invs, TableInv
<1>5. \A s \in Signal : pc'[s] = "insert" => entry'[s].created <= now'
  BY <1>1 DEF Invs, TableInv
<1>7. TableInv'
  BY <1>3, <1>4, <1>5 DEF Invs, TableInv
<1>8. FillsFollowTheThesis'
  <2>1. Firing => cur \in pending
    BY DEF Invs, TableInv
  <2> QED BY <2>1 DEF Invs, ThesisInv, FillsFollowTheThesis
<1>9. ThesisInv'
  BY <1>8 DEF Invs, ThesisInv, Followed
<1> QED BY <1>7, <1>9 DEF Invs

\* A step that takes armed entries away.
LEMMA Cancelled ==
  ASSUME Types, Types', Invs, NEW gone \in SUBSET pending, NEW reason \in Endings,
         pending' = pending \ gone,
         \A s \in Signal : ending'[s] = IF s \in gone THEN reason ELSE ending[s],
         now' = now,
         \A s \in Signal : pc'[s] = pc[s],
         \A s \in Signal \ gone : entry'[s] = entry[s] /\ low'[s] = low[s],
         ~Firing', cur' = NoSignal, left' \subseteq pending',
         pc'["poll"] \in {"idle", "boundary", "snapshot"} => left' = {}
  PROVE  Invs'
<1>1. /\ pending' = pending \ gone /\ pending \subseteq Signal
      /\ \A s \in Signal : ending'[s] = IF s \in gone THEN reason ELSE ending[s]
  BY DEF Types, TableTypes
<1>2. /\ \A s \in pending' : pc'[s] = "done" /\ ending'[s] = "none" /\ entry'[s].created <= now'
      /\ \A s \in Signal : pc'[s] # "done" =>
           ending'[s] = "none" /\ ~entry'[s].reached /\ low'[s] = ZoneMax
      /\ \A s \in Signal : pc'[s] = "insert" => entry'[s].created <= now'
  BY <1>1 DEF Invs, TableInv
<1>5. TableInv'
  BY <1>2 DEF TableInv
<1>6. ThesisInv'
  BY <1>1 DEF Invs, ThesisInv, Followed, FillsFollowTheThesis
<1> QED BY <1>5, <1>6 DEF Invs

\* An evaluation that does not cancel.
LEMMA JudgeFollows ==
  ASSUME Types, Invs, NEW s \in pending, Judge(s), Evaluate(entry[s], tick["poll"]) # "cancel"
  PROVE  Followed(s)'
<1> DEFINE depth == Depth(entry[s], tick["poll"])
<1>1. s \in Signal
  BY DEF Types, TableTypes
<1>2. /\ entry'[s].kind = entry[s].kind
      /\ entry'[s].reached => entry[s].reached \/ Reaches(entry[s], tick["poll"])
      /\ low'[s] = Least(low[s], depth) /\ depth \in Int
  <2>1. TableTypes /\ ThreadTypes
    BY DEF Types
  <2> QED BY <1>1, <2>1, JudgeTypes
<1>10. low[s] \in Int
  BY <1>1 DEF Types, TableTypes
<1>3. ~Breaks(entry[s], tick["poll"])
  BY DEF Evaluate
<1>4. /\ Reaches(entry[s], tick["poll"]) => depth <= Near(entry[s])
      /\ entry[s].kind = "exhaustion" => ~(depth <= -2 * Invalidate)
  BY <1>3 DEF Reaches, Breaks, Near
<1>5. Followed(s)
  BY DEF Invs, ThesisInv
<1> HIDE DEF depth
<1>6. Near(entry[s]) \in Int /\ Near(entry'[s]) = Near(entry[s]) /\ Invalidate \in Int
  BY <1>2, Numbers DEF Near
<1>7. low'[s] \in Int /\ low'[s] <= low[s] /\ low'[s] <= depth
      /\ low'[s] \in {low[s], depth}
  BY <1>2, <1>10 DEF Least
<1>8. entry'[s].reached => low'[s] <= Near(entry'[s])
  BY <1>2, <1>10, <1>4, <1>5, <1>6, <1>7 DEF Followed
<1>9. entry'[s].kind = "exhaustion" => low'[s] > -2 * Invalidate
  BY <1>2, <1>10, <1>4, <1>5, <1>6, <1>7 DEF Followed
<1> QED BY <1>8, <1>9 DEF Followed

LEMMA NextInvs == Types /\ Invs /\ [Next]_vars => Invs'
<1> SUFFICES ASSUME Types, Invs, [Next]_vars PROVE Invs'
  OBVIOUS
<1> USE Names DEF table, threads, cycle, bridge, counts, orders, history, At, Forget
<1>0. /\ Types' /\ pc \in [Threads -> Step] /\ tick \in [Threads -> Int]
      /\ left \subseteq pending /\ pending \subseteq Signal
      /\ pc["poll"] \in {"idle", "boundary", "snapshot"} => left = {}
      /\ Firing => cur \in pending \ left
      /\ ~Firing => cur = NoSignal
  BY NextTypes DEF Types, ThreadTypes, TableTypes, Invs, TableInv
<1>1. now \in Int /\ now' \in Int /\ now <= now
  BY <1>0, Numbers DEF Types, TableTypes
\* A step of a signal, up to its entry, and one of anybody else.
<1>2. ASSUME NEW s \in Signal, NEW step, pc' = [pc EXCEPT ![s] = step],
             pc[s] # "done", step # "insert",
             UNCHANGED <<now, pending, ending, low, cur, entry, left>>,
             tick'["poll"] = tick["poll"]
      PROVE  Invs'
  <2>1. /\ pc'["poll"] = pc["poll"] /\ pc'[s] = step
        /\ \A u \in Signal : u # s => pc'[u] = pc[u]
    BY <1>0, <1>2
  <2>2. Firing' <=> Firing
    BY <2>1 DEF Firing
  <2> QED BY <1>0, <1>1, <1>2, <2>1, <2>2, Quiet
<1>3. ASSUME UNCHANGED <<pc, pending, ending, low, cur, entry, left, tick>>, now <= now'
      PROVE  Invs'
  <2>1. Firing' <=> Firing
    BY <1>3 DEF Firing
  <2> QED BY <1>0, <1>3, <2>1, Quiet
\* A step of the poll that looks at no entry.
<1>4. ASSUME NEW step, pc' = [pc EXCEPT !["poll"] = step],
             UNCHANGED <<now, pending, ending, low, cur, entry>>,
             left' \subseteq pending, step \in {"idle", "boundary", "snapshot"} => left' = {},
             step \in FiringSteps <=> Firing,
             Firing => left' = left /\ tick'["poll"] = tick["poll"]
      PROVE  Invs'
  <2>1. pc'["poll"] = step /\ \A u \in Signal : pc'[u] = pc[u]
    BY <1>0, <1>4
  <2>2. Firing' <=> Firing
    BY <1>4, <2>1 DEF Firing, FiringSteps
  <2> QED BY <1>0, <1>1, <1>4, <2>1, <2>2, Quiet
<1>5. ASSUME NEW s \in Signal,
             Begin(s) \/ Decline(s) \/ Price(s) \/ Refuse(s)
      PROVE  Invs'
  <2>1. PICK step \in {"tick", "done", "account"} : pc' = [pc EXCEPT ![s] = step]
    BY <1>5 DEF Begin, Decline, Price, Refuse, Judged
  <2>2. /\ UNCHANGED <<now, pending, ending, low, cur, entry, left>>
        /\ pc[s] # "done" /\ tick'["poll"] = tick["poll"]
    BY <1>0, <1>5 DEF Begin, Decline, Price, Refuse, Judged
  <2> QED BY <1>2, <2>1, <2>2
<1>6. ASSUME NEW t \in Threads, Read(t) PROVE Invs'
  <2>1. PICK phase \in Phases, step \in UNION {{ph[3], ph[4]} : ph \in Phases} :
          /\ step \in {phase[3], phase[4]}
          /\ pc[t] \in {phase[2], phase[3]} /\ pc' = [pc EXCEPT ![t] = step]
    BY <1>6, ReadTypes DEF Types
  <2>2. UNCHANGED <<now, pending, ending, low, cur, entry, left, tick>>
    BY <1>6, ReadTypes DEF Types
  <2>3. /\ pc[t] \notin {"done", "idle", "boundary", "snapshot"}
        /\ step \notin {"insert", "idle", "boundary", "snapshot"}
        /\ step \in FiringSteps <=> pc[t] \in FiringSteps
    BY <2>1 DEF Phases, FiringSteps
  <2>4. CASE t = "poll"
    <3>1. step \in FiringSteps <=> Firing
      BY <2>3, <2>4 DEF Firing, FiringSteps
    <3> QED BY <1>0, <1>4, <2>1, <2>2, <2>3, <2>4, <3>1
  <2>5. CASE t \in Signal
    BY <1>2, <2>1, <2>2, <2>3, <2>5
  <2> QED BY <1>6, <2>4, <2>5
<1>7. ASSUME NEW s \in Signal, Create(s) PROVE Invs'
  <2>1. PICK kind \in RouteKinds : entry' = [entry EXCEPT ![s].kind = kind, ![s].created = now]
    BY <1>7 DEF Create
  <2>2. /\ pc[s] = "judge" /\ pc' = [pc EXCEPT ![s] = "insert"]
        /\ tick' = [tick EXCEPT ![s] = NoAnswer]
        /\ UNCHANGED <<now, pending, ending, low, cur, left>>
    BY <1>7 DEF Create, Judged
  <2>3. /\ \A u \in Signal : u # s => entry'[u] = entry[u]
        /\ entry'[s].created = now /\ entry'[s].reached = entry[s].reached
    <3>1. entry \in [Signal -> Armed] /\ entry[s] \in Armed
      BY DEF Types, TableTypes
    <3>2. entry'[s] = [[entry[s] EXCEPT !.kind = kind] EXCEPT !.created = now]
          /\ \A u \in Signal : u # s => entry'[u] = entry[u]
      BY <2>1, <3>1
    <3> QED BY <3>1, <3>2 DEF Armed
  <2>4. /\ pc'["poll"] = pc["poll"] /\ pc'[s] = "insert" /\ tick'["poll"] = tick["poll"]
        /\ \A u \in Signal : u # s => pc'[u] = pc[u]
    BY <1>0, <2>2
  <2>5. s \notin pending
    BY <2>2 DEF Invs, TableInv
  <2>6. Firing' <=> Firing
    BY <2>4 DEF Firing
  <2> QED BY <1>0, <1>1, <2>2, <2>3, <2>4, <2>5, <2>6, Quiet
<1>8. ASSUME NEW s \in Signal, Insert(s) PROVE Invs'
  <2>1. /\ pc[s] = "insert" /\ pc' = [pc EXCEPT ![s] = "done"] /\ pending' = pending \union {s}
        /\ UNCHANGED <<now, entry, ending, low, cur, left, tick>>
    BY <1>8 DEF Insert
  <2>2. /\ pc'["poll"] = pc["poll"] /\ pc'[s] = "done"
        /\ \A u \in Signal : u # s => pc'[u] = pc[u]
    BY <1>0, <2>1
  <2>3. /\ ending[s] = "none" /\ ~entry[s].reached /\ low[s] = ZoneMax
        /\ entry[s].created <= now
    BY <2>1 DEF Invs, TableInv
  <2>4. Firing' <=> Firing
    BY <2>2 DEF Firing
  <2>5. TableInv'
    BY <2>1, <2>2, <2>3, <2>4 DEF Invs, TableInv
  <2>6. Followed(s)
    BY <2>3, Numbers DEF Followed
  <2>7. ThesisInv'
    BY <2>1, <2>2, <2>4, <2>6 DEF Invs, ThesisInv, Followed, FillsFollowTheThesis
  <2> QED BY <2>5, <2>7 DEF Invs
<1>9. CASE OtherSignal
  BY <1>1, <1>3, <1>9 DEF OtherSignal
<1>10. CASE Clock
  <2>1. now <= now'
    BY <1>1, <1>10 DEF Clock
  <2> QED BY <1>3, <1>10, <2>1 DEF Clock
<1>11. CASE UNCHANGED vars
  BY <1>1, <1>3, <1>11 DEF vars
<1>12. CASE Snapshot \/ Stall \/ TakeTick \/ PollEnd
  <2>1. PICK step \in {"idle", "tick", "entries"} : pc' = [pc EXCEPT !["poll"] = step]
    BY <1>12 DEF Snapshot, Stall, TakeTick, PollEnd
  <2>2. pc'["poll"] = step
    BY <1>0, <2>1
  <2>3. /\ UNCHANGED <<now, pending, ending, low, cur, entry>>
        /\ left' \subseteq pending /\ (step = "idle" => left' = {})
        /\ ~Firing
    BY <1>0, <1>12, <2>2 DEF Snapshot, Stall, TakeTick, PollEnd, Firing
  <2>4. /\ step \notin FiringSteps
        /\ step \in {"idle", "boundary", "snapshot"} => left' = {}
    BY <1>0, <1>12, <2>1, <2>3 DEF FiringSteps, Snapshot, Stall, TakeTick, PollEnd
  <2>5. step \in FiringSteps <=> Firing
    BY <2>3, <2>4
  <2> HIDE DEF Firing
  <2> QED BY ONLY <1>4, <2>1, <2>3, <2>4, <2>5
<1>13. CASE SweepHold \/ SweepDay
  <2>1. PICK gone \in SUBSET pending, reason \in {"max_hold", "day_boundary"} : Cancel(gone, reason)
    BY <1>13 DEF SweepHold, SweepDay
  <2>2. PICK step \in {"boundary", "snapshot"} : pc' = [pc EXCEPT !["poll"] = step]
    BY <1>13 DEF SweepHold, SweepDay
  <2>3. /\ pc'["poll"] \in {"boundary", "snapshot"} /\ \A s \in Signal : pc'[s] = pc[s]
        /\ pc["poll"] \in {"idle", "boundary"}
        /\ UNCHANGED <<now, entry, low, cur, left>>
    BY <1>0, <1>13, <2>2 DEF SweepHold, SweepDay
  <2>4. ~Firing' /\ cur' = NoSignal /\ left' = {} /\ reason \in Endings
    BY <1>0, <2>3 DEF Firing, Endings
  <2>5. /\ left' \subseteq pending' /\ now' = now
        /\ \A s \in Signal : pc'[s] = pc[s]
        /\ \A s \in Signal \ gone : entry'[s] = entry[s] /\ low'[s] = low[s]
    BY <2>3, <2>4
  <2> QED BY <1>0, <2>1, <2>3, <2>4, <2>5, Cancelled DEF Cancel
<1>14. ASSUME NEW s \in Signal, Expire(s) \/ Break(s) PROVE Invs'
  <2>1. PICK reason \in {"expired", "level_broke"} : Cancel({s}, reason)
    BY <1>14 DEF Expire, Break
  <2>2. /\ pc' = pc /\ pc["poll"] = "entries" /\ s \in left /\ left' = left \ {s}
        /\ UNCHANGED <<now, cur>>
    BY <1>14 DEF Expire, Break, Looked
  <2>3. \A u \in Signal \ {s} : entry'[u] = entry[u] /\ low'[u] = low[u]
    BY <1>14, JudgeTypes DEF Expire, Break, Types
  <2>4. ~Firing' /\ cur' = NoSignal /\ reason \in Endings /\ {s} \in SUBSET pending
    BY <1>0, <2>2 DEF Firing, Endings
  <2>5. left' \subseteq pending'
    BY <1>0, <2>1, <2>2 DEF Cancel
  <2>6. /\ now' = now /\ pc'["poll"] = "entries"
        /\ \A u \in Signal : pc'[u] = pc[u]
    BY <2>2
  <2> QED BY <1>0, <2>1, <2>3, <2>4, <2>5, <2>6, Cancelled DEF Cancel
<1>15. CASE Unviable \/ OrderFails \/ Pop
  <2>1. PICK reason \in {"not_viable", "order_failed", "filled"} : Cancel({cur}, reason)
    BY <1>15 DEF Unviable, OrderFails, Pop
  <2>2. /\ pc' = [pc EXCEPT !["poll"] = "entries"] /\ Firing /\ cur' = NoSignal
        /\ UNCHANGED <<now, entry, low, left>>
    BY <1>15 DEF Unviable, OrderFails, Pop, Firing
  <2>3. /\ pc'["poll"] = "entries" /\ \A s \in Signal : pc'[s] = pc[s]
        /\ cur \in pending \ left
    BY <1>0, <2>2
  <2>4. ~Firing'
    BY <2>3 DEF Firing
  <2>5. reason \in Endings /\ {cur} \in SUBSET pending /\ left' \subseteq pending'
    BY <1>0, <2>1, <2>2, <2>3 DEF Endings, Cancel
  <2> QED BY <1>0, <2>1, <2>2, <2>3, <2>4, <2>5, Cancelled DEF Cancel
<1>16. ASSUME NEW s \in Signal, Wait(s) \/ Fire(s) PROVE Invs'
  <2>1. /\ Judge(s) /\ s \in left /\ left' = left \ {s} /\ pc["poll"] = "entries"
        /\ Evaluate(entry[s], tick["poll"]) # "cancel"
        /\ UNCHANGED <<now, pending, ending, tick>>
    BY <1>16 DEF Wait, Fire, Looked
  <2>2. /\ \/ pc'["poll"] = "entries" /\ cur' = NoSignal
           \/ /\ pc'["poll"] = "account" /\ cur' = s
              /\ Evaluate(entry[s], tick["poll"]) = "fill"
        /\ \A u \in Signal : pc'[u] = pc[u]
    BY <1>0, <1>16, <2>1 DEF Wait, Fire, Firing
  <2>3. /\ \A u \in Signal : /\ entry'[u].created = entry[u].created
                             /\ u # s => entry'[u] = entry[u] /\ low'[u] = low[u]
        /\ entry'[s].buy = entry[s].buy /\ entry'[s].zone = entry[s].zone
        /\ entry'[s].kind = entry[s].kind
        /\ Depth(entry[s], tick["poll"]) \in Int
    <3>1. TableTypes /\ ThreadTypes
      BY DEF Types
    <3> QED BY <2>1, <3>1, JudgeTypes
  <2>4. s \in pending /\ pc[s] = "done"
    BY <1>0, <2>1 DEF Invs, TableInv
  <2>5. Followed(s)'
    BY <2>1, <2>4, JudgeFollows
  <2>6. TableInv'
    <3>2. Firing' => cur' \in pending' \ left'
      BY <2>1, <2>2, <2>4 DEF Firing
    <3>3. ~Firing' => cur' = NoSignal
      BY <2>2 DEF Firing
    <3>4. \A u \in Signal : pc'[u] # "done" =>
            ending'[u] = "none" /\ ~entry'[u].reached /\ low'[u] = ZoneMax
      BY <2>1, <2>2, <2>3, <2>4 DEF Invs, TableInv
    <3>5. /\ \A u \in pending' : pc'[u] = "done" /\ ending'[u] = "none" /\ entry'[u].created <= now'
          /\ \A u \in Signal : pc'[u] = "insert" => entry'[u].created <= now'
      BY <1>0, <2>1, <2>2, <2>3 DEF Invs, TableInv
    <3>6. left' \subseteq pending' /\ pc'["poll"] \notin {"idle", "boundary", "snapshot"}
      BY <1>0, <2>1, <2>2
    <3> QED BY <3>2, <3>3, <3>4, <3>5, <3>6 DEF TableInv
  <2>7. \A u \in pending' : Followed(u)'
    <3>1. \A u \in pending \ {s} : Followed(u) /\ entry'[u] = entry[u] /\ low'[u] = low[u]
      BY <1>0, <2>3 DEF Invs, ThesisInv
    <3> QED BY <2>1, <2>5, <3>1 DEF Followed
  <2>8. FillsFollowTheThesis'
    <3> SUFFICES ASSUME Firing' PROVE
          /\ Depth(entry'[s], tick["poll"]) >= Confirm
          /\ entry'[s].kind = "fresh" => low'[s] <= Touch
          /\ entry'[s].kind = "exhaustion" => low'[s] <= 0 /\ low'[s] > -2 * Invalidate
      BY <2>1, <2>2 DEF FillsFollowTheThesis, Firing
    <3>1. Evaluate(entry[s], tick["poll"]) = "fill"
      BY <2>2 DEF Firing
    <3>2. entry[s].reached /\ Depth(entry[s], tick["poll"]) >= Confirm
      BY <3>1 DEF Evaluate, Reclaims
    <3>3. Depth(entry'[s], tick["poll"]) = Depth(entry[s], tick["poll"])
      BY <2>3 DEF Depth
    <3>4. entry'[s].reached
      <4>1. entry'[s].reached = (entry[s].reached \/ Reaches(entry[s], tick["poll"]))
        BY <2>1, <2>4, <1>0 DEF Judge, Types, TableTypes, Armed
      <4> QED BY <3>2, <4>1
    <3> QED BY <2>5, <3>2, <3>3, <3>4 DEF Followed, Near
  <2> QED BY <2>6, <2>7, <2>8 DEF Invs, ThesisInv
<1>17. CASE Afford \/ Stage \/ Order
  <2>1. PICK step \in {"margin", "send", "pop"} : pc' = [pc EXCEPT !["poll"] = step]
    BY <1>17 DEF Afford, Stage, Order
  <2>2. UNCHANGED <<now, pending, entry, ending, low, cur, left, tick>> /\ Firing
    BY <1>17 DEF Afford, Stage, Order, Firing
  <2>3. step \in FiringSteps /\ step \notin {"idle", "boundary", "snapshot"}
    BY DEF FiringSteps
  <2> HIDE DEF Firing
  <2> QED BY <1>0, <1>4, <2>1, <2>2, <2>3
<1>19. CASE ViableRaises \/ OrderRaises
  <2>1. PollRaises
    BY <1>19 DEF ViableRaises, OrderRaises
  <2>2. /\ pc' = [pc EXCEPT !["poll"] = "idle"] /\ left' = {} /\ cur' = NoSignal
        /\ UNCHANGED <<now, pending, entry, ending, low>>
    BY <2>1 DEF PollRaises
  <2>3. pc'["poll"] = "idle" /\ \A s \in Signal : pc'[s] = pc[s]
    BY <1>0, <2>2
  <2>4. ~Firing' /\ {} \in SUBSET pending /\ pending' = pending \ {}
    BY <2>2, <2>3 DEF Firing
  <2> QED BY <1>0, <2>2, <2>3, <2>4, Cancelled DEF Endings
<1>20. CASE OtherStages \/ OtherSends
  BY <1>1, <1>3, <1>20 DEF OtherStages, OtherSends
<1>18. CASE Restart
  <2>1. /\ pending' = {} /\ left' = {} /\ cur' = NoSignal /\ pc'["poll"] = "idle"
        /\ \A s \in Signal : /\ pc'[s] = IF pc[s] = "new" THEN "new" ELSE "done"
                             /\ ending'[s] = IF s \in pending THEN "lost" ELSE ending[s]
        /\ UNCHANGED <<now, entry, low>>
    BY <1>18 DEF Restart
  <2>2. ~Firing'
    BY <2>1 DEF Firing
  <2>4. \A s \in Signal : pc'[s] # "done" =>
          ending'[s] = "none" /\ ~entry'[s].reached /\ low'[s] = ZoneMax
    BY <2>1 DEF Invs, TableInv
  <2>5. \A s \in Signal : pc'[s] # "insert"
    BY <2>1
  <2>6. TableInv'
    BY <2>1, <2>2, <2>4, <2>5 DEF TableInv
  <2>7. ThesisInv'
    BY <2>1, <2>2 DEF ThesisInv, FillsFollowTheThesis
  <2> QED BY <2>6, <2>7 DEF Invs
<1> QED BY <1>5, <1>6, <1>7, <1>8, <1>9, <1>10, <1>11, <1>12, <1>13, <1>14, <1>15, <1>16, <1>17, <1>18,
  <1>19, <1>20 DEF Next, Process, Poll

-----------------------------------------------------------------------------
(* What is executed at the broker.                                          *)

\* An entry that ended by an order, or is about to, and one that was lost.
Spent(s) == ending[s] \in {"filled", "order_failed", "lost"} \/ (cur = s /\ pc["poll"] = "pop")

\* What the poll sends is the entry it fires, or what another thread put in its place.
OrdersInv ==
  /\ EndsOnce
  /\ pc["poll"] = "send" => request \in {cur, Other}

LEMMA EndsOnceSpent ==
  EndsOnce <=> \A s \in Signal : positions[s] <= unread[s] + crossed[s] + (IF Spent(s) THEN 1 ELSE 0)
BY DEF EndsOnce, Spent

\* A step that executes nothing and ends armed entries only.
LEMMA NothingSent ==
  ASSUME Types, EndsOnce, UNCHANGED orders, \A s \in Signal : Spent(s) => Spent(s)'
  PROVE  EndsOnce'
<1> SUFFICES ASSUME NEW s \in Signal
             PROVE  positions'[s] <= unread'[s] + crossed'[s] + (IF Spent(s)' THEN 1 ELSE 0)
  BY DEF EndsOnce, Spent
<1>1. positions[s] \in Nat /\ unread[s] \in Nat /\ crossed[s] \in Nat
  BY DEF Types, TableTypes
<1>2. positions[s] <= unread[s] + crossed[s] + (IF Spent(s) THEN 1 ELSE 0)
  BY EndsOnceSpent
<1>3. positions'[s] = positions[s] /\ unread'[s] = unread[s] /\ crossed'[s] = crossed[s]
  BY DEF orders
<1> QED BY <1>1, <1>2, <1>3

\* A step that sends what the bridge holds, counted or about to end.
LEMMA OneSent ==
  ASSUME Types, EndsOnce, NEW executed \in {0, 1},
         positions' = Plus(positions, Sent(executed)),
         \A s \in Signal : Spent(s) => Spent(s)',
         \/ unread' = Plus(unread, Sent(executed)) /\ crossed' = crossed
         \/ crossed' = Plus(crossed, Sent(executed)) /\ unread' = unread
         \/ /\ UNCHANGED <<unread, crossed>>
            /\ \A s \in Signal : s = request => ~Spent(s) /\ Spent(s)'
  PROVE  EndsOnce'
<1> SUFFICES ASSUME NEW s \in Signal
             PROVE  positions'[s] <= unread'[s] + crossed'[s] + (IF Spent(s)' THEN 1 ELSE 0)
  BY DEF EndsOnce, Spent
<1>1. positions[s] \in Nat /\ unread[s] \in Nat /\ crossed[s] \in Nat
  BY DEF Types, TableTypes
<1>2. positions[s] <= unread[s] + crossed[s] + (IF Spent(s) THEN 1 ELSE 0)
  BY EndsOnceSpent
<1>3. \A f \in [Signal -> Nat] :
        Plus(f, Sent(executed))[s] = IF s = request THEN f[s] + executed ELSE f[s]
  BY SentTypes DEF Types
<1>4. positions'[s] = IF s = request THEN positions[s] + executed ELSE positions[s]
  BY <1>3 DEF Types, TableTypes
<1>5. CASE unread' = Plus(unread, Sent(executed)) /\ crossed' = crossed
  <2>1. unread'[s] = (IF s = request THEN unread[s] + executed ELSE unread[s])
        /\ crossed'[s] = crossed[s]
    BY <1>3, <1>5 DEF Types, TableTypes
  <2> QED BY <1>1, <1>2, <1>4, <2>1
<1>6. CASE crossed' = Plus(crossed, Sent(executed)) /\ unread' = unread
  <2>1. crossed'[s] = (IF s = request THEN crossed[s] + executed ELSE crossed[s])
        /\ unread'[s] = unread[s]
    BY <1>3, <1>6 DEF Types, TableTypes
  <2> QED BY <1>1, <1>2, <1>4, <2>1
<1>7. CASE /\ UNCHANGED <<unread, crossed>>
           /\ \A u \in Signal : u = request => ~Spent(u) /\ Spent(u)'
  <2>1. unread'[s] = unread[s] /\ crossed'[s] = crossed[s]
    BY <1>7
  <2> QED BY <1>1, <1>2, <1>4, <1>7, <2>1
<1> QED BY <1>5, <1>6, <1>7

LEMMA NextOrders == Types /\ Invs /\ OrdersInv /\ [Next]_vars => OrdersInv'
<1> SUFFICES ASSUME Types, Invs, OrdersInv, [Next]_vars PROVE OrdersInv'
  OBVIOUS
<1> USE Names DEF table, threads, cycle, bridge, counts, history, At, Forget
<1>0. /\ Types' /\ pc \in [Threads -> Step]
      /\ pending \subseteq Signal /\ \A s \in pending : ending[s] = "none"
      /\ left \subseteq pending
      /\ Firing => cur \in pending
      /\ ~Firing => cur = NoSignal
      /\ EndsOnce
  BY NextTypes DEF Types, ThreadTypes, TableTypes, Invs, TableInv, OrdersInv
\* A step of anybody that leaves the poll alone, or of the poll that sends nothing.
<1>1. ASSUME UNCHANGED <<orders, ending, cur, request>>, pc'["poll"] = pc["poll"]
      PROVE  OrdersInv'
  <2>1. EndsOnce'
    BY <1>0, <1>1, NothingSent DEF Spent
  <2> QED BY <1>1, <2>1 DEF OrdersInv
<1>2. ASSUME UNCHANGED orders, pc'["poll"] # "send", pc["poll"] # "pop",
             \A s \in Signal : s \in pending \/ ending'[s] = ending[s]
      PROVE  OrdersInv'
  <2>1. \A s \in Signal : Spent(s) => Spent(s)'
    BY <1>0, <1>2 DEF Spent
  <2> QED BY <1>0, <1>2, <2>1, NothingSent DEF OrdersInv
<1>3. ASSUME NEW s \in Signal,
             Begin(s) \/ Decline(s) \/ Price(s) \/ Refuse(s) \/ Create(s) \/ Insert(s)
      PROVE  OrdersInv'
  <2>1. PICK step : pc' = [pc EXCEPT ![s] = step]
    BY <1>3 DEF Begin, Decline, Price, Refuse, Judged, Create, Insert
  <2>2. pc'["poll"] = pc["poll"]
    BY <1>0, <2>1
  <2>3. UNCHANGED <<orders, ending, cur, request>>
    BY <1>3 DEF Begin, Decline, Price, Refuse, Create, Insert
  <2> QED BY <1>1, <2>2, <2>3
<1>4. ASSUME NEW t \in Threads, Read(t) PROVE OrdersInv'
  <2>1. PICK phase \in Phases, step \in UNION {{ph[3], ph[4]} : ph \in Phases} :
          /\ step \in {phase[3], phase[4]}
          /\ pc[t] \in {phase[2], phase[3]} /\ pc' = [pc EXCEPT ![t] = step]
    BY <1>4, ReadTypes DEF Types
  <2>2. UNCHANGED <<orders, ending, cur, request>>
    BY <1>4, ReadTypes DEF Types
  <2>3. t = "poll" => pc["poll"] \notin {"pop", "send"} /\ pc'["poll"] \notin {"pop", "send"}
    BY <1>0, <2>1 DEF Phases
  <2>4. t # "poll" => pc'["poll"] = pc["poll"]
    BY <1>0, <2>1
  <2> QED BY <1>1, <1>2, <2>2, <2>3, <2>4
<1>5. CASE OtherSignal \/ Clock \/ UNCHANGED vars
  BY <1>1, <1>5 DEF OtherSignal, Clock, vars
<1>6. CASE Snapshot \/ Stall \/ TakeTick \/ PollEnd \/ Afford
  <2>1. /\ UNCHANGED <<orders, ending>>
        /\ pc["poll"] # "pop"
        /\ \E step \in {"idle", "tick", "entries", "margin"} : pc' = [pc EXCEPT !["poll"] = step]
    BY <1>6 DEF Snapshot, Stall, TakeTick, PollEnd, Afford
  <2>2. pc'["poll"] # "send"
    BY <1>0, <2>1
  <2> QED BY <1>2, <2>1, <2>2
<1>7. CASE SweepHold \/ SweepDay
  <2>1. /\ UNCHANGED orders /\ pc["poll"] # "pop"
        /\ \E step \in {"boundary", "snapshot"} : pc' = [pc EXCEPT !["poll"] = step]
        /\ \A s \in Signal : s \in pending \/ ending'[s] = ending[s]
    BY <1>7 DEF SweepHold, SweepDay, Cancel
  <2>2. pc'["poll"] # "send"
    BY <1>0, <2>1
  <2> QED BY <1>2, <2>1, <2>2
<1>8. ASSUME NEW s \in Signal, Expire(s) \/ Break(s) \/ Wait(s) \/ Fire(s) PROVE OrdersInv'
  <2>1. UNCHANGED orders /\ pc["poll"] = "entries" /\ s \in pending
    BY <1>0, <1>8 DEF Expire, Break, Wait, Fire
  <2>2. \A u \in Signal : u = s \/ ending'[u] = ending[u]
    BY <1>8 DEF Expire, Break, Wait, Fire, Cancel
  <2>3. \/ pc' = pc
        \/ pc' = [pc EXCEPT !["poll"] = "account"]
    BY <1>8 DEF Expire, Break, Wait, Fire
  <2>4. pc'["poll"] # "send"
    BY <1>0, <2>1, <2>3
  <2> QED BY <1>2, <2>1, <2>2, <2>4
<1>9. CASE Unviable
  <2>1. /\ UNCHANGED orders /\ pc["poll"] \in {"judge", "order"}
        /\ pc' = [pc EXCEPT !["poll"] = "entries"]
        /\ \A s \in Signal : s = cur \/ ending'[s] = ending[s]
    BY <1>9 DEF Unviable, Cancel
  <2>2. cur \in pending
    BY <1>0, <2>1 DEF Firing
  <2>3. pc'["poll"] # "send"
    BY <1>0, <2>1
  <2> QED BY <1>2, <2>1, <2>2, <2>3
<1>10. CASE Stage
  <2>1. /\ UNCHANGED <<orders, ending, cur>> /\ pc["poll"] = "order" /\ request' = cur
        /\ pc' = [pc EXCEPT !["poll"] = "send"]
    BY <1>10 DEF Stage
  <2>2. \A s \in Signal : Spent(s) => Spent(s)'
    BY <1>0, <2>1 DEF Spent
  <2>3. EndsOnce'
    BY <1>0, <2>1, <2>2, NothingSent
  <2> QED BY <2>1, <2>3 DEF OrdersInv
<1>11. CASE Order
  <2>1. /\ positions' = Plus(positions, Sent(1)) /\ UNCHANGED <<unread, crossed, ending, cur>>
        /\ pc["poll"] = "send" /\ pc' = [pc EXCEPT !["poll"] = "pop"]
    BY <1>11 DEF Order
  <2>2. pc'["poll"] = "pop" /\ cur \in pending /\ request \in {cur, Other}
    BY <1>0, <2>1 DEF Firing, OrdersInv
  <2>3. \A s \in Signal : /\ Spent(s) => Spent(s)'
                          /\ s = request => ~Spent(s) /\ Spent(s)'
    BY <1>0, <2>1, <2>2 DEF Spent
  <2>4. EndsOnce'
    BY <1>0, <2>1, <2>3, OneSent
  <2> QED BY <2>2, <2>4 DEF OrdersInv
<1>12. CASE OrderFails
  <2>1. PICK executed \in {0, 1} : positions' = Plus(positions, Sent(executed))
    BY <1>12 DEF OrderFails
  <2>2. /\ UNCHANGED <<unread, crossed>> /\ Cancel({cur}, "order_failed")
        /\ pc["poll"] = "send" /\ pc' = [pc EXCEPT !["poll"] = "entries"]
    BY <1>12 DEF OrderFails
  <2>3. pc'["poll"] = "entries" /\ cur \in pending /\ request \in {cur, Other}
    BY <1>0, <2>2 DEF Firing, OrdersInv
  <2>4. \A s \in Signal : ending'[s] = IF s = cur THEN "order_failed" ELSE ending[s]
    BY <2>2 DEF Cancel
  <2>5. \A s \in Signal : /\ Spent(s) => Spent(s)'
                          /\ s = request => ~Spent(s) /\ Spent(s)'
    BY <1>0, <2>2, <2>3, <2>4 DEF Spent
  <2>6. EndsOnce'
    BY <1>0, <2>1, <2>2, <2>5, OneSent
  <2> QED BY <2>3, <2>6 DEF OrdersInv
<1>13. CASE ViableRaises
  <2>1. /\ UNCHANGED <<orders, ending>> /\ pc["poll"] # "pop"
        /\ pc' = [pc EXCEPT !["poll"] = "idle"]
    BY <1>13 DEF ViableRaises, PollRaises, orders
  <2>2. pc'["poll"] # "send"
    BY <1>0, <2>1
  <2> QED BY <1>2, <2>1, <2>2
<1>14. CASE OrderRaises
  <2>1. PICK executed \in {0, 1} : /\ positions' = Plus(positions, Sent(executed))
                                   /\ unread' = Plus(unread, Sent(executed))
    BY <1>14 DEF OrderRaises
  <2>2. /\ crossed' = crossed /\ ending' = ending /\ pc["poll"] = "send"
        /\ pc' = [pc EXCEPT !["poll"] = "idle"]
    BY <1>14 DEF OrderRaises, PollRaises
  <2>3. pc'["poll"] = "idle" /\ \A s \in Signal : Spent(s) => Spent(s)'
    BY <1>0, <2>2 DEF Spent
  <2>4. EndsOnce'
    BY <1>0, <2>1, <2>2, <2>3, OneSent
  <2> QED BY <2>3, <2>4 DEF OrdersInv
<1>15. CASE Pop
  <2>1. /\ UNCHANGED orders /\ Cancel({cur}, "filled")
        /\ pc["poll"] = "pop" /\ pc' = [pc EXCEPT !["poll"] = "entries"]
    BY <1>15 DEF Pop, orders
  <2>2. pc'["poll"] = "entries" /\ cur \in pending
    BY <1>0, <2>1 DEF Firing
  <2>3. \A s \in Signal : ending'[s] = IF s = cur THEN "filled" ELSE ending[s]
    BY <2>1 DEF Cancel
  <2>4. \A s \in Signal : Spent(s) => Spent(s)'
    BY <2>3 DEF Spent
  <2>5. EndsOnce'
    BY <1>0, <2>1, <2>4, NothingSent
  <2> QED BY <2>2, <2>5 DEF OrdersInv
<1>16. CASE OtherStages
  <2>1. UNCHANGED <<orders, ending, cur, pc>> /\ request' = Other
    BY <1>16 DEF OtherStages
  <2>2. EndsOnce'
    BY <1>0, <2>1, NothingSent DEF Spent
  <2> QED BY <2>1, <2>2 DEF OrdersInv
<1>17. CASE OtherSends
  <2>1. PICK executed \in {0, 1} : /\ positions' = Plus(positions, Sent(executed))
                                   /\ crossed' = Plus(crossed, Sent(executed))
    BY <1>17 DEF OtherSends
  <2>2. UNCHANGED <<unread, ending, cur, pc, request>>
    BY <1>17 DEF OtherSends
  <2>3. EndsOnce'
    BY <1>0, <2>1, <2>2, OneSent DEF Spent
  <2> QED BY <2>2, <2>3 DEF OrdersInv
<1>18. CASE Restart
  <2>1. /\ UNCHANGED orders /\ pc'["poll"] = "idle"
        /\ \A s \in Signal : ending'[s] = IF s \in pending THEN "lost" ELSE ending[s]
    BY <1>18 DEF Restart, orders
  <2>2. pc["poll"] = "pop" => cur \in pending
    BY <1>0 DEF Firing
  <2>3. \A s \in Signal : Spent(s) => Spent(s)'
    BY <2>1, <2>2 DEF Spent
  <2>4. EndsOnce'
    BY <1>0, <2>1, <2>3, NothingSent
  <2> QED BY <2>1, <2>4 DEF OrdersInv
<1> QED BY <1>3, <1>4, <1>5, <1>6, <1>7, <1>8, <1>9, <1>10, <1>11, <1>12, <1>13, <1>14, <1>15,
  <1>16, <1>17, <1>18 DEF Next, Process, Poll

-----------------------------------------------------------------------------
(* The theorems.                                                            *)

LEMMA Invariant == Spec => [](Types /\ Invs /\ OrdersInv)
<1>1. Init => Types /\ Invs /\ OrdersInv
  <2>1. Init => OrdersInv
    BY Names DEF Init, OrdersInv, EndsOnce
  <2> QED BY <2>1, InitTypes, InitInvs DEF Types
<1>2. Types /\ Invs /\ OrdersInv /\ [Next]_vars => Types' /\ Invs' /\ OrdersInv'
  BY NextTypes, NextInvs, NextOrders DEF Types
<1> QED BY <1>1, <1>2, PTL DEF Spec

\* Every variable keeps its type, and the entry the poll fires is one it found armed
\* and nobody has taken away.
THEOREM TypeCorrect == Spec => []TypeOK
<1>1. Types /\ Invs => TypeOK
  BY DEF Types, TableTypes, ThreadTypes, Invs, TableInv, TypeOK
<1> QED BY <1>1, Invariant, PTL

\* However often the bridge is shared, a result cannot be read and the process dies, an
\* entry becomes at most one position besides those whose result could not be read and
\* those another thread sent; one that was swept or found not viable has no other.
THEOREM EndsOnlyOnce == Spec => []EndsOnce
<1>1. OrdersInv => EndsOnce
  BY DEF OrdersInv
<1> QED BY <1>1, Invariant, PTL

\* For any levels and any ticks, an entry is fired only as its thesis has it: price
\* came near the level, did not break it, and is back on the right side of it.
THEOREM ThesisFollowed == Spec => []FillsFollowTheThesis
<1>1. Invs => FillsFollowTheThesis
  BY DEF Invs, ThesisInv
<1> QED BY <1>1, Invariant, PTL
=============================================================================
