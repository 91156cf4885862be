--------------------------- MODULE LifecycleProofs ---------------------------
(***************************************************************************)
(* Theorems about Lifecycle, for any signals and bounds.                    *)
(*                                                                          *)
(* The invariant has three parts: what each variable is, who is counted     *)
(* where (Accounts), and which record a step, a row or an update means      *)
(* (Records).                                                               *)
(***************************************************************************)
EXTENDS Lifecycle, SequenceTheorems, TLAPS

HandSteps == {"idle", "submit", "settle", "note", "append"}
TickSteps == {"idle", "next", "outcome", "drop", "consult", "ask", "mark", "status", "save"}

ChainRecord == [signal : Signal, status : {"Active", "Superseded"}]
TickType == [at : TickSteps, signal : Signal \union {NoOne}, record : 0..MaxRecords,
             todo : SUBSET Signal, late : SUBSET Signal, dirty : BOOLEAN]

Types ==
  /\ pc \in [Signal -> Steps] /\ fill \in [Signal -> FillSteps]
  /\ owed \in SUBSET Item /\ settled \in SUBSET owed /\ copies \in [Item -> Nat]
  /\ chain \in Seq(ChainRecord)
  /\ Len(chain) <= MaxRecords
  /\ hand \in [at : HandSteps, item : Item \union {NoOne}, record : 0..MaxRecords]
  /\ index \in [Signal -> Rows] /\ indexFile \in [Signal -> Rows]
  /\ measuring \in SUBSET Signal /\ saved \in SUBSET Signal
  /\ outcomes \in [Signal -> Nat]
  /\ tick \in TickType
  /\ restarts \in Nat
  /\ registered \in SUBSET Signal /\ spoken \in SUBSET Signal

\* Whose outcome, or loss, or abandonment, is known.
Accounted == abandoned \union torn \union {s \in Signal : outcomes[s] > 0}

Accounts ==
  /\ registered \subseteq saved \union Accounted
  /\ registered \subseteq measuring \union Accounted
  /\ measuring \union saved \subseteq registered
  /\ \A s \in Signal : outcomes[s] > 0 => s \in registered
  /\ \A s \in Signal : pc[s] \in {"new", "execute", "route", "register"} => s \notin registered
  /\ \A s \in Signal : outcomes[s] <= 1 + restarts
  /\ \A s \in measuring : outcomes[s] <= restarts \/ (tick.at = "drop" /\ s = tick.signal)
  /\ tick.todo \subseteq measuring
  /\ tick.at \in {"outcome", "drop"} =>
       tick.signal \in measuring /\ tick.signal \notin tick.todo
  /\ tick.at = "drop" => outcomes[tick.signal] > 0

\* Record r is one of signal s.
Owns(s, r) == r \in DOMAIN chain /\ chain[r].signal = s

\* A status may reach the file before the row it is about.
Honest(s, row) == Owns(s, row.record) \/ (row.record = 0 /\ row.status # "Active")

Records ==
  /\ \A s \in Signal, r \in 1..MaxRecords :
       Update(s, r) \in owed => Owns(s, r) /\ s \in spoken
  /\ \A r \in DOMAIN chain : chain[r].status = "Superseded" => chain[r].signal \in spoken
  /\ hand.at # "idle" => hand.item \in owed
  /\ hand.at \in {"settle", "note", "append"} => Owns(hand.item.signal, hand.record)
  /\ \A s \in Signal : Honest(s, index[s]) /\ Honest(s, indexFile[s])
  /\ IndexIsEarned
  /\ tick.at \in {"drop", "consult", "ask", "mark", "status"} => tick.signal \in spoken
  /\ tick.at \in {"ask", "mark", "status"} => Owns(tick.signal, tick.record)
  /\ tick.at \in {"mark", "status"} => Update(tick.signal, tick.record) \in owed

Inv == Types /\ Accounts /\ Records

-----------------------------------------------------------------------------
(* What each variable is.                                                   *)

LEMMA ItemsAre ==
  /\ \A s \in Signal : Add(s) \in Item
  /\ \A s \in Signal, r \in 1..MaxRecords : Update(s, r) \in Item
  /\ \A item \in Item : item.signal \in Signal /\ item.op \in {"add", "update"}
  /\ \A item \in Item : item.op = "add" => item = Add(item.signal)
  /\ \A item \in Item :
       item.op = "update" => /\ item.record \in 1..MaxRecords
                             /\ item = Update(item.signal, item.record)
<1>1. /\ \A s \in Signal : Add(s) \in Item
      /\ \A s \in Signal, r \in 1..MaxRecords : Update(s, r) \in Item
  BY DEF Item
<1>2. ASSUME NEW item \in Item
      PROVE  /\ item.signal \in Signal /\ item.op \in {"add", "update"}
             /\ item.op = "add" => item = Add(item.signal)
             /\ item.op = "update" => /\ item.record \in 1..MaxRecords
                                      /\ item = Update(item.signal, item.record)
  <2>1. CASE \E s \in Signal : item = Add(s)
    BY <2>1 DEF Add
  <2>2. CASE \E s \in Signal, r \in 1..MaxRecords : item = Update(s, r)
    BY <2>2 DEF Update
  <2>. QED BY <2>1, <2>2 DEF Item
<1>. QED BY <1>1, <1>2

LEMMA MaxRecordsType == MaxRecords \in Nat
BY LifecycleAssumption

LEMMA RestingType == Resting \in TickType
BY MaxRecordsType DEF Resting, TickType, TickSteps

LEMMA TypesInit == Init => Types
<1>. SUFFICES ASSUME Init PROVE Types
  OBVIOUS
<1>1. pc \in [Signal -> Steps] /\ fill \in [Signal -> FillSteps]
  BY DEF Init, Steps, FillSteps
<1>2. owed \in SUBSET Item /\ settled \in SUBSET owed /\ copies \in [Item -> Nat]
  BY DEF Init, Promised!Init
<1>3. /\ chain \in Seq(ChainRecord)
      /\ Len(chain) <= MaxRecords
  BY MaxRecordsType DEF Init
<1>4. /\ hand \in [at : HandSteps, item : Item \union {NoOne}, record : 0..MaxRecords]
      /\ index \in [Signal -> Rows] /\ indexFile \in [Signal -> Rows]
  BY MaxRecordsType DEF Init, EmptyHanded, HandSteps, NoRow, Rows, Statuses
<1>5. tick \in TickType
  BY RestingType DEF Init
<1>6. /\ measuring \in SUBSET Signal /\ saved \in SUBSET Signal
      /\ outcomes \in [Signal -> Nat] /\ restarts \in Nat
      /\ registered \in SUBSET Signal /\ spoken \in SUBSET Signal
  BY DEF Init
<1>. QED BY <1>1, <1>2, <1>3, <1>4, <1>5, <1>6 DEF Types

Landed == Append(chain, [signal |-> hand.item.signal, status |-> "Active"])
Updated == [chain EXCEPT ![hand.item.record] = [signal |-> @.signal, status |-> "Superseded"]]

\* The chain's answer: a record more, or another status of one it has.
LEMMA LandsType ==
  ASSUME Types, Lands(hand.item)
  PROVE  /\ hand.item \in owed /\ hand.item \in Item
         /\ chain' \in Seq(ChainRecord)
         /\ Len(chain') \in 0..MaxRecords
         /\ copies' \in [Item -> Nat] /\ UNCHANGED <<owed, settled>>
         /\ hand.item.op = "add" => chain' = Landed
         /\ hand.item.op # "add" => chain' = Updated
<1> USE DEF Landed, Updated
<1>1. hand.item \in owed /\ hand.item \in Item
  BY DEF Lands, Promised!Submit, Types
<1>2. copies' \in [Item -> Nat] /\ UNCHANGED <<owed, settled>>
  BY <1>1 DEF Lands, Promised!Submit, Types
<1>3. /\ hand.item.op = "add" => chain' = Landed
      /\ hand.item.op # "add" => chain' = Updated
  BY DEF Lands
<1>6. Len(chain') <= MaxRecords
  BY DEF Lands
<1>4. CASE hand.item.op = "add"
  <2>1. [signal |-> hand.item.signal, status |-> "Active"] \in ChainRecord
    BY <1>1, ItemsAre DEF ChainRecord
  <2>2. chain' \in Seq(ChainRecord)
    <3>1. chain \in Seq(ChainRecord)
      BY DEF Types
    <3>2. chain' = Landed
      BY <1>3, <1>4
    <3>. QED BY <2>1, <3>1, <3>2, AppendProperties
  <2>3. Len(chain') \in 0..MaxRecords
    BY <2>2, <1>6, MaxRecordsType
  <2>. QED BY <1>1, <1>2, <1>3, <2>2, <2>3
<1>5. CASE hand.item.op # "add"
  <2>1. \A r \in 1..Len(chain) :
          [signal |-> chain[r].signal, status |-> "Superseded"] \in ChainRecord
    <3>. TAKE r \in 1..Len(chain)
    <3>1. chain[r] \in ChainRecord
      BY ElementOfSeq DEF Types
    <3>. QED BY <3>1 DEF ChainRecord
  <2>2. chain' \in Seq(ChainRecord)
    <3>1. chain \in Seq(ChainRecord)
      BY DEF Types
    <3>2. CASE hand.item.record \in 1..Len(chain)
      <4>1. [signal |-> chain[hand.item.record].signal, status |-> "Superseded"] \in ChainRecord
        BY <2>1, <3>1, <3>2
      <4>2. [chain EXCEPT ![hand.item.record] =
               [signal |-> chain[hand.item.record].signal, status |-> "Superseded"]] \in Seq(ChainRecord)
        BY <3>1, <3>2, <4>1, ExceptSeq
      <4>. QED BY <1>3, <1>5, <4>2
    <3>3. CASE hand.item.record \notin 1..Len(chain)
      <4>1. chain' = chain
        BY <1>3, <1>5, <3>1, <3>3
      <4>. QED BY <3>1, <4>1
    <3>. QED BY <3>2, <3>3
  <2>3. Len(chain') \in 0..MaxRecords
    BY <2>2, <1>6, MaxRecordsType
  <2>. QED BY <1>1, <1>2, <1>3, <2>2, <2>3
<1>. QED BY <1>4, <1>5

LEMMA ResolvedType ==
  ASSUME tick \in TickType, Resolved PROVE tick' \in TickType
<1>1. tick' = [at |-> "next", signal |-> NoOne, record |-> 0, todo |-> tick.todo,
               late |-> tick.late, dirty |-> TRUE]
  BY DEF Resolved, TickType
<1>2. tick.todo \in SUBSET Signal /\ tick.late \in SUBSET Signal
  BY DEF TickType
<1>. QED BY <1>1, <1>2, MaxRecordsType DEF TickType, TickSteps

LEMMA TypesStep == Inv /\ [Next]_vars => Types'
<1>. SUFFICES ASSUME Inv, [Next]_vars PROVE Types'
  OBVIOUS
<1>. USE DEF Inv
<1> DEFINE EngineTypes == /\ pc \in [Signal -> Steps] /\ fill \in [Signal -> FillSteps]
           OutboxTypes == /\ owed \in SUBSET Item /\ settled \in SUBSET owed
                          /\ copies \in [Item -> Nat]
           ChainTypes ==
             /\ chain \in Seq(ChainRecord)
             /\ Len(chain) <= MaxRecords
           HandTypes ==
             hand \in [at : HandSteps, item : Item \union {NoOne}, record : 0..MaxRecords]
           BookTypes == index \in [Signal -> Rows] /\ indexFile \in [Signal -> Rows]
           ResolverTypes ==
             /\ measuring \in SUBSET Signal /\ saved \in SUBSET Signal
             /\ outcomes \in [Signal -> Nat]
             /\ tick \in TickType
           HistoryTypes ==
             /\ restarts \in Nat /\ registered \in SUBSET Signal /\ spoken \in SUBSET Signal
<1>1a. EngineTypes
  BY DEF Types
<1>1b. OutboxTypes
  BY DEF Types
<1>1c. ChainTypes
  BY DEF Types
<1>1d. HandTypes
  BY DEF Types
<1>1e. BookTypes
  BY DEF Types
<1>1f. ResolverTypes
  BY DEF Types
<1>1g. HistoryTypes
  BY DEF Types
<1>2. EngineTypes' /\ OutboxTypes' /\ ChainTypes' /\ HandTypes' /\ BookTypes'
        /\ ResolverTypes' /\ HistoryTypes' => Types'
  BY DEF Types
<1>3. ASSUME NEW s \in Signal, Decision(s) PROVE Types'
  <2>1. UNCHANGED <<chain, hand, books, tick, outcomes, restarts, spoken>>
    BY <1>3 DEF Decision, Judge, Route, Execute, ExecuteRaises, Register, Publish,
                EnqueueDossier, WatcherFill, resolver, history, engine
  <2>2. ChainTypes' /\ HandTypes' /\ BookTypes'
    BY <1>1c, <1>1d, <1>1e, <2>1 DEF books
  <2>3. EngineTypes'
    <3>1. CASE Judge(s) \/ ExecuteRaises(s) \/ Execute(s) \/ Register(s)
      BY <1>1a, <3>1 DEF Judge, Execute, ExecuteRaises, Register, At, Steps, FillSteps
    <3>2. CASE Route(s) \/ WatcherFill(s)
      BY <1>1a, <3>2 DEF Route, WatcherFill, At, Steps, FillSteps
    <3>3. CASE Publish(s)
      BY <1>1a, <3>3 DEF Publish, At, Steps, FillSteps
    <3>4. CASE EnqueueDossier(s)
      BY <1>1a, <3>4 DEF EnqueueDossier, At, Steps, FillSteps
    <3>. QED BY <1>3, <3>1, <3>2, <3>3, <3>4 DEF Decision
  <2>4. OutboxTypes'
    <3>1. CASE EnqueueDossier(s)
      BY <1>1b, <3>1, ItemsAre DEF EnqueueDossier, Ask, Promised!TakeOn, outbox
    <3>2. CASE UNCHANGED outbox
      BY <1>1b, <3>2 DEF outbox
    <3>. QED BY <1>3, <3>1, <3>2 DEF Decision, Judge, Route, Execute, ExecuteRaises,
                Register, Publish, WatcherFill, outbox
  <2>5. ResolverTypes' /\ HistoryTypes'
    BY <1>1f, <1>1g, <1>3, <2>1 DEF Decision, Judge, Route, Execute, ExecuteRaises, Register,
                Publish, EnqueueDossier, WatcherFill, resolver, history
  <2>. QED BY <1>2, <2>2, <2>3, <2>4, <2>5
<1>4. ASSUME NEW s \in Signal, Time(s) PROVE Types'
  BY <1>1a, <1>1b, <1>1c, <1>1d, <1>1e, <1>1f, <1>1g, <1>2, <1>4
  DEF Time, engine, outbox, books, resolver, history
<1>5. CASE Drain
  <2>1. UNCHANGED <<engine, resolver, restarts, history>>
    BY <1>5 DEF Drain, DrainTake, Submit, SubmitFails, Settle, Note, AppendRow
  <2>2. EngineTypes' /\ ResolverTypes' /\ HistoryTypes'
    BY <1>1a, <1>1f, <1>1g, <2>1 DEF engine, resolver, history
  <2>3. ASSUME NEW item \in owed, DrainTake(item) PROVE Types'
    BY <1>1b, <1>1c, <1>1d, <1>1e, <1>2, <2>2, <2>3, MaxRecordsType
    DEF DrainTake, HandSteps, outbox, books
  <2>4. CASE Submit
    <3>1. Lands(hand.item)
      BY <2>4 DEF Submit
    <3>6. Types
      OBVIOUS
    <3>2. /\ hand.item \in Item /\ ChainTypes' /\ Len(chain') \in 0..MaxRecords
          /\ copies' \in [Item -> Nat] /\ UNCHANGED <<owed, settled>>
      <4> HIDE DEF Inv
      <4>. QED BY <3>1, <3>6, LandsType, MaxRecordsType
    <3>3. OutboxTypes'
      BY <1>1b, <3>2
    <3>4. HandTypes'
      <4>1. hand.item.op # "add" => hand.item.record \in 0..MaxRecords
        BY <3>2, ItemsAre, MaxRecordsType
      <4> DEFINE r == IF hand.item.op = "add" THEN Len(chain') ELSE hand.item.record
      <4>2. r \in 0..MaxRecords /\ hand' = [hand EXCEPT !.at = "settle", !.record = r]
        BY <2>4, <3>2, <4>1 DEF Submit
      <4> HIDE DEF r
      <4>. QED BY <1>1d, <4>2 DEF HandSteps
    <3>5. BookTypes'
      BY <1>1e, <2>4 DEF Submit, books
    <3>. QED BY <1>2, <2>2, <3>2, <3>3, <3>4, <3>5
  <2>5. CASE SubmitFails
    <3>1. ChainTypes' /\ OutboxTypes'
      <4>1. CASE Lands(hand.item)
        <5>1. /\ ChainTypes'
              /\ copies' \in [Item -> Nat] /\ UNCHANGED <<owed, settled>>
          BY <4>1, LandsType, MaxRecordsType
        <5>. QED BY <1>1b, <5>1
      <4>2. CASE UNCHANGED <<outbox, chain>>
        BY <1>1b, <1>1c, <4>2 DEF outbox
      <4>. QED BY <2>5, <4>1, <4>2 DEF SubmitFails
    <3>2. HandTypes' /\ BookTypes'
      BY <1>1d, <1>1e, <2>5, MaxRecordsType DEF SubmitFails, HandSteps, EmptyHanded, books
    <3>. QED BY <1>2, <2>2, <3>1, <3>2
  <2>6. CASE Settle
    BY <1>1b, <1>1c, <1>1d, <1>1e, <1>2, <2>2, <2>6
    DEF Settle, HandAt, HandSteps, Promised!Settle, books
  <2>7. ASSUME hand.at # "idle" PROVE hand.item.signal \in Signal /\ Row \in Rows
    BY <1>1b, <1>1d, <2>7, ItemsAre DEF Records, Row, Rows, Statuses
  <2>8. CASE Note
    BY <1>1b, <1>1c, <1>1d, <1>1e, <1>2, <2>2, <2>7, <2>8 DEF Note, HandAt, HandSteps, outbox
  <2>9. CASE AppendRow
    BY <1>1b, <1>1c, <1>1d, <1>1e, <1>2, <2>2, <2>7, <2>9, MaxRecordsType
    DEF AppendRow, EmptyHanded, HandSteps, outbox
  <2>. QED BY <1>5, <2>3, <2>4, <2>5, <2>6, <2>8, <2>9 DEF Drain
<1>6. CASE Tick
  <2>1. UNCHANGED <<engine, chain, hand, restarts>>
    BY <1>6 DEF Tick, TickBegin, AppendOutcome, Drop, Consult, AskUpdate,
                AskRaises, Mark, AppendStatus,
                TickEnd, Save, GiveUp, Stall, Classify
  <2>2. EngineTypes' /\ ChainTypes' /\ HandTypes'
    BY <1>1a, <1>1c, <1>1d, <2>1 DEF engine
  <2>3. ASSUME UNCHANGED outbox PROVE OutboxTypes'
    BY <1>1b, <2>3 DEF outbox
  <2>4. ASSUME UNCHANGED books PROVE BookTypes'
    BY <1>1e, <2>4 DEF books
  <2>5. ASSUME UNCHANGED <<registered, spoken>> PROVE HistoryTypes'
    BY <1>1g, <2>1, <2>5
  <2>6. CASE TickBegin
    <3>1. ResolverTypes'
      BY <1>1f, <2>6, RestingType DEF TickBegin, TickType, TickSteps
    <3>. QED BY <1>2, <2>2, <2>3, <2>4, <2>5, <2>6, <3>1 DEF TickBegin, history
  <2>7. ASSUME NEW s \in Signal, GiveUp(s) \/ Stall(s) \/ Classify(s) PROVE Types'
    <3>1. OutboxTypes' /\ BookTypes' /\ HistoryTypes'
      BY <1>1g, <2>1, <2>3, <2>4, <2>7 DEF GiveUp, Stall, Classify, history
    <3>2. ResolverTypes'
      BY <1>1f, <2>7 DEF GiveUp, Stall, Classify, TickType, TickSteps
    <3>. QED BY <1>2, <2>2, <3>1, <3>2
  <2>8. CASE AppendOutcome
    <3>1. tick.signal \in Signal
      <4>1. tick.signal \in measuring
        BY <2>8 DEF AppendOutcome, TickAt, Accounts
      <4>. QED BY <1>1f, <4>1
    <3>2. ResolverTypes' /\ HistoryTypes'
      BY <1>1f, <1>1g, <2>1, <2>8, <3>1 DEF AppendOutcome, TickAt, TickType, TickSteps
    <3>. QED BY <1>2, <2>2, <2>3, <2>4, <2>8, <3>2 DEF AppendOutcome
  <2>9. CASE Drop
    BY <1>1f, <1>2, <2>2, <2>3, <2>4, <2>5, <2>9
    DEF Drop, TickAt, TickType, TickSteps, history
  <2>10. CASE Consult
    <3>1. index[tick.signal].record \in 0..MaxRecords
      <4>1. tick.signal \in Signal
        BY <1>1g, <2>10 DEF Consult, Records
      <4>. QED BY <1>1e, <4>1 DEF Rows
    <3>2. ResolverTypes'
      <4>1. CASE tick' = [tick EXCEPT !.at = "ask", !.record = index[tick.signal].record]
        BY <1>1f, <2>10, <3>1, <4>1 DEF Consult, TickType, TickSteps
      <4>2. CASE Resolved
        BY <1>1f, <2>10, <4>2, ResolvedType DEF Consult
      <4>. QED BY <2>10, <4>1, <4>2 DEF Consult
    <3>. QED BY <1>2, <2>2, <2>3, <2>4, <2>5, <2>10, <3>2 DEF Consult
  <2>11. CASE AskUpdate
    <3>1. Update(tick.signal, tick.record) \in Item
      BY <1>1c, <1>1g, <2>11, ItemsAre, MaxRecordsType DEF AskUpdate, TickAt, Records, Owns
    <3>2. OutboxTypes'
      BY <1>1b, <2>11, <3>1 DEF AskUpdate, Ask, Promised!TakeOn, outbox
    <3>3. ResolverTypes'
      BY <1>1f, <2>11 DEF AskUpdate, TickAt, TickType, TickSteps
    <3>. QED BY <1>2, <2>2, <2>4, <2>5, <2>11, <3>2, <3>3 DEF AskUpdate, history
  <2>12. CASE Mark \/ AppendStatus
    <3>1. \A s \in Signal : /\ Overtaken(index[s]) \in Rows
                            /\ Overtaken(indexFile[s]) \in Rows
      BY <1>1e DEF Overtaken, Rows, Statuses
    <3>2. BookTypes'
      BY <1>1e, <2>12, <3>1 DEF Mark, AppendStatus
    <3>3. ResolverTypes'
      <4>1. CASE Mark
        BY <1>1f, <4>1 DEF Mark, TickAt, TickType, TickSteps
      <4>2. CASE AppendStatus
        BY <1>1f, <4>2, ResolvedType DEF AppendStatus
      <4>. QED BY <2>12, <4>1, <4>2
    <3>. QED BY <1>2, <2>2, <2>3, <2>5, <2>12, <3>2, <3>3 DEF Mark, AppendStatus, history
  <2>13. CASE TickEnd \/ Save
    <3>1. ResolverTypes'
      BY <1>1f, <2>13, RestingType DEF TickEnd, Save, TickType, TickSteps
    <3>. QED BY <1>2, <2>2, <2>3, <2>4, <2>5, <2>13, <3>1 DEF TickEnd, Save, history
  <2>14. CASE AskRaises
    <3>1. ResolverTypes'
      BY <1>1f, <2>14, ResolvedType DEF AskRaises
    <3>. QED BY <1>2, <2>2, <2>3, <2>4, <2>5, <2>14, <3>1 DEF AskRaises
  <2>. QED BY <1>6, <2>6, <2>7, <2>8, <2>9, <2>10, <2>11, <2>12, <2>13, <2>14 DEF Tick
<1>7. CASE OtherRegisters
  BY <1>1a, <1>1b, <1>1c, <1>1d, <1>1e, <1>1f, <1>1g, <1>2, <1>7
  DEF OtherRegisters, engine, outbox, books, history
<1>8. CASE Restart
  <2>1. EngineTypes' /\ OutboxTypes' /\ ChainTypes' /\ HistoryTypes'
    BY <1>1a, <1>1b, <1>1c, <1>1f, <1>1g, <1>8 DEF Restart, Steps, FillSteps, outbox
  <2>2. HandTypes' /\ BookTypes'
    BY <1>1e, <1>8, MaxRecordsType DEF Restart, EmptyHanded, HandSteps
  <2>3. tick' = Resting /\ measuring' = saved' /\ saved' \in SUBSET Signal
        /\ outcomes' \in [Signal -> Nat]
    BY <1>1f, <1>8 DEF Restart
  <2>4. ResolverTypes'
    BY <2>3, RestingType
  <2>. QED BY <1>2, <2>1, <2>2, <2>4
<1>9. CASE UNCHANGED vars
  BY <1>1a, <1>1b, <1>1c, <1>1d, <1>1e, <1>1f, <1>1g, <1>2, <1>9
  DEF vars, engine, outbox, books, resolver, history
<1>. QED BY <1>3, <1>4, <1>5, <1>6, <1>7, <1>8, <1>9 DEF Next

-----------------------------------------------------------------------------
(* Who is counted where.                                                    *)

Early == {"new", "execute", "route", "register"}

LEMMA AccountsInit == Init => Accounts
BY DEF Init, Accounts, Accounted, Resting

\* What no step of the resolver, register or a restart disturbs.
LEMMA AccountsKept ==
  ASSUME Accounts, UNCHANGED <<resolver, restarts, registered, abandoned, torn>>,
         \A s \in Signal : pc'[s] \in Early => pc[s] \in Early
  PROVE  Accounts'
BY DEF Accounts, Accounted, Early, resolver

LEMMA AccountsStep == Inv /\ [Next]_vars => Accounts'
<1>. SUFFICES ASSUME Inv, [Next]_vars PROVE Accounts'
  OBVIOUS
<1>1. Accounts /\ pc \in [Signal -> Steps] /\ outcomes \in [Signal -> Nat] /\ restarts \in Nat
      /\ tick \in TickType /\ measuring \in SUBSET Signal
  BY DEF Inv, Types
<1>2. ASSUME NEW s \in Signal, Decision(s) PROVE Accounts'
  <2>1. CASE Register(s)
    <3>1. s \notin registered /\ outcomes[s] = 0
      BY <1>1, <2>1 DEF Register, At, Accounts
    <3>2. \A t \in Signal : pc'[t] \in Early => pc[t] \in Early /\ t # s
      BY <1>1, <2>1 DEF Register, At, Early
    <3>3. UNCHANGED <<outcomes, tick, restarts, spoken, abandoned, torn>>
      BY <2>1 DEF Register
    <3>4. CASE UNCHANGED <<measuring, saved, registered>>
      BY <1>1, <3>2, <3>3, <3>4, AccountsKept DEF resolver
    <3>5. CASE /\ measuring' = measuring \union {s} /\ saved' = measuring'
               /\ registered' = registered \union {s}
      BY <1>1, <3>1, <3>2, <3>3, <3>5 DEF Accounts, Accounted, Early
    <3>. QED BY <2>1, <3>4, <3>5 DEF Register
  <2>2. CASE ~Register(s)
    <3>1. UNCHANGED <<resolver, restarts, history>>
      BY <1>2, <2>2 DEF Decision, Judge, Route, Execute, ExecuteRaises, Publish,
                        EnqueueDossier, WatcherFill
    <3>2. \A t \in Signal : pc'[t] \in Early => pc[t] \in Early
      BY <1>1, <1>2, <2>2 DEF Decision, Judge, Route, Execute, ExecuteRaises, Publish,
                        EnqueueDossier, WatcherFill, At, Early
    <3>. QED BY <1>1, <3>1, <3>2, AccountsKept DEF history
  <2>. QED BY <2>1, <2>2
<1>3. CASE Drain \/ UNCHANGED vars \/ \E s \in Signal : Time(s)
  <2>1. UNCHANGED <<pc, resolver, restarts, history>>
    BY <1>3 DEF Drain, DrainTake, Submit, SubmitFails, Settle, Note, AppendRow, Time, vars,
                engine
  <2>. QED BY <1>1, <2>1, AccountsKept DEF history
<1>4. CASE Tick
  <2>1. UNCHANGED <<pc, restarts, registered, torn>>
    BY <1>4 DEF Tick, TickBegin, AppendOutcome, Drop, Consult, AskUpdate,
                AskRaises, Mark, AppendStatus,
                TickEnd, Save, GiveUp, Stall, Classify, engine, history
  <2>2. ASSUME UNCHANGED <<measuring, saved, outcomes, abandoned>>, tick.at # "drop",
               tick'.todo \subseteq measuring, tick'.at \notin {"outcome", "drop"}
        PROVE  Accounts'
    BY <1>1, <2>1, <2>2 DEF Accounts, Accounted
  <2>3. CASE TickBegin
    <3>1. tick'.todo \subseteq measuring /\ tick'.at = "next"
      BY <2>3 DEF TickBegin, Resting
    <3>. QED BY <2>2, <2>3, <3>1 DEF TickBegin, history
  <2>4. ASSUME NEW s \in Signal, GiveUp(s) PROVE Accounts'
    <3>1. tick.at = "next" /\ tick'.at = "next" /\ tick'.todo = tick.todo \ {s}
      BY <1>1, <2>4 DEF GiveUp, TickType
    <3>2. Accounted' = Accounted \union {s}
      BY <2>1, <2>4 DEF GiveUp, Accounted
    <3>. QED BY <1>1, <2>1, <2>4, <3>1, <3>2 DEF Accounts, GiveUp
  <2>5. ASSUME NEW s \in Signal, Stall(s) PROVE Accounts'
    <3>1. tick.at = "next" /\ tick'.at = "next" /\ tick'.todo \subseteq measuring
      BY <1>1, <2>5 DEF Stall, TickType, Accounts
    <3>. QED BY <2>2, <2>5, <3>1 DEF Stall, history
  <2>6. ASSUME NEW s \in Signal, Classify(s) PROVE Accounts'
    <3>1. /\ tick.at = "next" /\ tick'.at = "outcome" /\ tick'.signal = s
          /\ tick'.todo = tick.todo \ {s} /\ s \in tick.todo
      BY <1>1, <2>6 DEF Classify, TickType
    <3>2. UNCHANGED <<measuring, saved, outcomes, abandoned>>
      BY <2>6 DEF Classify, history
    <3>. QED BY <1>1, <2>1, <3>1, <3>2 DEF Accounts, Accounted
  <2>7. CASE AppendOutcome
    <3>1. /\ tick.at = "outcome" /\ tick'.at = "drop"
          /\ tick'.signal = tick.signal /\ tick'.todo = tick.todo
      BY <1>1, <2>7 DEF AppendOutcome, TickAt, TickType
    <3>2. tick.signal \in Signal /\ tick.signal \in measuring /\ tick.signal \in registered
      BY <1>1, <3>1 DEF Accounts
    <3>3. /\ \A s \in Signal : s # tick.signal => outcomes'[s] = outcomes[s]
          /\ outcomes'[tick.signal] = outcomes[tick.signal] + 1
          /\ UNCHANGED <<measuring, saved, abandoned>>
      BY <1>1, <2>7, <3>2 DEF AppendOutcome
    <3>4. Accounted \subseteq Accounted'
      BY <1>1, <2>1, <3>3 DEF Accounted
    <3>5. outcomes[tick.signal] <= restarts
      BY <1>1, <3>1, <3>2 DEF Accounts
    <3>. QED BY <1>1, <2>1, <3>1, <3>2, <3>3, <3>4, <3>5 DEF Accounts
  <2>8. CASE Drop
    <3>1. /\ tick.at = "drop" /\ tick'.at = "consult"
          /\ tick'.signal = tick.signal /\ tick'.todo = tick.todo
      BY <1>1, <2>8 DEF Drop, TickAt, TickType
    <3>2. measuring' = measuring \ {tick.signal} /\ UNCHANGED <<saved, outcomes, abandoned>>
      BY <2>8 DEF Drop, history
    <3>3. tick.signal \in Accounted /\ Accounted' = Accounted
      BY <1>1, <2>1, <3>1, <3>2 DEF Accounts, Accounted
    <3>. QED BY <1>1, <2>1, <3>1, <3>2, <3>3 DEF Accounts
  <2>9. CASE Consult \/ AskUpdate \/ AskRaises \/ Mark \/ AppendStatus \/ TickEnd
    <3>1. /\ tick.at # "drop" /\ tick'.at \notin {"outcome", "drop"}
          /\ tick'.todo \subseteq measuring
      <4>1. tick.todo \subseteq measuring
        BY <1>1 DEF Accounts
      <4>2. CASE AskUpdate \/ Mark
        BY <1>1, <4>1, <4>2 DEF AskUpdate, AskRaises, Mark, TickAt, TickType
      <4>3. CASE Consult
        BY <1>1, <4>1, <4>3 DEF Consult, Resolved, TickType
      <4>4. CASE AppendStatus \/ AskRaises
        BY <1>1, <4>1, <4>4 DEF AppendStatus, AskRaises, Resolved, TickType
      <4>5. CASE TickEnd
        BY <1>1, <4>1, <4>5 DEF TickEnd, Resting, TickType
      <4>. QED BY <2>9, <4>2, <4>3, <4>4, <4>5
    <3>. QED BY <2>2, <2>9, <3>1
         DEF Consult, AskUpdate, AskRaises, Mark, AppendStatus, TickEnd, history
  <2>10. CASE Save
    <3>1. tick.at = "save" /\ tick'.at = "idle" /\ tick'.todo = {}
      BY <2>10 DEF Save, Resting
    <3>2. saved' = measuring /\ UNCHANGED <<measuring, outcomes, abandoned>>
      BY <2>10 DEF Save, history
    <3>. QED BY <1>1, <2>1, <3>1, <3>2 DEF Accounts, Accounted
  <2>. QED BY <1>4, <2>3, <2>4, <2>5, <2>6, <2>7, <2>8, <2>9, <2>10 DEF Tick
<1>5. CASE OtherRegisters
  <2>1. saved' = measuring /\ UNCHANGED <<pc, measuring, outcomes, tick, restarts, history>>
    BY <1>5 DEF OtherRegisters, engine
  <2>. QED BY <1>1, <2>1 DEF Accounts, Accounted, history
<1>6. CASE Restart
  <2>1. /\ tick' = Resting /\ measuring' = saved' /\ restarts' = restarts + 1
        /\ UNCHANGED <<registered, abandoned>>
        /\ \A s \in Signal : pc'[s] \in Early => pc[s] \in Early
    BY <1>1, <1>6 DEF Restart, Early
  <2>2. saved' \subseteq saved /\ \A s \in Signal : outcomes'[s] \in {0, outcomes[s]}
    BY <1>1, <1>6 DEF Restart
  <2>3. saved \union Accounted \subseteq saved' \union Accounted'
    <3>1. CASE UNCHANGED <<saved, outcomes, torn>>
      BY <2>1, <3>1 DEF Accounted
    <3>2. CASE saved' = {} /\ torn' = torn \union saved /\ UNCHANGED outcomes
      BY <2>1, <3>2 DEF Accounted
    <3>3. CASE torn' = torn \union {s \in Signal : outcomes[s] > 0} /\ UNCHANGED saved
      BY <2>1, <3>3 DEF Accounted
    <3>. QED BY <1>6, <3>1, <3>2, <3>3 DEF Restart
  <2>4. tick'.at = "idle" /\ tick'.todo = {}
    BY <2>1 DEF Resting
  <2>5. /\ registered' \subseteq saved' \union Accounted'
        /\ measuring' \union saved' \subseteq registered'
        /\ \A s \in Signal : outcomes'[s] > 0 => s \in registered'
        /\ \A s \in Signal : pc'[s] \in Early => s \notin registered'
    BY <1>1, <2>1, <2>2, <2>3 DEF Accounts, Early
  <2>6. \A s \in Signal : outcomes'[s] <= restarts' /\ outcomes'[s] <= 1 + restarts'
    <3>. TAKE s \in Signal
    <3>1. outcomes[s] \in Nat /\ outcomes[s] <= 1 + restarts
      BY <1>1 DEF Accounts
    <3>. QED BY <1>1, <2>1, <2>2, <3>1
  <2>7. measuring' \subseteq Signal
    BY <1>1, <2>1, <2>2 DEF Inv, Types
  <2>. QED BY <2>1, <2>4, <2>5, <2>6, <2>7 DEF Accounts, Early
<1>. QED BY <1>2, <1>3, <1>4, <1>5, <1>6 DEF Next

-----------------------------------------------------------------------------
(* Which record is meant.                                                   *)

LEMMA RecordsInit == Init => Records
BY DEF Init, Records, Promised!Init, IndexIsEarned, Honest, NoRow, EmptyHanded, Resting

\* Records are added and never change hands, outcomes are never unsaid, and what
\* is owed stays owed.
LEMMA Grows ==
  ASSUME Inv, Next
  PROVE  /\ \A s \in Signal : \A r : Owns(s, r) => Owns(s, r)'
         /\ spoken \subseteq spoken' /\ owed \subseteq owed'
<1> USE DEF Landed, Updated
<1>1. spoken \subseteq spoken'
  BY DEF Next, Decision, Judge, Route, Execute, ExecuteRaises, Register, Publish,
         EnqueueDossier, WatcherFill, Time, Drain, DrainTake, Submit, SubmitFails, Settle,
         Note, AppendRow, Tick, TickBegin, AppendOutcome, Drop, Consult, AskUpdate,
         AskRaises, Mark,
         AppendStatus, TickEnd, Save, GiveUp, Stall, Classify, OtherRegisters, Restart, history
<1>2. CASE Submit \/ SubmitFails
  <2>1. CASE Lands(hand.item)
    <3>1. Types /\ chain \in Seq(ChainRecord)
      BY DEF Inv, Types
    <3>2. owed' = owed
      BY <2>1, <3>1, LandsType
    <3>3. CASE hand.item.op = "add"
      <4>1. chain' = Landed
        BY <2>1, <3>3 DEF Lands
      <4>2. \A r \in DOMAIN chain : r \in DOMAIN chain' /\ chain'[r] = chain[r]
        BY <3>1, <4>1
      <4>. QED BY <1>1, <3>2, <4>2 DEF Owns
    <3>4. CASE hand.item.op # "add"
      <4>1. chain' = Updated
        BY <2>1, <3>4 DEF Lands
      <4>2. \A r \in DOMAIN chain : r \in DOMAIN chain' /\ chain'[r].signal = chain[r].signal
        BY <3>1, <4>1
      <4>. QED BY <1>1, <3>2, <4>2 DEF Owns
    <3>. QED BY <3>3, <3>4
  <2>2. CASE UNCHANGED <<outbox, chain>>
    BY <1>1, <2>2 DEF Owns, outbox
  <2>. QED BY <1>2, <2>1, <2>2 DEF Submit, SubmitFails
<1>3. CASE ~(Submit \/ SubmitFails)
  <2>1. UNCHANGED chain
    BY <1>3 DEF Next, Decision, Judge, Route, Execute, ExecuteRaises, Register, Publish,
         EnqueueDossier, WatcherFill, Time, Drain, DrainTake, Settle, Note, AppendRow, Tick,
         TickBegin, AppendOutcome, Drop, Consult, AskUpdate,
         AskRaises, Mark, AppendStatus, TickEnd, Save,
         GiveUp, Stall, Classify, OtherRegisters, Restart
  <2>2. owed \subseteq owed'
    BY <1>3 DEF Next, Decision, Judge, Route, Execute, ExecuteRaises, Register, Publish,
         EnqueueDossier, WatcherFill, Time, Drain, DrainTake, Settle, Note, AppendRow, Tick,
         TickBegin, AppendOutcome, Drop, Consult, AskUpdate,
         AskRaises, Mark, AppendStatus, TickEnd, Save,
         GiveUp, Stall, Classify, OtherRegisters, Restart, Ask, Promised!TakeOn,
         Promised!Settle, outbox
  <2>. QED BY <1>1, <2>1, <2>2 DEF Owns
<1>. QED BY <1>2, <1>3

LEMMA RecordsStep == Inv /\ [Next]_vars => Records'
<1>. SUFFICES ASSUME Inv, Next PROVE Records'
  <2>1. UNCHANGED vars /\ Records => Records'
    BY DEF vars, engine, outbox, books, resolver, history, Records, Owns, Honest, IndexIsEarned
  <2>. QED BY <2>1 DEF Inv
<1> DEFINE Updates == \A s \in Signal, r \in 1..MaxRecords :
                        Update(s, r) \in owed => Owns(s, r) /\ s \in spoken
           OnChain == \A r \in DOMAIN chain :
                        chain[r].status = "Superseded" => chain[r].signal \in spoken
           InHand == /\ hand.at # "idle" => hand.item \in owed
                     /\ hand.at \in {"settle", "note", "append"} =>
                          Owns(hand.item.signal, hand.record)
           InBooks == /\ \A s \in Signal : Honest(s, index[s]) /\ Honest(s, indexFile[s])
                      /\ IndexIsEarned
           InTick ==
             /\ tick.at \in {"drop", "consult", "ask", "mark", "status"} => tick.signal \in spoken
             /\ tick.at \in {"ask", "mark", "status"} => Owns(tick.signal, tick.record)
             /\ tick.at \in {"mark", "status"} => Update(tick.signal, tick.record) \in owed
<1>1a. Updates
  BY DEF Inv, Records
<1>1b. OnChain
  BY DEF Inv, Records
<1>1c. InHand
  BY DEF Inv, Records
<1>1d. InBooks
  BY DEF Inv, Records
<1>1e. InTick
  BY DEF Inv, Records
<1>2. Updates' /\ OnChain' /\ InHand' /\ InBooks' /\ InTick' => Records'
  BY DEF Records
<1>3. /\ \A s \in Signal : \A r : Owns(s, r) => Owns(s, r)'
      /\ spoken \subseteq spoken' /\ owed \subseteq owed'
  BY Grows
<1>4. owed \subseteq Item /\ tick \in TickType /\ chain \in Seq(ChainRecord) /\ Types
  BY DEF Inv, Types
<1>5. /\ hand.at # "idle" => hand.item.signal \in Signal
      /\ tick.at \in {"outcome", "drop", "consult", "ask", "mark", "status"} =>
           tick.signal \in Signal
  BY <1>1c, <1>1e, <1>4, ItemsAre DEF Inv, Types, Accounts
<1>. HIDE DEF Updates, OnChain, InHand, InBooks, InTick
<1> USE DEF Landed, Updated
<1>6. ASSUME UNCHANGED owed PROVE Updates'
  BY <1>1a, <1>3, <1>6 DEF Updates
<1>7. ASSUME UNCHANGED chain PROVE OnChain'
  BY <1>1b, <1>3, <1>4, <1>7 DEF OnChain
<1>8. ASSUME UNCHANGED hand PROVE InHand'
  BY <1>1c, <1>3, <1>5, <1>8 DEF InHand
<1>9. ASSUME UNCHANGED books PROVE InBooks'
  <2>1. (\A s \in Signal : Honest(s, index[s]) /\ Honest(s, indexFile[s]))'
    BY <1>1d, <1>3, <1>9 DEF InBooks, Honest, books
  <2>2. IndexIsEarned'
    BY <1>1d, <1>3, <1>9 DEF InBooks, IndexIsEarned, Owns, books
  <2>. QED BY <2>1, <2>2 DEF InBooks
<1>10. ASSUME UNCHANGED tick PROVE InTick'
  BY <1>1e, <1>3, <1>5, <1>10 DEF InTick
<1>11. ASSUME NEW s \in Signal, Decision(s) \/ Time(s) PROVE Records'
  <2>1. UNCHANGED <<chain, hand, books, tick>>
    BY <1>11 DEF Decision, Judge, Route, Execute, ExecuteRaises, Register, Publish,
                 EnqueueDossier, WatcherFill, Time, resolver
  <2>2. Updates'
    <3>1. CASE EnqueueDossier(s)
      <4>1. owed' \subseteq owed \union {Add(s)}
        BY <3>1 DEF EnqueueDossier, Ask, Promised!TakeOn, outbox
      <4>2. \A t \in Signal, r \in 1..MaxRecords : Update(t, r) \in owed' => Update(t, r) \in owed
        BY <4>1 DEF Add, Update
      <4>. QED BY <1>1a, <1>3, <4>2 DEF Updates
    <3>2. CASE ~EnqueueDossier(s)
      <4>1. UNCHANGED owed
        BY <1>11, <3>2 DEF Decision, Judge, Route, Execute, ExecuteRaises, Register, Publish,
                           WatcherFill, Time, outbox
      <4>. QED BY <1>6, <4>1
    <3>. QED BY <3>1, <3>2
  <2>. QED BY <1>2, <1>7, <1>8, <1>9, <1>10, <2>1, <2>2
<1>12. CASE Drain
  <2>1. UNCHANGED tick /\ InTick'
    BY <1>10, <1>12
    DEF Drain, DrainTake, Submit, SubmitFails, Settle, Note, AppendRow, resolver
  <2>2. Updates'
    <3>1. UNCHANGED owed
      BY <1>4, <1>12, LandsType DEF Drain, DrainTake, Submit, SubmitFails, Settle, Note,
                                    AppendRow, outbox, Promised!Settle
    <3>. QED BY <1>6, <3>1
  <2>3. ASSUME hand.at = "submit", Lands(hand.item)
        PROVE  /\ OnChain'
               /\ hand.item.op = "add" =>
                    /\ Len(chain') \in DOMAIN chain'
                    /\ chain'[Len(chain')].signal = hand.item.signal
               /\ hand.item.op # "add" => Owns(hand.item.signal, hand.item.record)
    <3>1. hand.item \in owed /\ hand.item \in Item /\ hand.item.signal \in Signal
      BY <1>4, <2>3, LandsType, ItemsAre
    <3>2. CASE hand.item.op = "add"
      <4>1. chain' = Landed
        BY <2>3, <3>2 DEF Lands
      <4>2. OnChain'
        BY <1>1b, <1>3, <1>4, <4>1 DEF OnChain
      <4>. QED BY <1>4, <3>2, <4>1, <4>2 DEF Owns
    <3>3. CASE hand.item.op # "add"
      <4>1. /\ hand.item.record \in 1..MaxRecords
            /\ Update(hand.item.signal, hand.item.record) \in owed
        BY <3>1, <3>3, ItemsAre
      <4>2. Owns(hand.item.signal, hand.item.record) /\ hand.item.signal \in spoken
        BY <1>1a, <3>1, <4>1 DEF Updates
      <4>3. chain' = Updated
        BY <2>3, <3>3 DEF Lands
      <4>4. OnChain'
        BY <1>1b, <1>3, <1>4, <4>2, <4>3 DEF OnChain, Owns
      <4>. QED BY <3>3, <4>2, <4>4
    <3>. QED BY <3>2, <3>3
  <2>4. ASSUME NEW item \in owed, DrainTake(item) PROVE Records'
    <3>1. InHand'
      BY <1>3, <2>4 DEF DrainTake, InHand
    <3>. QED BY <1>2, <1>7, <1>9, <2>1, <2>2, <2>4, <3>1 DEF DrainTake
  <2>5. CASE Submit
    <3>1. hand.at = "submit" /\ Lands(hand.item)
      BY <2>5 DEF Submit
    <3> DEFINE r == IF hand.item.op = "add" THEN Len(chain') ELSE hand.item.record
    <3>2. hand'.at = "settle" /\ hand'.item = hand.item /\ hand'.record = r
      BY <1>4, <2>5 DEF Submit, Types
    <3>3. hand.item \in owed /\ hand.item.signal \in Signal
      BY <1>1c, <1>5, <3>1 DEF InHand
    <3>4. InHand'
      <4>1. CASE hand.item.op = "add"
        BY <1>3, <2>3, <3>1, <3>2, <3>3, <4>1 DEF InHand, Owns
      <4>2. CASE hand.item.op # "add"
        BY <1>3, <2>3, <3>1, <3>2, <3>3, <4>2 DEF InHand, Owns
      <4>. QED BY <4>1, <4>2
    <3>. QED BY <1>2, <1>9, <2>1, <2>2, <2>3, <2>5, <3>1, <3>4 DEF Submit
  <2>6. CASE SubmitFails
    <3>1. OnChain'
      BY <1>7, <2>3, <2>6 DEF SubmitFails
    <3>2. InHand'
      BY <2>6 DEF SubmitFails, EmptyHanded, InHand
    <3>. QED BY <1>2, <1>9, <2>1, <2>2, <2>6, <3>1, <3>2 DEF SubmitFails
  <2>7. CASE Settle
    <3>1. InHand'
      BY <1>1c, <1>3, <1>4, <1>5, <2>7 DEF Settle, HandAt, InHand, Types
    <3>. QED BY <1>2, <1>7, <1>9, <2>1, <2>2, <2>7, <3>1 DEF Settle
  <2>8. ASSUME hand.at \in {"note", "append"}, UNCHANGED <<chain, owed>>
        PROVE  /\ hand.item.signal \in Signal /\ Honest(hand.item.signal, Row)
               /\ Row.status = "Superseded" => \E r \in DOMAIN chain :
                    /\ chain[r].signal = hand.item.signal
                    /\ Update(hand.item.signal, r) \in owed
    <3>1. hand.item \in owed /\ hand.item.signal \in Signal /\ Owns(hand.item.signal, hand.record)
      BY <1>1c, <1>5, <2>8 DEF InHand
    <3>2. Honest(hand.item.signal, Row)
      BY <3>1 DEF Honest, Row
    <3>3. Row.status = "Superseded" =>
            /\ hand.item.record \in 1..MaxRecords
            /\ Update(hand.item.signal, hand.item.record) \in owed
      BY <1>4, <3>1, ItemsAre DEF Row
    <3>. QED BY <1>1a, <3>1, <3>2, <3>3 DEF Updates, Owns
  <2>9. CASE Note
    <3>1. InHand'
      BY <1>1c, <1>3, <1>4, <1>5, <2>9 DEF Note, HandAt, InHand, Types
    <3>2. InBooks'
      <4>1. hand.at = "note" /\ UNCHANGED <<chain, owed, indexFile>>
        BY <2>9 DEF Note, HandAt, outbox
      <4>2. \A s \in Signal : index'[s] = IF s = hand.item.signal THEN Row ELSE index[s]
        BY <1>4, <2>9 DEF Note, Types
      <4>3. (\A s \in Signal : Honest(s, index[s]) /\ Honest(s, indexFile[s]))'
        BY <1>1d, <2>8, <4>1, <4>2 DEF InBooks, Honest, Owns
      <4>4. IndexIsEarned'
        BY <1>1d, <2>8, <4>1, <4>2 DEF InBooks, IndexIsEarned
      <4>. QED BY <4>3, <4>4 DEF InBooks
    <3>. QED BY <1>2, <1>7, <2>1, <2>2, <2>9, <3>1, <3>2 DEF Note
  <2>10. CASE AppendRow
    <3>1. InHand'
      BY <2>10 DEF AppendRow, EmptyHanded, InHand
    <3>2. InBooks'
      <4>1. hand.at = "append" /\ UNCHANGED <<chain, owed, index>>
        BY <2>10 DEF AppendRow, outbox
      <4>2. \A s \in Signal : indexFile'[s] = IF s = hand.item.signal THEN Row ELSE indexFile[s]
        BY <1>4, <2>10 DEF AppendRow, Types
      <4>3. (\A s \in Signal : Honest(s, index[s]) /\ Honest(s, indexFile[s]))'
        BY <1>1d, <2>8, <4>1, <4>2 DEF InBooks, Honest, Owns
      <4>4. IndexIsEarned'
        BY <1>1d, <2>8, <4>1, <4>2 DEF InBooks, IndexIsEarned
      <4>. QED BY <4>3, <4>4 DEF InBooks
    <3>. QED BY <1>2, <1>7, <2>1, <2>2, <2>10, <3>1, <3>2 DEF AppendRow
  <2>. QED BY <1>12, <2>4, <2>5, <2>6, <2>7, <2>9, <2>10 DEF Drain
<1>13. CASE Tick
  <2>1. UNCHANGED <<chain, hand>>
    BY <1>13 DEF Tick, TickBegin, AppendOutcome, Drop, Consult, AskUpdate,
                 AskRaises, Mark, AppendStatus,
                 TickEnd, Save, GiveUp, Stall, Classify
  <2>2. OnChain' /\ InHand'
    BY <1>7, <1>8, <2>1
  <2>3. ASSUME UNCHANGED <<outbox, books>>, tick'.at \in {"idle", "next", "outcome", "save"}
        PROVE  Records'
    <3>1. InTick'
      BY <2>3 DEF InTick
    <3>. QED BY <1>2, <1>6, <1>9, <2>2, <2>3, <3>1 DEF outbox
  <2>4. CASE TickBegin \/ TickEnd \/ Save
    <3>1. tick'.at \in {"idle", "next", "outcome", "save"}
      <4>1. CASE TickBegin
        BY <4>1 DEF TickBegin, Resting
      <4>2. CASE TickEnd
        BY <1>4, <4>2 DEF TickEnd, Resting, TickType
      <4>3. CASE Save
        BY <4>3 DEF Save, Resting
      <4>. QED BY <2>4, <4>1, <4>2, <4>3
    <3>. QED BY <2>3, <2>4, <3>1 DEF TickBegin, TickEnd, Save
  <2>5. ASSUME NEW s \in Signal, GiveUp(s) \/ Stall(s) \/ Classify(s) PROVE Records'
    BY <1>4, <2>3, <2>5 DEF GiveUp, Stall, Classify, TickType
  <2>6. CASE AppendOutcome
    <3>1. /\ tick'.at = "drop" /\ tick'.signal = tick.signal
          /\ spoken' = spoken \union {tick.signal}
      BY <1>4, <2>6 DEF AppendOutcome, TickAt, TickType
    <3>2. InTick'
      BY <3>1 DEF InTick
    <3>. QED BY <1>2, <1>6, <1>9, <2>2, <2>6, <3>2 DEF AppendOutcome, outbox
  <2>7. CASE Drop
    <3>1. tick.at = "drop" /\ tick'.at = "consult" /\ tick'.signal = tick.signal
      BY <1>4, <2>7 DEF Drop, TickAt, TickType
    <3>2. InTick'
      BY <1>1e, <1>3, <3>1 DEF InTick
    <3>. QED BY <1>2, <1>6, <1>9, <2>2, <2>7, <3>2 DEF Drop, outbox
  <2>8. CASE Consult
    <3>1. tick.at = "consult" /\ tick.signal \in spoken /\ tick.signal \in Signal
          /\ UNCHANGED <<outbox, books>>
      BY <1>1e, <1>5, <2>8 DEF Consult, InTick
    <3>2. CASE /\ index[tick.signal].status = "Active"
               /\ tick' = [tick EXCEPT !.at = "ask", !.record = index[tick.signal].record]
      <4>1. Owns(tick.signal, index[tick.signal].record)
        BY <1>1d, <3>1, <3>2 DEF InBooks, Honest
      <4>2. /\ tick'.at = "ask" /\ tick'.signal = tick.signal
            /\ tick'.record = index[tick.signal].record
        BY <1>4, <3>2 DEF TickType
      <4>3. InTick'
        BY <1>3, <2>1, <3>1, <4>1, <4>2 DEF InTick, Owns
      <4>. QED BY <1>2, <1>6, <1>9, <2>2, <3>1, <4>3 DEF outbox
    <3>3. CASE Resolved
      BY <1>4, <2>3, <3>1, <3>3 DEF Resolved, TickType
    <3>. QED BY <2>8, <3>2, <3>3 DEF Consult
  <2>9. CASE AskUpdate
    <3>1. /\ tick.at = "ask" /\ tick'.at = "mark" /\ tick'.signal = tick.signal
          /\ tick'.record = tick.record
      BY <1>4, <2>9 DEF AskUpdate, TickAt, TickType
    <3>2. tick.signal \in spoken /\ tick.signal \in Signal /\ Owns(tick.signal, tick.record)
      BY <1>1e, <1>5, <3>1 DEF InTick
    <3>3. owed' = owed \union {Update(tick.signal, tick.record)}
      BY <2>9 DEF AskUpdate, Ask, Promised!TakeOn, outbox
    <3>4. Updates'
      <4>1. \A s \in Signal, r \in 1..MaxRecords :
              Update(s, r) \in owed' =>
                Update(s, r) \in owed \/ (s = tick.signal /\ r = tick.record)
        BY <3>3 DEF Update
      <4>. QED BY <1>1a, <1>3, <2>1, <3>2, <4>1 DEF Updates, Owns
    <3>5. InTick'
      BY <1>3, <2>1, <3>1, <3>2, <3>3 DEF InTick, Owns
    <3>. QED BY <1>2, <1>9, <2>2, <2>9, <3>4, <3>5 DEF AskUpdate
  <2>10. ASSUME tick.at \in {"mark", "status"}
         PROVE  /\ tick.signal \in Signal /\ tick.record \in DOMAIN chain
                /\ chain[tick.record].signal = tick.signal
                /\ Update(tick.signal, tick.record) \in owed
                /\ \A row : Honest(tick.signal, row) => Honest(tick.signal, Overtaken(row))
    BY <1>1e, <1>5, <2>10 DEF InTick, Owns, Honest, Overtaken
  <2>11. CASE Mark
    <3>1. /\ tick.at = "mark" /\ tick'.at = "status" /\ tick'.signal = tick.signal
          /\ tick'.record = tick.record /\ UNCHANGED <<chain, owed, indexFile>>
      BY <1>4, <2>1, <2>11 DEF Mark, TickAt, TickType, outbox
    <3>2. InTick'
      BY <1>1e, <1>3, <1>5, <3>1 DEF InTick, Owns
    <3>3. \A s \in Signal :
            index'[s] = IF s = tick.signal THEN Overtaken(index[s]) ELSE index[s]
      BY <1>4, <2>11 DEF Mark, Types
    <3>4. (\A s \in Signal : Honest(s, index[s]) /\ Honest(s, indexFile[s]))'
      <4>1. \A s \in Signal : Honest(s, index'[s]) /\ Honest(s, indexFile'[s])
        BY <1>1d, <2>10, <3>1, <3>3 DEF InBooks
      <4>. QED BY <3>1, <4>1 DEF Honest, Owns
    <3>5. IndexIsEarned'
      BY <1>1d, <2>10, <3>1, <3>3 DEF InBooks, IndexIsEarned
    <3>. QED BY <1>2, <1>6, <2>2, <3>1, <3>2, <3>4, <3>5 DEF InBooks
  <2>12. CASE AppendStatus
    <3>1. tick.at = "status" /\ tick'.at = "next" /\ UNCHANGED <<chain, owed, index>>
      BY <1>4, <2>1, <2>12 DEF AppendStatus, Resolved, TickType, outbox
    <3>2. InTick'
      BY <3>1 DEF InTick
    <3>3. \A s \in Signal :
            indexFile'[s] = IF s = tick.signal THEN Overtaken(indexFile[s]) ELSE indexFile[s]
      BY <1>4, <2>12 DEF AppendStatus, Types
    <3>4. (\A s \in Signal : Honest(s, index[s]) /\ Honest(s, indexFile[s]))'
      <4>1. \A s \in Signal : Honest(s, index'[s]) /\ Honest(s, indexFile'[s])
        BY <1>1d, <2>10, <3>1, <3>3 DEF InBooks
      <4>. QED BY <3>1, <4>1 DEF Honest, Owns
    <3>5. IndexIsEarned'
      BY <1>1d, <2>10, <3>1, <3>3 DEF InBooks, IndexIsEarned
    <3>. QED BY <1>2, <1>6, <2>2, <3>1, <3>2, <3>4, <3>5 DEF InBooks
  <2>13. CASE AskRaises
    BY <1>4, <2>3, <2>13 DEF AskRaises, Resolved, TickType
  <2>. QED BY <1>13, <2>4, <2>5, <2>6, <2>7, <2>8, <2>9, <2>11, <2>12, <2>13 DEF Tick
<1>14. CASE OtherRegisters
  BY <1>2, <1>6, <1>7, <1>8, <1>9, <1>10, <1>14 DEF OtherRegisters, outbox
<1>15. CASE Restart
  <2>1. UNCHANGED <<chain, owed, indexFile>> /\ index' = indexFile
        /\ hand' = EmptyHanded /\ tick' = Resting
    BY <1>15 DEF Restart, outbox
  <2>2. InHand' /\ InTick'
    BY <2>1 DEF InHand, InTick, EmptyHanded, Resting
  <2>3. (\A s \in Signal : Honest(s, index[s]) /\ Honest(s, indexFile[s]))'
    BY <1>1d, <2>1 DEF InBooks, Honest, Owns
  <2>4. IndexIsEarned'
    BY <1>1d, <2>1 DEF InBooks, IndexIsEarned
  <2>. QED BY <1>2, <1>6, <1>7, <2>1, <2>2, <2>3, <2>4 DEF InBooks
<1>. QED BY <1>11, <1>12, <1>13, <1>14, <1>15 DEF Next

-----------------------------------------------------------------------------
(* The theorems.                                                            *)

LEMMA Invariance == Spec => []Inv
<1>1. Init => Inv
  BY TypesInit, AccountsInit, RecordsInit DEF Inv
<1>2. Inv /\ [Next]_vars => Inv'
  BY TypesStep, AccountsStep, RecordsStep DEF Inv
<1>. QED BY <1>1, <1>2, PTL DEF Spec

\* Every variable has its type, a step holds what it acts on, and no row of the
\* index names a record that never landed.
THEOREM TypeCorrect == Spec => []TypeOK
<1>1. Inv => TypeOK
  <2>. SUFFICES ASSUME Inv PROVE TypeOK
    OBVIOUS
  <2>1. Types /\ Accounts /\ Records
    BY DEF Inv
  <2>2. \A r \in DOMAIN chain : chain[r] \in [signal : Signal, status : Statuses \ {"none"}]
    <3>. TAKE r \in DOMAIN chain
    <3>1. chain[r] \in ChainRecord
      BY <2>1, ElementOfSeq DEF Types
    <3>. QED BY <3>1 DEF ChainRecord, Statuses
  <2>3. hand.at \in HandSteps /\ tick.at \in TickSteps
    BY <2>1 DEF Types, TickType
  <2>4. \A s \in Signal : {index[s].record, indexFile[s].record} \subseteq 0..Len(chain)
    <3>1. chain \in Seq(ChainRecord)
      BY <2>1 DEF Types
    <3>. QED BY <2>1, <3>1 DEF Records, Honest, Owns
  <2>. QED BY <2>1, <2>2, <2>3, <2>4
       DEF TypeOK, Types, Accounts, Records, Owns, HandSteps, TickSteps
<1>. QED BY <1>1, Invariance, PTL

\* resolver.py: "Registration is unconditional".  Whatever threads, crashes and
\* restarts come between, what register saved is never just gone.
THEOREM Measured == Spec => []MeasuredUnlessTorn
<1>1. Inv => MeasuredUnlessTorn
  BY DEF Inv, Accounts, Accounted, MeasuredUnlessTorn
<1>. QED BY <1>1, Invariance, PTL

\* A signal is in the outcomes file once, and once more for every restart.
THEOREM Explained == Spec => []OutcomesExplained
<1>1. Inv => OutcomesExplained
  BY DEF Inv, Accounts, OutcomesExplained
<1>. QED BY <1>1, Invariance, PTL

\* test_lifecycle.py: a dossier moves to resolved "only after price has spoken",
\* however often it or its update lands.
THEOREM PriceFirst == Spec => []SupersededAfterOutcome
<1>1. Inv => SupersededAfterOutcome
  BY DEF Inv, Records, SupersededAfterOutcome
<1>. QED BY <1>1, Invariance, PTL

\* on_outcome_resolved returns early for a row that says Superseded: such a row is
\* never there without an update that is owed to the chain.
THEOREM Earned == Spec => []IndexIsEarned
<1>1. Inv => IndexIsEarned
  BY DEF Inv, Records
<1>. QED BY <1>1, Invariance, PTL
=============================================================================
