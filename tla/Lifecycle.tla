------------------------------- MODULE Lifecycle -------------------------------
(***************************************************************************)
(* The life of a decision's record: Engine.process acts, registers the      *)
(* signal for measurement and hands a dossier to the outbox                 *)
(* (zcastor/execution/engine.py); a drain anchors it and on_anchored enters *)
(* it in the index (anchor/index.py); the resolver measures the outcome     *)
(* (resolve/resolver.py) and on_outcome_resolved asks for the record to be  *)
(* superseded.                                                              *)
(*                                                                          *)
(* One thread per signal processes it, the poll thread may fill it later,   *)
(* one thread drains and one resolves.  The outbox is what OutboxPromise    *)
(* says of it: when it tries which of the keys it owes, and that it keeps   *)
(* them through a crash, is in Outbox.                                      *)
(*                                                                          *)
(* An append to the index is whole or absent, and the only writes that fail *)
(* are those a crash cuts short; Outbox shows what other writes do.         *)
(***************************************************************************)
EXTENDS Integers, Sequences, FiniteSets

CONSTANTS
  Signal,
  Tears,       \* a crash may cut the rewriting of a file short
  MaxRecords,  \* bound: records on the chain
  MaxCopies,   \* bound: how often one key lands
  MaxRestarts  \* bound: how often the process starts again

ASSUME LifecycleAssumption ==
  /\ IsFiniteSet(Signal) /\ Tears \in BOOLEAN
  /\ {MaxRecords, MaxCopies, MaxRestarts} \subseteq Nat

\* What the outbox is asked for: add a signal's dossier, or supersede a record.
Add(s) == [op |-> "add", signal |-> s, record |-> 0]
Update(s, r) == [op |-> "update", signal |-> s, record |-> r]
Item == {Add(s) : s \in Signal} \union {Update(s, r) : s \in Signal, r \in 1..MaxRecords}

VARIABLES
  pc,        \* the call of Engine.process for a signal
  ticket,    \* signals whose market order was filled
  fill,      \* a signal's entry at the watcher
  published, \* signals whose dossier is on disk
  owed, settled, copies,  \* the outbox, as OutboxPromise has it
  chain,     \* the records, in the order they landed
  hand,      \* the drain: its step, its item, the record it landed on
  index, indexFile,       \* AnchorIndex in memory, and what its file rebuilds
  measuring, saved,       \* the resolver's _pending, and its file
  outcomes,  \* how often a signal is in the outcomes file
  age,       \* of a registered signal: not due, due, or past giving up
  tick,      \* the resolver: its step, its record, what it has left to look at,
             \* what of that is past giving up, whether it has to save
  restarts,
  \* History.
  registered, \* signals for which register saved the file
  spoken,     \* signals whose outcome has been written
  abandoned,  \* signals the resolver gave up on
  torn,       \* signals a torn file took with it
  early,      \* signals whose outcome found no row in the index
  unasked     \* signals whose update failed, or a crash prevented for good

outbox == <<owed, settled, copies>>
engine == <<pc, ticket, fill, published>>
books == <<index, indexFile>>
resolver == <<measuring, saved, outcomes, tick>>
unheard == <<early, unasked>>
history == <<registered, spoken, abandoned, torn, unheard>>
vars == <<engine, outbox, chain, hand, books, resolver, age, restarts, history>>

Promised == INSTANCE OutboxPromise WITH Key <- Item

Statuses == {"none", "Active", "Superseded"}
NoRow == [record |-> 0, status |-> "none"]
NotDue == 0
Due == 1
GivenUp == 2
NoOne == "none"
Resting == [at |-> "idle", signal |-> NoOne, record |-> 0, todo |-> {}, late |-> {},
            dirty |-> FALSE]
EmptyHanded == [at |-> "idle", item |-> NoOne, record |-> 0]

Init ==
  /\ pc = [s \in Signal |-> "new"] /\ ticket = {}
  /\ fill = [s \in Signal |-> "none"] /\ published = {}
  /\ Promised!Init
  /\ chain = <<>> /\ hand = EmptyHanded
  /\ index = [s \in Signal |-> NoRow] /\ indexFile = index
  /\ measuring = {} /\ saved = {} /\ outcomes = [s \in Signal |-> 0]
  /\ age = [s \in Signal |-> NotDue] /\ tick = Resting
  /\ restarts = 0
  /\ registered = {} /\ spoken = {} /\ abandoned = {} /\ torn = {}
  /\ early = {} /\ unasked = {}

-----------------------------------------------------------------------------
(* Engine.process, from the verdict on.                                     *)

At(s, from, to) == pc[s] = from /\ pc' = [pc EXCEPT ![s] = to]

\* A rejection ends the call, a suppression registers at once.  What closing an
\* exhausted direction does at the broker concerns no record.
Judge(s) ==
  /\ \E to \in {"execute", "route", "register", "done"} : At(s, "new", to)
  /\ UNCHANGED <<ticket, fill, published, outbox, chain, hand, books, resolver, age,
                 restarts, history>>

\* The watcher arms an entry, or refuses, or raises.
Route(s) ==
  /\ At(s, "route", "register")
  /\ \E armed \in {"none", "armed"} : fill' = [fill EXCEPT ![s] = armed]
  /\ UNCHANGED <<ticket, published, outbox, chain, hand, books, resolver, age,
                 restarts, history>>

\* The order is filled, or refused.
Execute(s) ==
  /\ At(s, "execute", "register")
  /\ \E filled \in {{}, {s}} : ticket' = ticket \union filled
  /\ UNCHANGED <<fill, published, outbox, chain, hand, books, resolver, age,
                 restarts, history>>

\* The journal raises after the fill: nothing is registered, nothing recorded.
ExecuteRaises(s) ==
  /\ At(s, "execute", "done")
  /\ UNCHANGED <<ticket, fill, published, outbox, chain, hand, books, resolver, age,
                 restarts, history>>

\* Mutant of Register: the file is not saved.
RegisterUnsaved(s) ==
  /\ At(s, "register", IF s \in ticket THEN "publish" ELSE "done")
  /\ measuring' = measuring \union {s} /\ registered' = registered \union {s}
  /\ UNCHANGED <<ticket, fill, published, outbox, chain, hand, books, saved, outcomes,
                 tick, age, restarts, spoken, abandoned, torn, unheard>>

\* register, in one hold of its lock; without a price it returns early.  Then
\* _record, which builds a dossier only for a filled order.
Register(s) ==
  /\ At(s, "register", IF s \in ticket THEN "publish" ELSE "done")
  /\ \/ UNCHANGED <<measuring, saved, registered>>
     \/ /\ measuring' = measuring \union {s} /\ saved' = measuring'
        /\ registered' = registered \union {s}
  /\ UNCHANGED <<ticket, fill, published, outbox, chain, hand, books, outcomes, tick,
                 age, restarts, spoken, abandoned, torn, unheard>>

\* publish_dossier, from process or from a watcher fill; a failure is logged and
\* ends the recording.
Publish(s) ==
  /\ \E to \in {"enqueue", "done"} :
       /\ \/ At(s, "publish", to) /\ UNCHANGED fill
          \/ /\ fill[s] = "publish" /\ fill' = [fill EXCEPT ![s] = to]
             /\ UNCHANGED pc
       /\ published' = IF to = "enqueue" THEN published \union {s} ELSE published
  /\ UNCHANGED <<ticket, outbox, chain, hand, books, resolver, age, restarts, history>>

\* Outbox.enqueue: nothing for a key it has.
Ask(item) == IF item \in owed THEN UNCHANGED outbox ELSE Promised!TakeOn(item)

\* _enqueue_dossier_for, by either thread; what enqueue raises, while another thread
\* changes one of its tables or for a line it cannot write, ends the recording.
EnqueueDossier(s) ==
  /\ \/ At(s, "enqueue", "done") /\ UNCHANGED fill
     \/ /\ fill[s] = "enqueue" /\ fill' = [fill EXCEPT ![s] = "done"]
        /\ UNCHANGED pc
  /\ Ask(Add(s)) \/ UNCHANGED outbox
  /\ UNCHANGED <<ticket, published, chain, hand, books, resolver, age, restarts, history>>

\* on_watcher_fill, once the watcher's order was filled; or the entry ends
\* without one, or the journal raises.  The poll may come before the call of
\* process that armed the entry has registered it.
WatcherFill(s) ==
  /\ fill[s] = "armed"
  /\ \E to \in {"publish", "done"} : fill' = [fill EXCEPT ![s] = to]
  /\ UNCHANGED <<pc, ticket, published, outbox, chain, hand, books, resolver, age,
                 restarts, history>>

Decision(s) == \/ Judge(s) \/ Route(s) \/ Execute(s) \/ ExecuteRaises(s) \/ Register(s)
               \/ Publish(s) \/ EnqueueDossier(s) \/ WatcherFill(s)

-----------------------------------------------------------------------------
(* A drain, on the worker thread: submit, complete, then on_anchored.       *)

HandAt(from, to) == hand.at = from /\ hand' = [hand EXCEPT !.at = to]

DrainTake(item) ==
  /\ hand.at = "idle" /\ item \in owed \ settled
  /\ hand' = [at |-> "submit", item |-> item, record |-> 0]
  /\ UNCHANGED <<engine, outbox, chain, books, resolver, age, restarts, history>>

\* The chain: a dossier becomes a new record with an id of its own; an update
\* changes the status of the record it names.
Lands(item) ==
  /\ copies[item] < MaxCopies
  /\ Promised!Submit(item)
  /\ chain' = IF item.op = "add"
              THEN Append(chain, [signal |-> item.signal, status |-> "Active"])
              ELSE [chain EXCEPT ![item.record] = [signal |-> @.signal, status |-> "Superseded"]]
  /\ Len(chain') <= MaxRecords

\* Mutant of Submit: the id is read before the record has landed.
SubmitStaleId ==
  /\ hand.at = "submit" /\ Lands(hand.item)
  /\ hand' = [hand EXCEPT !.at = "settle",
                          !.record = IF hand.item.op = "add" THEN Len(chain)
                                     ELSE hand.item.record]
  /\ UNCHANGED <<engine, books, resolver, age, restarts, history>>

Submit ==
  /\ hand.at = "submit" /\ Lands(hand.item)
  /\ hand' = [hand EXCEPT !.at = "settle",
                          !.record = IF hand.item.op = "add" THEN Len(chain')
                                     ELSE hand.item.record]
  /\ UNCHANGED <<engine, books, resolver, age, restarts, history>>

\* Refused, unavailable, or landed and reported as unavailable: it stays owed.
SubmitFails ==
  /\ hand.at = "submit" /\ hand' = EmptyHanded
  /\ \/ UNCHANGED <<outbox, chain>>
     \/ Lands(hand.item)
  /\ UNCHANGED <<engine, books, resolver, age, restarts, history>>

Settle ==
  /\ HandAt("settle", "note") /\ Promised!Settle(hand.item)
  /\ UNCHANGED <<engine, chain, books, resolver, age, restarts, history>>

\* record_anchored: the row in memory, then the line in the file.
Row == [record |-> hand.record,
        status |-> IF hand.item.op = "add" THEN "Active" ELSE "Superseded"]
Note ==
  /\ HandAt("note", "append")
  /\ index' = [index EXCEPT ![hand.item.signal] = Row]
  /\ UNCHANGED <<engine, outbox, chain, indexFile, resolver, age, restarts, history>>
AppendRow ==
  /\ hand.at = "append" /\ hand' = EmptyHanded
  /\ indexFile' = [indexFile EXCEPT ![hand.item.signal] = Row]
  /\ UNCHANGED <<engine, outbox, chain, index, resolver, age, restarts, history>>

Drain == (\E item \in owed : DrainTake(item)) \/ Submit \/ SubmitFails \/ Settle
         \/ Note \/ AppendRow

-----------------------------------------------------------------------------
(* OutcomeResolver.tick, on the worker thread.                              *)

TickAt(from, to) == tick.at = from /\ tick' = [tick EXCEPT !.at = to]

\* Mutant of TickBegin: nothing is ever past giving up.
TickBeginPatient ==
  /\ tick.at = "idle"
  /\ tick' = [Resting EXCEPT !.at = "next", !.todo = {s \in measuring : age[s] # NotDue}]
  /\ UNCHANGED <<engine, outbox, chain, hand, books, measuring, saved, outcomes, age,
                 restarts, history>>

TickBegin ==
  /\ tick.at = "idle"
  /\ tick' = [Resting EXCEPT !.at = "next",
                !.todo = {s \in measuring : age[s] # NotDue},
                !.late = {s \in measuring : age[s] = GivenUp}]
  /\ UNCHANGED <<engine, outbox, chain, hand, books, measuring, saved, outcomes, age,
                 restarts, history>>

GiveUp(s) ==
  /\ tick.at = "next" /\ s \in tick.todo \intersect tick.late
  /\ measuring' = measuring \ {s} /\ abandoned' = abandoned \union {s}
  /\ tick' = [tick EXCEPT !.todo = @ \ {s}, !.dirty = TRUE]
  /\ UNCHANGED <<engine, outbox, chain, hand, books, saved, outcomes, age, restarts,
                 registered, spoken, torn, unheard>>

\* No bars: the record stays, with one attempt more.
Stall(s) ==
  /\ tick.at = "next" /\ s \in tick.todo \ tick.late
  /\ tick' = [tick EXCEPT !.todo = @ \ {s}]
  /\ UNCHANGED <<engine, outbox, chain, hand, books, measuring, saved, outcomes, age,
                 restarts, history>>

\* _complete: the outcomes file is read, extended and rewritten.
Classify(s) ==
  /\ tick.at = "next" /\ s \in tick.todo \ tick.late
  /\ tick' = [tick EXCEPT !.at = "outcome", !.signal = s, !.todo = @ \ {s}]
  /\ UNCHANGED <<engine, outbox, chain, hand, books, measuring, saved, outcomes, age,
                 restarts, history>>

\* Mutant of AppendOutcome: its failure is swallowed, the callback still made.
AppendOutcomeFails ==
  /\ TickAt("outcome", "drop")
  /\ UNCHANGED <<engine, outbox, chain, hand, books, measuring, saved, outcomes, age,
                 restarts, history>>

AppendOutcome ==
  /\ TickAt("outcome", "drop")
  /\ outcomes' = [outcomes EXCEPT ![tick.signal] = @ + 1]
  /\ spoken' = spoken \union {tick.signal}
  /\ UNCHANGED <<engine, outbox, chain, hand, books, measuring, saved, age, restarts,
                 registered, abandoned, torn, unheard>>

\* Mutant of Drop: the record stays.
DropKeeps ==
  /\ TickAt("drop", "consult")
  /\ UNCHANGED <<engine, outbox, chain, hand, books, measuring, saved, outcomes, age,
                 restarts, history>>

Drop ==
  /\ TickAt("drop", "consult")
  /\ measuring' = measuring \ {tick.signal}
  /\ UNCHANGED <<engine, outbox, chain, hand, books, saved, outcomes, age, restarts,
                 history>>

\* on_outcome_resolved looks the signal up, asks for the update of the record it
\* found, and enters the status in memory, then in the file.
Resolved == tick' = [tick EXCEPT !.at = "next", !.signal = NoOne, !.record = 0,
                                 !.dirty = TRUE]
FindsNone ==
  early' = IF index[tick.signal].status = "none" THEN early \union {tick.signal} ELSE early

\* Mutants of Consult: the test of the status is inverted; the index is told,
\* the outbox is not asked.
ConsultInverted ==
  /\ tick.at = "consult"
  /\ IF index[tick.signal].status = "Superseded"
     THEN tick' = [tick EXCEPT !.at = "ask", !.record = index[tick.signal].record]
     ELSE Resolved
  /\ FindsNone
  /\ UNCHANGED <<engine, outbox, chain, hand, books, measuring, saved, outcomes, age,
                 restarts, registered, spoken, abandoned, torn, unasked>>
ConsultOnlyMarks ==
  /\ tick.at = "consult"
  /\ IF index[tick.signal].status = "Active"
     THEN tick' = [tick EXCEPT !.at = "mark", !.record = index[tick.signal].record]
     ELSE Resolved
  /\ FindsNone
  /\ UNCHANGED <<engine, outbox, chain, hand, books, measuring, saved, outcomes, age,
                 restarts, registered, spoken, abandoned, torn, unasked>>

Consult ==
  /\ tick.at = "consult"
  /\ IF index[tick.signal].status = "Active"
     THEN tick' = [tick EXCEPT !.at = "ask", !.record = index[tick.signal].record]
     ELSE Resolved
  /\ FindsNone
  /\ UNCHANGED <<engine, outbox, chain, hand, books, measuring, saved, outcomes, age,
                 restarts, registered, spoken, abandoned, torn, unasked>>
AskUpdate ==
  /\ TickAt("ask", "mark") /\ Ask(Update(tick.signal, tick.record))
  /\ UNCHANGED <<engine, chain, hand, books, measuring, saved, outcomes, age, restarts,
                 history>>

\* enqueue raises, as above: _complete logs it, when the record is already dropped.
AskRaises ==
  /\ tick.at = "ask" /\ Resolved
  /\ unasked' = unasked \union {tick.signal}
  /\ UNCHANGED <<engine, outbox, chain, hand, books, measuring, saved, outcomes, age,
                 restarts, registered, spoken, abandoned, torn, early>>
Overtaken(row) == [record |-> row.record, status |-> "Superseded"]
Mark ==
  /\ TickAt("mark", "status")
  /\ index' = [index EXCEPT ![tick.signal] = Overtaken(@)]
  /\ UNCHANGED <<engine, outbox, chain, hand, indexFile, measuring, saved, outcomes,
                 age, restarts, history>>
AppendStatus ==
  /\ tick.at = "status" /\ Resolved
  /\ indexFile' = [indexFile EXCEPT ![tick.signal] = Overtaken(@)]
  /\ UNCHANGED <<engine, outbox, chain, hand, index, measuring, saved, outcomes, age,
                 restarts, history>>

\* The file is saved if a record was resolved or abandoned.
TickEnd ==
  /\ tick.at = "next" /\ tick.todo = {}
  /\ tick' = IF tick.dirty THEN [tick EXCEPT !.at = "save"] ELSE Resting
  /\ UNCHANGED <<engine, outbox, chain, hand, books, measuring, saved, outcomes, age,
                 restarts, history>>
Save ==
  /\ tick.at = "save" /\ tick' = Resting
  /\ saved' = measuring
  /\ UNCHANGED <<engine, outbox, chain, hand, books, measuring, outcomes, age, restarts,
                 history>>

Tick ==
  \/ TickBegin \/ AppendOutcome \/ Drop \/ Consult \/ AskUpdate \/ AskRaises \/ Mark \/ AppendStatus
  \/ TickEnd \/ Save
  \/ \E s \in Signal : GiveUp(s) \/ Stall(s) \/ Classify(s)

-----------------------------------------------------------------------------
(* The world.                                                               *)

\* A registered signal's horizon passes, then its give_up_hours; both are told
\* from what its record says, so a restart resets neither.
Time(s) ==
  /\ s \in measuring \union saved /\ age[s] < GivenUp
  /\ age' = [age EXCEPT ![s] = @ + 1]
  /\ UNCHANGED <<engine, outbox, chain, hand, books, resolver, restarts, history>>

\* A signal that concerns nobody here registers, and saves the list as it finds it.
OtherRegisters ==
  /\ saved' = measuring
  /\ UNCHANGED <<engine, outbox, chain, hand, books, measuring, outcomes, tick, age,
                 restarts, history>>

\* The process dies and starts again.  A file that was being rewritten, _load may
\* find torn and take for empty; the pending list some signal may be saving at any
\* time.
CutsOutcomes == tick.at = "outcome"

\* A record that was dropped, but whose update nobody has asked for.
Between == IF tick.at \in {"consult", "ask"} THEN {tick.signal} ELSE {}
Restart ==
  /\ restarts < MaxRestarts /\ restarts' = restarts + 1
  /\ \/ UNCHANGED <<saved, outcomes, torn>>
     \/ /\ Tears
        /\ saved' = {} /\ torn' = torn \union saved /\ UNCHANGED outcomes
     \/ /\ Tears /\ CutsOutcomes
        /\ outcomes' = [s \in Signal |-> 0]
        /\ torn' = torn \union {s \in Signal : outcomes[s] > 0} /\ UNCHANGED saved
  /\ measuring' = saved' /\ tick' = Resting
  /\ unasked' = unasked \union (Between \ saved)
  /\ pc' = [s \in Signal |-> IF pc[s] = "new" THEN "new" ELSE "done"]
  /\ fill' = [s \in Signal |-> IF pc[s] = "new" THEN "none" ELSE "done"]
  /\ hand' = EmptyHanded
  /\ index' = indexFile
  /\ UNCHANGED <<ticket, published, outbox, chain, indexFile, age, registered, spoken,
                 abandoned, early>>

Next == \/ \E s \in Signal : Decision(s) \/ Time(s)
        \/ Drain \/ Tick \/ OtherRegisters \/ Restart

Spec == Init /\ [][Next]_vars

\* _resolve_outcomes ticks for ever, and time passes.
FairSpec == Spec /\ WF_vars(Tick) /\ \A s \in Signal : WF_vars(Time(s))

-----------------------------------------------------------------------------
(* Properties.                                                              *)

Steps == {"new", "execute", "route", "register", "publish", "enqueue", "done"}
FillSteps == {"none", "armed", "publish", "enqueue", "done"}
Rows == [record : 0..MaxRecords, status : Statuses]

\* Every variable has its type; a step holds what it acts on, and no row names a
\* record that never landed.
TypeOK ==
  /\ pc \in [Signal -> Steps] /\ fill \in [Signal -> FillSteps]
  /\ owed \subseteq Item /\ settled \subseteq owed
  /\ \A r \in DOMAIN chain : chain[r] \in [signal : Signal, status : Statuses \ {"none"}]
  /\ hand.at \in {"idle", "submit", "settle", "note", "append"}
  /\ hand.at # "idle" => hand.item \in owed
  /\ hand.at \in {"settle", "note", "append"} => hand.record \in DOMAIN chain
  /\ index \in [Signal -> Rows] /\ indexFile \in [Signal -> Rows]
  /\ \A s \in Signal : {index[s].record, indexFile[s].record} \subseteq 0..Len(chain)
  /\ tick.at \in {"idle", "next", "outcome", "drop", "consult", "ask", "mark", "status", "save"}
  /\ tick.at \in {"ask", "mark", "status"} => tick.record \in DOMAIN chain
  /\ tick.todo \subseteq measuring /\ saved \subseteq Signal

\* resolver.py: "Registration is unconditional".  What register has saved is
\* measured, given up, or still waiting where a restart finds it, unless a crash
\* tore one of the two files that are rewritten in place.
MeasuredUnlessTorn ==
  registered \subseteq saved \union abandoned \union torn
                         \union {s \in Signal : outcomes[s] > 0}

\* A signal is scored twice only if a crash came between its outcome and the
\* saving of the pending list: the statistics count it once for every restart.
OutcomesExplained == \A s \in Signal : outcomes[s] <= 1 + restarts

\* test_lifecycle.py: a dossier moves to resolved "only after price has spoken",
\* whatever crashes come between the outcome, the update and the chain.
SupersededAfterOutcome ==
  \A r \in DOMAIN chain : chain[r].status = "Superseded" => chain[r].signal \in spoken

\* The index never says Superseded, in memory or after a restart, of a signal for
\* which no update is owed to the chain: on_outcome_resolved returns early for
\* it, so nobody would ask again.
IndexIsEarned ==
  \A s \in Signal : "Superseded" \in {index[s].status, indexFile[s].status} =>
    \E r \in DOMAIN chain : chain[r].signal = s /\ Update(s, r) \in owed

\* resolver.py: "the record stays pending and is retried", but not for ever:
\* whatever the market answers, a registered signal is measured or abandoned.
MeasuredInTheEnd ==
  \A s \in Signal :
    (s \in registered) ~> (s \in torn \union abandoned \/ outcomes[s] > 0)

\* engine.py: "Move the dossier from committed to resolved".  A registered signal
\* whose record the index knows is in the end asked to be superseded: through
\* crashes and landings in any order, unless it was given up, a torn file took it,
\* its outcome came before its row, or the one attempt to ask failed.
ResolvedIsAsked ==
  \A s \in Signal :
    (s \in registered /\ index[s].status = "Active")
      ~> \/ \E r \in 1..MaxRecords : Update(s, r) \in owed
         \/ s \in abandoned \union torn \union early \union unasked
=============================================================================
