------------------------------- MODULE Outbox -------------------------------
(***************************************************************************)
(* The durable outbox of zcastor/anchor/outbox.py: a queue of records to    *)
(* anchor, held in memory and rebuilt from an append-only log.              *)
(*                                                                          *)
(* Nothing in the class takes a lock, and several threads call it: engine,  *)
(* watcher, resolver and rollover threads enqueue; a worker thread drains;  *)
(* the event loop compacts; shutdown drains again while the cancelled       *)
(* worker may still run; ops/scripts/repair_parked.py opens the same file   *)
(* from a process of its own.  A step here is one dictionary operation, one *)
(* append or one backend call.                                              *)
(*                                                                          *)
(* The log is represented by what _load rebuilds from it.  _load is a left  *)
(* fold of _replay over the lines, so appending a line turns the rebuilt    *)
(* state  disk  into Replay(disk, line).  `tail' is an unterminated last    *)
(* line, left by a crash in the middle of a write.                          *)
(*                                                                          *)
(* The order of _pending and the backoff clock are in OutboxSchedule; here  *)
(* a drain may take its entries in any order and may find any of them not   *)
(* yet due.                                                                 *)
(***************************************************************************)
EXTENDS Integers, FiniteSets

CONSTANTS
  Entry,        \* PendingRecords: each is created by one enqueue call
  Key,          \* dedupe keys
  KeyOf,        \* PendingRecord.dedupe_key()
  NoEntry,
  Callers,      \* threads that enqueue
  Limit,        \* drain's limit
  Threshold,    \* maybe_compact's threshold
  \* What the environment of a run does.
  GivesUp,      \* max_attempts # 0: a transient failure may be the last one
  Rejects,      \* the backend refuses some entries permanently
  Ambiguous,    \* a transaction may be mined although its submit timed out
  DiskFaults,   \* an append may raise
  Tears,        \* a crash may leave an unterminated line
  Graceful,     \* the server may be shut down through its lifespan handler
  MaxRestarts,  \* bound: how often the server starts again
  MaxRepairs,   \* bound: how often repair_parked.py is run
  MaxCopies     \* bound: how often one key may land on the chain

ASSUME EntriesAssumption ==
  /\ IsFiniteSet(Entry) /\ IsFiniteSet(Key)
  /\ NoEntry \notin Entry
  /\ KeyOf \in [Entry -> Key]
ASSUME BoundsAssumption ==
  /\ Limit \in Nat /\ Threshold \in Nat
  /\ MaxRestarts \in Nat /\ MaxRepairs \in Nat /\ MaxCopies \in Nat
ASSUME SwitchesAssumption ==
  {GivesUp, Rejects, Ambiguous, DiskFaults, Tears, Graceful} \subseteq BOOLEAN

VARIABLES
  disk,      \* the state the whole lines of the log rebuild
  tail,      \* an unterminated last line, if any
  phase,     \* the server: down, up, or stopping
  pending, done, parked, completed,  \* the server's Outbox object
  pc, arg,   \* a caller inside enqueue, and the entry it made
  dpc, batch, cur,  \* a drain: its step, what is left of its slice, its entry
  image,     \* the log compact() is about to put in place
  repair,    \* repair_parked.py and the Outbox it loaded
  restarts, repairs,
  fresh,     \* entries not created yet
  \* History: what the world outside can tell.
  handed,    \* entries whose enqueue returned them
  requeued,  \* entries the operator put back
  landed,    \* key -> records for it on the chain
  lostAck    \* key -> landed records whose success no `sent' line kept

memory == <<pending, done, parked, completed>>
callers == <<pc, arg>>
drains == <<dpc, batch, cur, image>>
operator == <<repair, repairs, requeued>>
chain == <<landed, lostAck>>
log == <<disk, tail>>
vars == <<log, phase, memory, callers, drains, operator, restarts, fresh,
          handed, chain>>

\* The thread of the drain loop, and the drain of the lifespan's finally.
Drainers == {"loop", "exit"}

-----------------------------------------------------------------------------
(* The log.                                                                 *)

LineKinds == {"enqueue", "sent", "parked"}
Line == [kind : LineKinds, entry : Entry]
\* Tails: nothing; a fragment that does not parse; a line without its newline.
NoTail == [kind |-> "none", entry |-> NoEntry]
Torn == [kind |-> "torn", entry |-> NoEntry]

State == [pending : SUBSET Entry, done : SUBSET Key, parked : SUBSET Entry,
          completed : Nat]
EmptyState == [pending |-> {}, done |-> {}, parked |-> {}, completed |-> 0]

ReplayEnqueue(s, e) ==
  [pending |-> IF KeyOf[e] \in s.done THEN s.pending ELSE s.pending \union {e},
   done |-> s.done, parked |-> s.parked, completed |-> s.completed]

\* Mutant of ReplaySent: `sent' takes the entry out but does not mark its key.
ReplaySentForgetsKey(s, e) ==
  [s EXCEPT !.pending = s.pending \ {e}, !.completed = s.completed + 1]

ReplaySent(s, e) ==
  [pending |-> s.pending \ {e}, done |-> s.done \union {KeyOf[e]},
   parked |-> s.parked, completed |-> s.completed + 1]

\* Mutant of ReplayParked: a parked line is taken for a completion.
ReplayParkedDrops(s, e) ==
  [s EXCEPT !.pending = s.pending \ {e}, !.completed = s.completed + 1]

ReplayParked(s, e) ==
  [pending |-> s.pending \ {e}, done |-> s.done,
   parked |-> s.parked \union (s.pending \intersect {e}),
   completed |-> s.completed + 1]
Replay(s, line) ==
  IF line.kind = "enqueue" THEN ReplayEnqueue(s, line.entry)
  ELSE IF line.kind = "sent" THEN ReplaySent(s, line.entry)
  ELSE ReplayParked(s, line.entry)

\* What a process that opens the file now gets: a last line that parses is
\* replayed even without its newline, a fragment is discarded.
Load == IF tail \in Line THEN Replay(disk, tail) ELSE disk

\* One append of a whole line.  After an unterminated tail the two become one
\* line, which does not parse.
AppendLine(kind, e) ==
  /\ disk' = IF tail = NoTail THEN Replay(disk, [kind |-> kind, entry |-> e])
             ELSE disk
  /\ tail' = NoTail

\* A write cut short, by a crash or a full disk: a fragment, or all but the
\* newline.
CutShort(line) == tail' \in {Torn} \union (IF tail = NoTail THEN {line} ELSE {})

\* An append that raises leaves nothing, or a write cut short.
AppendFails(kind, e) ==
  /\ UNCHANGED disk
  /\ \/ UNCHANGED tail
     \/ Tears /\ CutShort([kind |-> kind, entry |-> e])

\* What the file compact() writes rebuilds: its enqueue lines come first, then
\* the done keys, then a `parked' line per parked entry.
CompactedState ==
  [pending |-> pending \ parked, done |-> done,
   parked |-> parked \intersect pending,
   completed |-> Cardinality(done) + Cardinality(parked)]

-----------------------------------------------------------------------------
Init ==
  /\ disk = EmptyState /\ tail = NoTail /\ phase = "up"
  /\ pending = {} /\ done = {} /\ parked = {} /\ completed = 0
  /\ pc = [c \in Callers |-> "idle"] /\ arg = [c \in Callers |-> NoEntry]
  /\ dpc = [d \in Drainers |-> "idle"] /\ batch = [d \in Drainers |-> {}]
  /\ cur = [d \in Drainers |-> NoEntry]
  /\ image = EmptyState
  /\ repair = [pc |-> "idle", done |-> {}, todo |-> {}]
  /\ restarts = 0 /\ repairs = 0
  /\ fresh = Entry /\ handed = {} /\ requeued = {}
  /\ landed = [k \in Key |-> 0] /\ lostAck = [k \in Key |-> 0]

-----------------------------------------------------------------------------
(* enqueue, by any caller.  The three membership tests read three           *)
(* containers one after the other.                                          *)

CallerAt(c, from, to) == pc[c] = from /\ pc' = [pc EXCEPT ![c] = to]

\* Mutant of EnqueueCheckDone: the record is not carried to the next step.
EnqueueCheckDoneDropsRecord(c, e) ==
  /\ phase # "down" /\ pc[c] = "idle" /\ e \in fresh
  /\ fresh' = fresh \ {e}
  /\ pc' = IF KeyOf[e] \in done THEN pc ELSE [pc EXCEPT ![c] = "checkPending"]
  /\ UNCHANGED <<log, phase, memory, arg, drains, operator, restarts, handed, chain>>

EnqueueCheckDone(c, e) ==
  /\ phase # "down" /\ pc[c] = "idle" /\ e \in fresh
  /\ fresh' = fresh \ {e}
  /\ IF KeyOf[e] \in done THEN UNCHANGED callers
     ELSE /\ pc' = [pc EXCEPT ![c] = "checkPending"]
          /\ arg' = [arg EXCEPT ![c] = e]
  /\ UNCHANGED <<log, phase, memory, drains, operator, restarts, handed, chain>>

Holds(entries, k) == \E e \in entries : KeyOf[e] = k

EnqueueCheckPending(c) ==
  /\ CallerAt(c, "checkPending",
       IF Holds(pending, KeyOf[arg[c]]) THEN "idle" ELSE "checkParked")
  /\ UNCHANGED <<log, phase, memory, arg, drains, operator, restarts, fresh,
                 handed, chain>>

EnqueueCheckParked(c) ==
  /\ CallerAt(c, "checkParked",
       IF Holds(parked, KeyOf[arg[c]]) THEN "idle" ELSE "append")
  /\ UNCHANGED <<log, phase, memory, arg, drains, operator, restarts, fresh,
                 handed, chain>>

EnqueueAppend(c) ==
  /\ CallerAt(c, "append", "insert")
  /\ AppendLine("enqueue", arg[c])
  /\ UNCHANGED <<phase, memory, arg, drains, operator, restarts, fresh,
                 handed, chain>>

\* Looking through a table that another thread changes meanwhile raises, and so
\* does enqueue: the record was not handed over.
EnqueueRaises(c) ==
  /\ \/ pending # {} /\ CallerAt(c, "checkPending", "idle")
     \/ parked # {} /\ CallerAt(c, "checkParked", "idle")
  /\ UNCHANGED <<log, phase, memory, arg, drains, operator, restarts, fresh,
                 handed, chain>>

\* The append raises: likewise.
EnqueueFails(c) ==
  /\ DiskFaults
  /\ CallerAt(c, "append", "idle")
  /\ AppendFails("enqueue", arg[c])
  /\ UNCHANGED <<phase, memory, arg, drains, operator, restarts, fresh,
                 handed, chain>>

EnqueueInsert(c) ==
  /\ CallerAt(c, "insert", "idle")
  /\ pending' = pending \union {arg[c]}
  /\ handed' = handed \union {arg[c]}
  /\ UNCHANGED <<log, phase, done, parked, completed, arg, drains, operator,
                 restarts, fresh, chain>>

Enqueue(c) ==
  \/ \E e \in Entry : EnqueueCheckDone(c, e)
  \/ EnqueueCheckPending(c) \/ EnqueueCheckParked(c) \/ EnqueueRaises(c)
  \/ EnqueueAppend(c) \/ EnqueueFails(c) \/ EnqueueInsert(c)

-----------------------------------------------------------------------------
(* drain, on the worker thread ("loop") or at shutdown ("exit").            *)

DrainAt(d, from, to) == dpc[d] = from /\ dpc' = [dpc EXCEPT ![d] = to]
Smaller(m, n) == IF m <= n THEN m ELSE n

\* The loop drains while the server is up.  The lifespan handler drains once,
\* after cancelling the loop; a worker already inside drain runs on.
DrainBegin(d) ==
  /\ phase = IF d = "loop" THEN "up" ELSE "stopping"
  /\ DrainAt(d, "idle", "next")
  /\ \E b \in SUBSET pending :
       /\ Cardinality(b) = Smaller(Limit, Cardinality(pending))
       /\ batch' = [batch EXCEPT ![d] = b]
  /\ UNCHANGED <<log, phase, memory, callers, cur, image, operator, restarts,
                 fresh, handed, chain>>

\* next_attempt_at > now
DrainSkip(d, e) ==
  /\ dpc[d] = "next" /\ e \in batch[d]
  /\ batch' = [batch EXCEPT ![d] = batch[d] \ {e}]
  /\ UNCHANGED <<log, phase, memory, callers, dpc, cur, image, operator,
                 restarts, fresh, handed, chain>>

\* A due entry: dropped from memory if its key is done, else sent.
DrainTake(d, e) ==
  /\ e \in batch[d]
  /\ DrainAt(d, "next", IF KeyOf[e] \in done THEN "dropAppend" ELSE "submit")
  /\ batch' = [batch EXCEPT ![d] = batch[d] \ {e}]
  /\ cur' = [cur EXCEPT ![d] = e]
  /\ pending' = IF KeyOf[e] \in done THEN pending \ {e} ELSE pending
  /\ UNCHANGED <<log, phase, done, parked, completed, callers, image, operator,
                 restarts, fresh, handed, chain>>

DropAppend(d) ==
  /\ DrainAt(d, "dropAppend", "next")
  /\ AppendLine("sent", cur[d])
  /\ UNCHANGED <<phase, memory, callers, batch, cur, image, operator, restarts,
                 fresh, handed, chain>>

Land(k) ==
  /\ landed[k] < MaxCopies
  /\ landed' = [landed EXCEPT ![k] = landed[k] + 1]

SubmitOk(d) ==
  /\ DrainAt(d, "submit", "sentAppend")
  /\ Land(KeyOf[cur[d]])
  /\ UNCHANGED <<log, phase, memory, callers, batch, cur, image, operator,
                 restarts, fresh, handed, lostAck>>

\* Mutant of SubmitUnavailable: giving up on an entry completes it.
SubmitUnavailableCompletes(d) ==
  /\ GivesUp
  /\ DrainAt(d, "submit", "sentAppend")
  /\ UNCHANGED <<log, phase, memory, callers, batch, cur, image, operator,
                 restarts, fresh, handed, chain>>

\* AnchorUnavailable: _backoff, which parks after the last attempt.
SubmitUnavailable(d) ==
  /\ \E to \in {"next"} \union (IF GivesUp THEN {"parkAppend"} ELSE {}) :
       DrainAt(d, "submit", to)
  /\ UNCHANGED <<log, phase, memory, callers, batch, cur, image, operator,
                 restarts, fresh, handed, chain>>

\* wait_for_receipt raised though the transaction is mined, mostly by timing out.
\* That is reported as AnchorUnavailable, unless its text holds a permanent marker,
\* and the entry parked if so, or if it was the last attempt.
SubmitTimedOut(d) ==
  /\ Ambiguous
  /\ \E to \in {"next"} \union (IF GivesUp \/ Rejects THEN {"parkAppend"} ELSE {}) :
       DrainAt(d, "submit", to)
  /\ Land(KeyOf[cur[d]])
  /\ lostAck' = [lostAck EXCEPT ![KeyOf[cur[d]]] = @ + 1]
  /\ UNCHANGED <<log, phase, memory, callers, batch, cur, image, operator,
                 restarts, fresh, handed>>

\* Mutant of SubmitRejected: a refused entry is completed instead of parked.
SubmitRejectedCompletes(d) ==
  /\ Rejects
  /\ DrainAt(d, "submit", "sentAppend")
  /\ UNCHANGED <<log, phase, memory, callers, batch, cur, image, operator,
                 restarts, fresh, handed, chain>>

SubmitRejected(d) ==
  /\ Rejects
  /\ DrainAt(d, "submit", "parkAppend")
  /\ UNCHANGED <<log, phase, memory, callers, batch, cur, image, operator,
                 restarts, fresh, handed, chain>>

\* _complete: append, pop, mark.
SentAppend(d) ==
  /\ DrainAt(d, "sentAppend", "sentPop")
  /\ AppendLine("sent", cur[d])
  /\ UNCHANGED <<phase, memory, callers, batch, cur, image, operator, restarts,
                 fresh, handed, chain>>
SentPop(d) ==
  /\ DrainAt(d, "sentPop", "sentMark")
  /\ pending' = pending \ {cur[d]}
  /\ UNCHANGED <<log, phase, done, parked, completed, callers, batch, cur,
                 image, operator, restarts, fresh, handed, chain>>

\* Mutant of SentMark: the key is not marked done.
SentMarkForgetsKey(d) ==
  /\ DrainAt(d, "sentMark", "next")
  /\ completed' = completed + 1
  /\ UNCHANGED <<log, phase, pending, done, parked, callers, batch, cur, image,
                 operator, restarts, fresh, handed, chain>>

SentMark(d) ==
  /\ DrainAt(d, "sentMark", "next")
  /\ done' = done \union {KeyOf[cur[d]]}
  /\ completed' = completed + 1
  /\ UNCHANGED <<log, phase, pending, parked, callers, batch, cur, image,
                 operator, restarts, fresh, handed, chain>>

\* _park: append, pop, shelve.
ParkAppend(d) ==
  /\ DrainAt(d, "parkAppend", "parkPop")
  /\ AppendLine("parked", cur[d])
  /\ UNCHANGED <<phase, memory, callers, batch, cur, image, operator, restarts,
                 fresh, handed, chain>>

\* Mutant of ParkPop: a parked entry stays in _pending.
ParkPopKeeps(d) ==
  /\ DrainAt(d, "parkPop", "parkShelve")
  /\ UNCHANGED <<log, phase, memory, callers, batch, cur, image, operator,
                 restarts, fresh, handed, chain>>

ParkPop(d) ==
  /\ DrainAt(d, "parkPop", "parkShelve")
  /\ pending' = pending \ {cur[d]}
  /\ UNCHANGED <<log, phase, done, parked, completed, callers, batch, cur,
                 image, operator, restarts, fresh, handed, chain>>
ParkShelve(d) ==
  /\ DrainAt(d, "parkShelve", "next")
  /\ parked' = parked \union {cur[d]}
  /\ UNCHANGED <<log, phase, pending, done, completed, callers, batch, cur,
                 image, operator, restarts, fresh, handed, chain>>

\* An append inside drain raises: it is outside the try block around submit, so
\* the whole drain ends, and the loop skips maybe_compact.
Unrecorded(d) == dpc[d] = "sentAppend"
AppendSteps == {"dropAppend", "sentAppend", "parkAppend"}
LineOf(d) == IF dpc[d] = "parkAppend" THEN "parked" ELSE "sent"
DrainFails(d) ==
  /\ DiskFaults /\ dpc[d] \in AppendSteps
  /\ AppendFails(LineOf(d), cur[d])
  /\ dpc' = [dpc EXCEPT ![d] = IF d = "loop" THEN "idle" ELSE "over"]
  /\ batch' = [batch EXCEPT ![d] = {}]
  /\ lostAck' = IF Unrecorded(d) THEN [lostAck EXCEPT ![KeyOf[cur[d]]] = @ + 1]
                ELSE lostAck
  /\ UNCHANGED <<phase, memory, callers, cur, image, operator, restarts,
                 fresh, handed, landed>>

DrainEnd(d) ==
  /\ batch[d] = {}
  /\ DrainAt(d, "next", IF d = "loop" THEN "maybeCompact" ELSE "over")
  /\ UNCHANGED <<log, phase, memory, callers, batch, cur, image, operator,
                 restarts, fresh, handed, chain>>

\* maybe_compact, on the event loop, after the drain it awaited.  When the
\* server is stopping the loop's task has been cancelled.
CompactSkip ==
  /\ completed < Threshold \/ phase = "stopping"
  /\ DrainAt("loop", "maybeCompact", "idle")
  /\ UNCHANGED <<log, phase, memory, callers, batch, cur, image, operator,
                 restarts, fresh, handed, chain>>
CompactRead ==
  /\ phase = "up" /\ completed >= Threshold
  /\ DrainAt("loop", "maybeCompact", "replace")
  /\ image' = CompactedState
  /\ UNCHANGED <<log, phase, memory, callers, batch, cur, operator, restarts,
                 fresh, handed, chain>>
CompactReplace ==
  /\ DrainAt("loop", "replace", "idle")
  /\ disk' = image /\ tail' = NoTail
  /\ image' = EmptyState
  /\ completed' = 0
  /\ UNCHANGED <<phase, pending, done, parked, callers, batch, cur, operator,
                 restarts, fresh, handed, chain>>

\* compact raises, in looking through memory or in writing: the log stays.
CompactFails ==
  /\ DiskFaults /\ DrainAt("loop", "replace", "idle")
  /\ image' = EmptyState
  /\ UNCHANGED <<log, phase, memory, callers, batch, cur, operator, restarts,
                 fresh, handed, chain>>

Drain(d) ==
  \/ DrainBegin(d) \/ DrainEnd(d) \/ DrainFails(d)
  \/ \E e \in Entry : DrainSkip(d, e) \/ DrainTake(d, e)
  \/ DropAppend(d)
  \/ SubmitOk(d) \/ SubmitUnavailable(d) \/ SubmitTimedOut(d)
  \/ SubmitRejected(d)
  \/ SentAppend(d) \/ SentPop(d) \/ SentMark(d)
  \/ ParkAppend(d) \/ ParkPop(d) \/ ParkShelve(d)
Compact == CompactSkip \/ CompactRead \/ CompactReplace \/ CompactFails

-----------------------------------------------------------------------------
(* repair_parked.py: loads the file, then requeue_parked entry by entry.    *)
(* It may run while the server is down or beside it.                        *)

RepairLoad ==
  /\ repair.pc = "idle" /\ repairs < MaxRepairs
  /\ repairs' = repairs + 1
  /\ repair' = [pc |-> "requeue", done |-> Load.done, todo |-> Load.parked]
  /\ UNCHANGED <<log, phase, memory, callers, drains, requeued, restarts,
                 fresh, handed, chain>>
RequeueDrop(e) ==
  /\ repair.pc = "requeue" /\ e \in repair.todo /\ KeyOf[e] \in repair.done
  /\ repair' = [repair EXCEPT !.todo = repair.todo \ {e}]
  /\ UNCHANGED <<log, phase, memory, callers, drains, repairs, requeued,
                 restarts, fresh, handed, chain>>
RequeueAppend(e) ==
  /\ repair.pc = "requeue" /\ e \in repair.todo /\ KeyOf[e] \notin repair.done
  /\ AppendLine("enqueue", e)
  /\ requeued' = requeued \union {e}
  /\ repair' = [repair EXCEPT !.todo = repair.todo \ {e}]
  /\ UNCHANGED <<phase, memory, callers, drains, repairs, restarts, fresh,
                 handed, chain>>
\* The append raises, and the script ends.
RequeueFails(e) ==
  /\ DiskFaults
  /\ repair.pc = "requeue" /\ e \in repair.todo /\ KeyOf[e] \notin repair.done
  /\ AppendFails("enqueue", e)
  /\ requeued' = IF tail' = tail THEN requeued ELSE requeued \union {e}
  /\ repair' = [pc |-> "idle", done |-> {}, todo |-> {}]
  /\ UNCHANGED <<phase, memory, callers, drains, repairs, restarts, fresh,
                 handed, chain>>
RepairExit ==
  /\ repair.pc = "requeue" /\ repair.todo = {}
  /\ repair' = [pc |-> "idle", done |-> {}, todo |-> {}]
  /\ UNCHANGED <<log, phase, memory, callers, drains, repairs, requeued,
                 restarts, fresh, handed, chain>>
Repair == \/ RepairLoad \/ RepairExit
          \/ \E e \in Entry : RequeueDrop(e) \/ RequeueAppend(e) \/ RequeueFails(e)

-----------------------------------------------------------------------------
(* The server's process.                                                    *)

\* The lines being written at this moment, one per thread in an append.
Writing ==
  {[kind |-> "enqueue", entry |-> arg[c]] : c \in {x \in Callers : pc[x] = "append"}}
    \union
  {[kind |-> LineOf(d), entry |-> cur[d]]
     : d \in {x \in Drainers : dpc[x] \in AppendSteps}}

Stopped ==
  /\ phase' = "down"
  /\ pending' = {} /\ done' = {} /\ parked' = {} /\ completed' = 0
  /\ pc' = [c \in Callers |-> "idle"] /\ arg' = [c \in Callers |-> NoEntry]
  /\ dpc' = [d \in Drainers |-> "idle"] /\ batch' = [d \in Drainers |-> {}]
  /\ cur' = [d \in Drainers |-> NoEntry] /\ image' = EmptyState
  /\ UNCHANGED <<disk, operator, restarts, fresh, handed, landed>>

\* Keys whose success the crash keeps from being written down.  The line of a
\* `sent' append that the crash cut before its newline still counts as lost.
LostNow(k) == Cardinality({d \in Drainers : Unrecorded(d) /\ KeyOf[cur[d]] = k})

Crash ==
  /\ phase # "down" /\ restarts < MaxRestarts
  /\ Stopped
  /\ \/ UNCHANGED tail
     \/ Tears /\ \E line \in Writing : CutShort(line)
  /\ lostAck' = [k \in Key |-> lostAck[k] + LostNow(k)]

\* The lifespan handler's finally, on the event loop, where compact() runs to
\* its end; the process exits once its worker threads have.
Stop ==
  /\ Graceful /\ phase = "up" /\ phase' = "stopping"
  /\ dpc["loop"] # "replace"
  /\ UNCHANGED <<log, memory, callers, drains, operator, restarts, fresh,
                 handed, chain>>
Exit ==
  /\ phase = "stopping" /\ restarts < MaxRestarts
  /\ dpc["exit"] = "over" /\ dpc["loop"] = "idle"
  /\ \A c \in Callers : pc[c] = "idle"
  /\ Stopped /\ UNCHANGED <<tail, lostAck>>

Start ==
  /\ phase = "down" /\ phase' = "up"
  /\ restarts' = restarts + 1
  /\ pending' = Load.pending /\ done' = Load.done /\ parked' = Load.parked
  /\ completed' = Load.completed
  /\ UNCHANGED <<log, callers, drains, operator, fresh, handed, chain>>

Server == Crash \/ Stop \/ Exit \/ Start

Next ==
  \/ \E c \in Callers : Enqueue(c)
  \/ \E d \in Drainers : Drain(d)
  \/ Compact
  \/ Repair
  \/ Server

Spec == Init /\ [][Next]_vars

-----------------------------------------------------------------------------
(* Properties.                                                              *)

Steps == {"idle", "checkPending", "checkParked", "append", "insert"}
DrainSteps == {"idle", "next", "dropAppend", "submit", "sentAppend", "sentPop",
  "sentMark", "parkAppend", "parkPop", "parkShelve", "maybeCompact", "replace",
  "over"}

\* Every variable holds a value of its type.
TypeOK ==
  /\ disk \in State /\ tail \in Line \union {NoTail, Torn}
  /\ phase \in {"down", "up", "stopping"}
  /\ pending \subseteq Entry /\ done \subseteq Key /\ parked \subseteq Entry
  /\ completed \in Nat
  /\ pc \in [Callers -> Steps] /\ arg \in [Callers -> Entry \union {NoEntry}]
  /\ \A c \in Callers : pc[c] # "idle" => arg[c] \in Entry
  /\ dpc \in [Drainers -> DrainSteps] /\ batch \in [Drainers -> SUBSET Entry]
  /\ cur \in [Drainers -> Entry \union {NoEntry}]
  /\ \A d \in Drainers : cur[d] \notin Entry =>
       dpc[d] \in {"idle", "next", "maybeCompact", "replace", "over"}
  /\ image \in State
  /\ repair \in [pc : {"idle", "requeue"}, done : SUBSET Key, todo : SUBSET Entry]
  /\ restarts \in Nat /\ repairs \in Nat
  /\ fresh \subseteq Entry /\ handed \subseteq Entry /\ requeued \subseteq Entry
  /\ landed \in [Key -> Nat] /\ lostAck \in [Key -> Nat]

\* outbox.py: "a record that has been handed to the outbox is never lost".
\* Whatever enqueue returned is, at every moment, something a restart would
\* still find: waiting, parked, or anchored.
Kept(s, e) == e \in s.pending \union s.parked \/ KeyOf[e] \in s.done
HandedNeverLost == \A e \in handed : Kept(Load, e)

\* Nothing counts as anchored, in memory or after any restart, that is not on
\* the chain: the queue never forgives itself an entry.
DoneHasLanded == \A k \in done \union Load.done : landed[k] > 0

\* Each record of a key on the chain beyond the first is explained by a landed
\* submission whose `sent' line was never written; the races of enqueue,
\* requeue and replay add none.
NoUnexplainedCopy == \A k \in Key : landed[k] <= 1 + lostAck[k]

\* With no call in progress, a restart changes nothing but what the operator
\* put back: it brings back every unfinished entry and no other.
AtRest == /\ phase = "up"
          /\ \A c \in Callers : pc[c] = "idle"
          /\ \A d \in Drainers : dpc[d] = "idle"
Unfinished(entries) == {e \in entries : KeyOf[e] \notin done}
RestartChangesNothing ==
  AtRest => /\ Load.done = done
            /\ Unfinished(pending) \subseteq Load.pending
            /\ Unfinished(Load.pending) \subseteq pending \union requeued
            /\ Load.parked \subseteq parked
            /\ Unfinished(parked) \subseteq Load.parked

\* A compaction that loses nothing: memory is still what it was when it was
\* read, no enqueue has appended and not yet inserted, and no parked entry waits
\* to be put back.
CleanCompaction ==
  CompactReplace =>
    /\ image = CompactedState
    /\ \A c \in Callers : pc[c] # "insert"
    /\ Unfinished(parked) = {}

\* A shutdown that finds no worker inside a drain, so that the final drain is
\* alone.
LoneShutdown == Stop => dpc["loop"] = "idle"

\* outbox.py: parked entries are "counted, and never retried automatically":
\* what is about to be submitted is not in the parked count, unless the operator
\* put it back.
ParkedNeverSubmitted ==
  \A d \in Drainers : dpc[d] = "submit" => cur[d] \notin parked \ requeued

\* The promise the outbox makes, of keys, whatever happens inside.
Keys(entries) == {KeyOf[e] : e \in entries}
Promise == INSTANCE OutboxPromise WITH
  owed <- Keys(Load.pending \union Load.parked) \union Load.done,
  settled <- Load.done,
  copies <- landed
KeepsPromise == Promise!Spec
=============================================================================
