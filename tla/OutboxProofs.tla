---------------------------- MODULE OutboxProofs ----------------------------
(***************************************************************************)
(* Theorems about Outbox, for any entries, keys, callers and bounds.        *)
(*                                                                          *)
(* Where the code does not keep a promise, a theorem says when it does: while *)
(* no line is torn (~Tears), every compaction is clean (CleanCompaction), and *)
(* every shutdown finds no worker inside a drain (LoneShutdown).             *)
(***************************************************************************)
EXTENDS Outbox, FiniteSetTheorems, TLAPS

-----------------------------------------------------------------------------
(* Facts about the log.                                                     *)

LEMMA TailsDiffer == NoTail \notin Line /\ Torn \notin Line
BY DEF NoTail, Torn, Line, LineKinds

LEMMA ReplayType ==
  ASSUME NEW s \in State, NEW line \in Line
  PROVE  Replay(s, line) \in State
<1> USE EntriesAssumption
<1>1. CASE line.kind = "enqueue"
  BY <1>1 DEF Replay, ReplayEnqueue, State, Line
<1>2. CASE line.kind = "sent"
  BY <1>2 DEF Replay, ReplaySent, State, Line
<1>3. CASE line.kind = "parked"
  BY <1>3 DEF Replay, ReplayParked, State, Line
<1>. QED BY <1>1, <1>2, <1>3 DEF Line, LineKinds

LEMMA LoadType == TypeOK => Load \in State
BY ReplayType DEF TypeOK, Load

LEMMA AppendLineType ==
  ASSUME TypeOK, NEW kind \in LineKinds, NEW e \in Entry, AppendLine(kind, e)
  PROVE  disk' \in State /\ tail' \in Line \union {NoTail, Torn}
<1>1. [kind |-> kind, entry |-> e] \in Line
  BY DEF Line
<1>. QED BY <1>1, ReplayType DEF AppendLine, TypeOK

LEMMA AppendFailsType ==
  ASSUME TypeOK, NEW kind \in LineKinds, NEW e \in Entry, AppendFails(kind, e)
  PROVE  disk' \in State /\ tail' \in Line \union {NoTail, Torn}
<1>1. [kind |-> kind, entry |-> e] \in Line
  BY DEF Line
<1>. QED BY <1>1 DEF AppendFails, CutShort, TypeOK

LEMMA CompactedStateType == TypeOK => CompactedState \in State
<1>. SUFFICES ASSUME TypeOK PROVE CompactedState \in State
  OBVIOUS
<1>1. IsFiniteSet(done) /\ IsFiniteSet(parked)
  BY EntriesAssumption, FS_Subset DEF TypeOK
<1>2. Cardinality(done) \in Nat /\ Cardinality(parked) \in Nat
  BY <1>1, FS_CardinalityType
<1>. QED BY <1>2 DEF CompactedState, State, TypeOK

LEMMA LostNowType == \A k \in Key : LostNow(k) \in Nat
<1>. TAKE k \in Key
<1>1. IsFiniteSet(Drainers)
  <2>1. IsFiniteSet({"loop"})
    BY FS_Singleton
  <2>2. IsFiniteSet({"loop"} \union {"exit"})
    BY <2>1, FS_AddElement
  <2>. QED BY <2>2 DEF Drainers
<1>2. IsFiniteSet({d \in Drainers : Unrecorded(d) /\ KeyOf[cur[d]] = k})
  BY <1>1, FS_Subset
<1>. QED BY <1>2, FS_CardinalityType DEF LostNow

-----------------------------------------------------------------------------
(* Type correctness.                                                        *)

LEMMA InitType == Init => TypeOK
BY DEF Init, TypeOK, EmptyState, State, Steps, DrainSteps

LEMMA EnqueueType ==
  ASSUME TypeOK, NEW c \in Callers, Enqueue(c)
  PROVE  TypeOK'
<1> USE DEF TypeOK, log, memory, callers, drains, operator, chain, Steps
<1>1. ASSUME NEW e \in Entry, EnqueueCheckDone(c, e) PROVE TypeOK'
  BY <1>1 DEF EnqueueCheckDone
<1>2. CASE EnqueueCheckPending(c)
  BY <1>2 DEF EnqueueCheckPending, CallerAt
<1>3. CASE EnqueueCheckParked(c) \/ EnqueueRaises(c)
  BY <1>3 DEF EnqueueCheckParked, EnqueueRaises, CallerAt
<1>4. CASE EnqueueAppend(c)
  <2>1. arg[c] \in Entry
    BY <1>4 DEF EnqueueAppend, CallerAt
  <2>2. disk' \in State /\ tail' \in Line \union {NoTail, Torn}
    BY <1>4, <2>1, AppendLineType DEF EnqueueAppend, LineKinds
  <2>. QED BY <1>4, <2>1, <2>2 DEF EnqueueAppend, CallerAt
<1>5. CASE EnqueueFails(c)
  <2>1. arg[c] \in Entry
    BY <1>5 DEF EnqueueFails, CallerAt
  <2>2. disk' \in State /\ tail' \in Line \union {NoTail, Torn}
    BY <1>5, <2>1, AppendFailsType DEF EnqueueFails, LineKinds
  <2>. QED BY <1>5, <2>1, <2>2 DEF EnqueueFails, CallerAt
<1>6. CASE EnqueueInsert(c)
  BY <1>6 DEF EnqueueInsert, CallerAt
<1>. QED BY <1>1, <1>2, <1>3, <1>4, <1>5, <1>6 DEF Enqueue

LEMMA DrainType ==
  ASSUME TypeOK, NEW d \in Drainers, Drain(d)
  PROVE  TypeOK'
<1> USE EntriesAssumption
<1> USE DEF TypeOK, log, memory, callers, drains, operator, chain, DrainSteps
<1>1. CASE DrainBegin(d)
  BY <1>1 DEF DrainBegin, DrainAt
<1>2. CASE DrainEnd(d)
  BY <1>2 DEF DrainEnd, DrainAt
<1>3. CASE DrainFails(d)
  <2>1. cur[d] \in Entry /\ LineOf(d) \in LineKinds
    BY <1>3 DEF DrainFails, AppendSteps, LineOf, LineKinds
  <2>2. disk' \in State /\ tail' \in Line \union {NoTail, Torn}
    BY <1>3, <2>1, AppendFailsType DEF DrainFails
  <2>. QED BY <1>3, <2>1, <2>2 DEF DrainFails
<1>4. ASSUME NEW e \in Entry, DrainSkip(d, e) PROVE TypeOK'
  BY <1>4 DEF DrainSkip
<1>5. ASSUME NEW e \in Entry, DrainTake(d, e) PROVE TypeOK'
  BY <1>5 DEF DrainTake, DrainAt
<1>6. CASE DropAppend(d) \/ SentAppend(d) \/ ParkAppend(d)
  <2>1. cur[d] \in Entry
    BY <1>6 DEF DropAppend, SentAppend, ParkAppend, DrainAt
  <2>2. disk' \in State /\ tail' \in Line \union {NoTail, Torn}
    BY <1>6, <2>1, AppendLineType
       DEF DropAppend, SentAppend, ParkAppend, LineKinds
  <2>. QED BY <1>6, <2>1, <2>2 DEF DropAppend, SentAppend, ParkAppend, DrainAt
<1>7. CASE SubmitOk(d) \/ SubmitTimedOut(d)
  BY <1>7 DEF SubmitOk, SubmitTimedOut, Land, DrainAt
<1>8. CASE SubmitUnavailable(d) \/ SubmitRejected(d)
  BY <1>8 DEF SubmitUnavailable, SubmitRejected, DrainAt
<1>9. CASE SentPop(d) \/ SentMark(d) \/ ParkPop(d) \/ ParkShelve(d)
  BY <1>9 DEF SentPop, SentMark, ParkPop, ParkShelve, DrainAt
<1>. QED BY <1>1, <1>2, <1>3, <1>4, <1>5, <1>6, <1>7, <1>8, <1>9 DEF Drain

LEMMA CompactType ==
  ASSUME TypeOK, Compact
  PROVE  TypeOK'
<1> USE DEF TypeOK, log, memory, callers, drains, operator, chain, DrainSteps
<1>1. CASE CompactSkip \/ CompactFails
  BY <1>1 DEF CompactSkip, CompactFails, DrainAt, EmptyState, State
<1>2. CASE CompactRead
  BY <1>2, CompactedStateType DEF CompactRead, DrainAt
<1>3. CASE CompactReplace
  BY <1>3 DEF CompactReplace, DrainAt, EmptyState, State
<1>. QED BY <1>1, <1>2, <1>3 DEF Compact

LEMMA RepairType ==
  ASSUME TypeOK, Repair
  PROVE  TypeOK'
<1> USE DEF TypeOK, log, memory, callers, drains, operator, chain
<1>1. CASE RepairLoad
  BY <1>1, LoadType DEF RepairLoad, State
<1>2. CASE RepairExit
  BY <1>2 DEF RepairExit
<1>3. ASSUME NEW e \in Entry, RequeueDrop(e) PROVE TypeOK'
  BY <1>3 DEF RequeueDrop
<1>4. ASSUME NEW e \in Entry, RequeueAppend(e) PROVE TypeOK'
  <2>1. disk' \in State /\ tail' \in Line \union {NoTail, Torn}
    BY <1>4, AppendLineType DEF RequeueAppend, LineKinds
  <2>. QED BY <1>4, <2>1 DEF RequeueAppend
<1>5. ASSUME NEW e \in Entry, RequeueFails(e) PROVE TypeOK'
  <2>1. disk' \in State /\ tail' \in Line \union {NoTail, Torn}
    BY <1>5, AppendFailsType DEF RequeueFails, LineKinds
  <2>. QED BY <1>5, <2>1 DEF RequeueFails
<1>. QED BY <1>1, <1>2, <1>3, <1>4, <1>5 DEF Repair

\* Every line that is being written is a line.
LEMMA WritingType == TypeOK => Writing \subseteq Line
BY DEF TypeOK, Writing, AppendSteps, LineOf, Line, LineKinds

LEMMA StoppedType ==
  ASSUME TypeOK, Stopped,
         tail' \in Line \union {NoTail, Torn}, lostAck' \in [Key -> Nat]
  PROVE  TypeOK'
BY DEF TypeOK, Stopped, operator, EmptyState, State, Steps, DrainSteps

LEMMA ServerType ==
  ASSUME TypeOK, Server
  PROVE  TypeOK'
<1>1. CASE Crash
  <2>1. tail' \in Line \union {NoTail, Torn}
    BY <1>1, WritingType DEF Crash, CutShort, TypeOK
  <2>2. lostAck' \in [Key -> Nat]
    BY <1>1, LostNowType DEF Crash, TypeOK
  <2>. QED BY <1>1, <2>1, <2>2, StoppedType DEF Crash
<1>2. CASE Stop
  BY <1>2 DEF Stop, TypeOK, log, memory, callers, drains, operator, chain
<1>3. CASE Exit
  BY <1>3, StoppedType DEF Exit, TypeOK
<1>4. CASE Start
  BY <1>4, LoadType
     DEF Start, TypeOK, State, log, callers, drains, operator, chain
<1>. QED BY <1>1, <1>2, <1>3, <1>4 DEF Server

LEMMA StutterType == TypeOK /\ UNCHANGED vars => TypeOK'
BY DEF TypeOK, vars, log, memory, callers, drains, operator, chain

\* The outbox's variables, in memory and rebuilt from the log, always have
\* their types (outbox.py, all of it).
THEOREM TypeCorrect == Spec => []TypeOK
<1>1. TypeOK /\ [Next]_vars => TypeOK'
  BY EnqueueType, DrainType, CompactType, RepairType, ServerType, StutterType
     DEF Next
<1>. QED BY InitType, <1>1, PTL DEF Spec

-----------------------------------------------------------------------------
(* What counts as anchored is on the chain.                                 *)

\* A key whose success is recorded, or about to be, has a record: in memory, in
\* the log and its tail, in the image compact() holds, and in a drain's hands.
LandedInv ==
  /\ \A k \in done \union disk.done \union image.done : landed[k] > 0
  /\ tail \in Line /\ tail.kind = "sent" => landed[KeyOf[tail.entry]] > 0
  /\ \A d \in Drainers :
       dpc[d] \in {"dropAppend", "sentAppend", "sentPop", "sentMark"}
         => landed[KeyOf[cur[d]]] > 0

LEMMA ReplayDone ==
  ASSUME NEW s, NEW line
  PROVE  Replay(s, line).done =
           IF line.kind = "sent" THEN s.done \union {KeyOf[line.entry]} ELSE s.done
BY DEF Replay, ReplayEnqueue, ReplaySent, ReplayParked

LEMMA LoadDone ==
  ASSUME TypeOK, LandedInv
  PROVE  \A k \in Load.done : landed[k] > 0
BY ReplayDone DEF LandedInv, Load

\* An append leaves the keys done, and its own if it is a `sent' line.
LEMMA AppendLineDone ==
  ASSUME TypeOK, NEW kind \in LineKinds, NEW e \in Entry, AppendLine(kind, e)
  PROVE  /\ tail' = NoTail
         /\ \A k \in disk'.done :
              k \in disk.done \/ (kind = "sent" /\ k = KeyOf[e])
<1>1. [kind |-> kind, entry |-> e].kind = kind /\ [kind |-> kind, entry |-> e].entry = e
  OBVIOUS
<1>. QED BY <1>1, ReplayDone DEF AppendLine

LEMMA LandedInit == Init => LandedInv
BY TailsDiffer DEF Init, LandedInv, EmptyState

LEMMA LandedEnqueue ==
  ASSUME TypeOK, LandedInv, NEW c \in Callers, Enqueue(c)
  PROVE  LandedInv'
<1> USE DEF LandedInv, log, memory, callers, drains, operator, chain
<1>1. CASE \E e \in Entry : EnqueueCheckDone(c, e)
  BY <1>1 DEF EnqueueCheckDone
<1>2. CASE EnqueueCheckPending(c) \/ EnqueueCheckParked(c) \/ EnqueueRaises(c) \/ EnqueueInsert(c)
  BY <1>2 DEF EnqueueCheckPending, EnqueueCheckParked, EnqueueRaises, EnqueueInsert
<1>3. CASE EnqueueAppend(c)
  <2>1. arg[c] \in Entry
    BY <1>3 DEF EnqueueAppend, CallerAt, TypeOK
  <2>2. tail' = NoTail /\ disk'.done \subseteq disk.done
    BY <1>3, <2>1, AppendLineDone DEF EnqueueAppend, LineKinds
  <2>. QED BY <1>3, <2>2, TailsDiffer DEF EnqueueAppend
<1>4. CASE EnqueueFails(c)
  <2>1. disk' = disk
    BY <1>4 DEF EnqueueFails, AppendFails
  <2>2. \/ tail' = tail
        \/ tail' = Torn
        \/ tail' = [kind |-> "enqueue", entry |-> arg[c]]
    BY <1>4 DEF EnqueueFails, AppendFails, CutShort
  <2>. QED BY <1>4, <2>1, <2>2, TailsDiffer DEF EnqueueFails
<1>. QED BY <1>1, <1>2, <1>3, <1>4 DEF Enqueue

LEMMA LandedDrain ==
  ASSUME TypeOK, LandedInv, NEW d \in Drainers, Drain(d)
  PROVE  LandedInv'
<1> USE EntriesAssumption
<1> USE DEF LandedInv, log, memory, callers, drains, operator, chain
<1>1. CASE DrainBegin(d) \/ DrainEnd(d)
  BY <1>1 DEF DrainBegin, DrainEnd, DrainAt, TypeOK
<1>2. CASE DrainFails(d)
  <2>1. disk' = disk
    BY <1>2 DEF DrainFails, AppendFails
  <2>2. \/ tail' = tail
        \/ tail' = Torn
        \/ tail' = [kind |-> LineOf(d), entry |-> cur[d]]
    BY <1>2 DEF DrainFails, AppendFails, CutShort
  <2>3. LineOf(d) = "sent" => landed[KeyOf[cur[d]]] > 0
    BY <1>2 DEF DrainFails, LineOf, AppendSteps
  <2>. QED BY <1>2, <2>1, <2>2, <2>3, TailsDiffer DEF DrainFails, TypeOK
<1>3. CASE \E e \in Entry : DrainSkip(d, e)
  BY <1>3 DEF DrainSkip
<1>4. CASE \E e \in Entry : DrainTake(d, e)
  BY <1>4 DEF DrainTake, DrainAt, TypeOK
<1>5. CASE DropAppend(d) \/ SentAppend(d) \/ ParkAppend(d)
  <2>1. cur[d] \in Entry
    BY <1>5 DEF DropAppend, SentAppend, ParkAppend, DrainAt, TypeOK, DrainSteps
  <2>2. PICK kind \in LineKinds : /\ AppendLine(kind, cur[d])
                                  /\ kind = "sent" => ~ ParkAppend(d)
    BY <1>5 DEF DropAppend, SentAppend, ParkAppend, LineKinds, DrainAt
  <2>3. /\ tail' = NoTail
        /\ \A k \in disk'.done :
             k \in disk.done \/ (kind = "sent" /\ k = KeyOf[cur[d]])
    BY <2>1, <2>2, AppendLineDone
  <2>4. kind = "sent" => landed[KeyOf[cur[d]]] > 0
    BY <1>5, <2>2 DEF DropAppend, SentAppend, DrainAt
  <2>. QED BY <1>5, <2>3, <2>4, TailsDiffer
           DEF DropAppend, SentAppend, ParkAppend, DrainAt, TypeOK
<1>6. CASE SubmitOk(d) \/ SubmitTimedOut(d)
  <2>1. cur[d] \in Entry
    BY <1>6 DEF SubmitOk, SubmitTimedOut, DrainAt, TypeOK, DrainSteps
  <2>2. /\ landed'[KeyOf[cur[d]]] > 0
        /\ \A k \in Key : landed[k] > 0 => landed'[k] > 0
    BY <1>6, <2>1 DEF SubmitOk, SubmitTimedOut, Land, TypeOK
  <2>3. /\ disk' = disk /\ tail' = tail /\ done' = done /\ image' = image
        /\ cur' = cur
        /\ \E to \in {"sentAppend", "next", "parkAppend"} : dpc' = [dpc EXCEPT ![d] = to]
    BY <1>6 DEF SubmitOk, SubmitTimedOut, DrainAt
  <2>4. \A k \in done' \union disk'.done \union image'.done : landed'[k] > 0
    BY <2>2, <2>3 DEF TypeOK, State
  <2>5. tail' \in Line /\ tail'.kind = "sent" => landed'[KeyOf[tail'.entry]] > 0
    BY <2>2, <2>3 DEF Line
  <2>6. ASSUME NEW x \in Drainers,
               dpc'[x] \in {"dropAppend", "sentAppend", "sentPop", "sentMark"}
        PROVE  landed'[KeyOf[cur'[x]]] > 0
    <3>1. CASE x = d
      BY <3>1, <2>2, <2>3
    <3>2. CASE x # d
      <4>1. dpc[x] \in {"dropAppend", "sentAppend", "sentPop", "sentMark"}
        BY <3>2, <2>3, <2>6 DEF TypeOK
      <4>2. cur[x] \in Entry
        BY <4>1 DEF TypeOK
      <4>. QED BY <4>1, <4>2, <2>2, <2>3
    <3>. QED BY <3>1, <3>2
  <2>. QED BY <2>4, <2>5, <2>6
<1>7. CASE SubmitUnavailable(d) \/ SubmitRejected(d)
  BY <1>7 DEF SubmitUnavailable, SubmitRejected, DrainAt, TypeOK
<1>8. CASE SentPop(d) \/ SentMark(d) \/ ParkPop(d) \/ ParkShelve(d)
  BY <1>8 DEF SentPop, SentMark, ParkPop, ParkShelve, DrainAt, TypeOK
<1>. QED BY <1>1, <1>2, <1>3, <1>4, <1>5, <1>6, <1>7, <1>8 DEF Drain

LEMMA LandedCompact ==
  ASSUME TypeOK, LandedInv, Compact
  PROVE  LandedInv'
<1> USE DEF LandedInv, log, memory, callers, drains, operator, chain
<1>1. CASE CompactSkip \/ CompactFails
  BY <1>1 DEF CompactSkip, CompactFails, DrainAt, EmptyState, TypeOK
<1>2. CASE CompactRead
  BY <1>2 DEF CompactRead, CompactedState, DrainAt, TypeOK
<1>3. CASE CompactReplace
  BY <1>3, TailsDiffer DEF CompactReplace, DrainAt, EmptyState, TypeOK
<1>. QED BY <1>1, <1>2, <1>3 DEF Compact

LEMMA LandedRepair ==
  ASSUME TypeOK, LandedInv, Repair
  PROVE  LandedInv'
<1> USE DEF LandedInv, log, memory, callers, drains, operator, chain
<1>1. CASE RepairLoad \/ RepairExit \/ \E e \in Entry : RequeueDrop(e)
  BY <1>1 DEF RepairLoad, RepairExit, RequeueDrop
<1>2. ASSUME NEW e \in Entry, RequeueAppend(e) PROVE LandedInv'
  <2>1. tail' = NoTail /\ disk'.done \subseteq disk.done
    BY <1>2, AppendLineDone DEF RequeueAppend, LineKinds
  <2>. QED BY <1>2, <2>1, TailsDiffer DEF RequeueAppend
<1>3. ASSUME NEW e \in Entry, RequeueFails(e) PROVE LandedInv'
  <2>1. disk' = disk
    BY <1>3 DEF RequeueFails, AppendFails
  <2>2. \/ tail' = tail
        \/ tail' = Torn
        \/ tail' = [kind |-> "enqueue", entry |-> e]
    BY <1>3 DEF RequeueFails, AppendFails, CutShort
  <2>. QED BY <1>3, <2>1, <2>2, TailsDiffer DEF RequeueFails
<1>. QED BY <1>1, <1>2, <1>3 DEF Repair

LEMMA LandedStopped ==
  ASSUME TypeOK, LandedInv, Stopped,
         tail' \in Line /\ tail'.kind = "sent" => landed[KeyOf[tail'.entry]] > 0
  PROVE  LandedInv'
BY DEF LandedInv, Stopped, EmptyState

LEMMA LandedServer ==
  ASSUME TypeOK, LandedInv, Server
  PROVE  LandedInv'
<1>1. CASE Crash
  <2>1. \A line \in Writing : line.kind = "sent" => landed[KeyOf[line.entry]] > 0
    BY DEF Writing, LandedInv, AppendSteps, LineOf
  <2>2. tail' = tail \/ tail' = Torn \/ tail' \in Writing
    BY <1>1 DEF Crash, CutShort
  <2>. QED BY <1>1, <2>1, <2>2, TailsDiffer, LandedStopped DEF Crash, LandedInv
<1>2. CASE Stop
  BY <1>2 DEF Stop, LandedInv, log, memory, callers, drains, operator, chain
<1>3. CASE Exit
  BY <1>3, LandedStopped DEF Exit, LandedInv
<1>4. CASE Start
  BY <1>4, LoadDone
     DEF Start, LandedInv, log, callers, drains, operator, chain
<1>. QED BY <1>1, <1>2, <1>3, <1>4 DEF Server

LEMMA LandedHolds == Spec => []LandedInv
<1>1. TypeOK /\ LandedInv /\ [Next]_vars => LandedInv'
  <2> SUFFICES ASSUME TypeOK, LandedInv, [Next]_vars PROVE LandedInv'
    OBVIOUS
  <2>1. CASE UNCHANGED vars
    BY <2>1 DEF LandedInv, vars, log, memory, callers, drains, operator, chain
  <2>. QED BY <2>1, LandedEnqueue, LandedDrain, LandedCompact, LandedRepair,
              LandedServer DEF Next
<1>. QED BY LandedInit, <1>1, TypeCorrect, PTL DEF Spec

\* Nothing the outbox believes anchored is missing from the chain, whatever
\* crashes, torn lines, failed appends, compactions and concurrent drains do
\* (_complete writes `sent' only after submit returned; drain drops only what
\* is done).
THEOREM DoneLanded == Spec => []DoneHasLanded
<1>1. TypeOK /\ LandedInv => DoneHasLanded
  BY LoadDone DEF DoneHasLanded, LandedInv
<1>. QED BY <1>1, LandedHolds, TypeCorrect, PTL

-----------------------------------------------------------------------------
(* What was handed over is kept.                                            *)

\* Kept is inductive only together with the enqueues that have appended and not
\* yet inserted; without torn lines the log has no tail.
KeptInv ==
  /\ tail = NoTail
  /\ \A e \in handed : Kept(disk, e)
  /\ \A c \in Callers : pc[c] = "insert" => Kept(disk, arg[c])

\* What a compaction finds in memory: whatever enqueue returned, unless the loop
\* has popped it and not yet marked or shelved it.
InMemory(e) ==
  \/ e \in pending \union parked \/ KeyOf[e] \in done
  \/ e = cur["loop"] /\ dpc["loop"] \in {"sentMark", "parkShelve"}
MemoryInv ==
  /\ phase # "stopping" => dpc["exit"] = "idle"
  /\ phase = "down" => dpc["loop"] = "idle"
  /\ dpc["loop"] = "replace" => phase = "up"
  /\ phase = "up" => \A e \in handed : InMemory(e)

LEMMA ReplayKeeps ==
  ASSUME NEW s, NEW line, NEW e, Kept(s, e)
  PROVE  Kept(Replay(s, line), e)
BY DEF Kept, Replay, ReplayEnqueue, ReplaySent, ReplayParked

LEMMA ReplayEnqueueKeeps ==
  ASSUME NEW s, NEW e
  PROVE  Kept(Replay(s, [kind |-> "enqueue", entry |-> e]), e)
BY DEF Kept, Replay, ReplayEnqueue

\* Any append keeps what the log kept.
LEMMA AppendLineKeeps ==
  ASSUME KeptInv, NEW kind, NEW e, AppendLine(kind, e)
  PROVE  /\ tail' = NoTail
         /\ \A x : Kept(disk, x) => Kept(disk', x)
         /\ kind = "enqueue" => Kept(disk', e)
BY ReplayKeeps, ReplayEnqueueKeeps DEF AppendLine, KeptInv

LEMMA MemoryNext ==
  ASSUME TypeOK, KeptInv, MemoryInv, Next
  PROVE  MemoryInv'
<1> USE DEF log, memory, callers, drains, operator, chain
<1>1. ASSUME NEW c \in Callers, Enqueue(c) PROVE MemoryInv'
  <2>1. /\ UNCHANGED <<phase, dpc, cur, done, parked>>
        /\ pending \subseteq pending' /\ handed' \subseteq handed \union pending'
    BY <1>1 DEF Enqueue, EnqueueCheckDone, EnqueueCheckPending, EnqueueCheckParked, EnqueueRaises,
                EnqueueAppend, EnqueueFails, EnqueueInsert
  <2>. QED BY <2>1 DEF MemoryInv, InMemory
<1>2. ASSUME NEW d \in Drainers, Drain(d) PROVE MemoryInv'
  <2>1. /\ phase' = phase /\ handed' = handed /\ phase # "down"
        /\ dpc'["loop"] = "replace" => dpc["loop"] = "replace"
        /\ phase = "up" => d = "loop"
        /\ d = "loop" => dpc'["exit"] = dpc["exit"]
    BY <1>2
    DEF Drain, DrainBegin, DrainEnd, DrainFails, DrainSkip, DrainTake, DropAppend, SubmitOk,
        SubmitUnavailable, SubmitTimedOut, SubmitRejected, SentAppend, SentPop, SentMark,
        ParkAppend, ParkPop, ParkShelve, DrainAt, AppendSteps, Drainers, MemoryInv, TypeOK
  <2>2. ASSUME d = "loop", NEW e \in Entry, InMemory(e) PROVE InMemory(e)'
    <3>1. CASE SentPop(d) \/ ParkPop(d)
      BY <2>2, <3>1 DEF SentPop, ParkPop, DrainAt, TypeOK, InMemory
    <3>2. CASE SentMark(d) \/ ParkShelve(d)
      BY <2>2, <3>2 DEF SentMark, ParkShelve, DrainAt, InMemory
    <3>3. CASE \E x \in Entry : DrainTake(d, x)
      BY <2>2, <3>3 DEF DrainTake, DrainAt, InMemory
    <3>4. CASE /\ UNCHANGED memory /\ cur' = cur
               /\ dpc[d] \notin {"sentMark", "parkShelve"}
      BY <2>2, <3>4 DEF InMemory
    <3>5. CASE DrainBegin(d) \/ DrainEnd(d) \/ DrainFails(d) \/ \E x \in Entry : DrainSkip(d, x)
      BY <3>4, <3>5 DEF DrainBegin, DrainEnd, DrainFails, DrainSkip, DrainAt, AppendSteps
    <3>6. CASE \/ DropAppend(d) \/ SentAppend(d) \/ ParkAppend(d)
               \/ SubmitOk(d) \/ SubmitUnavailable(d) \/ SubmitTimedOut(d) \/ SubmitRejected(d)
      BY <3>4, <3>6 DEF DropAppend, SentAppend, ParkAppend, SubmitOk, SubmitUnavailable,
                        SubmitTimedOut, SubmitRejected, DrainAt
    <3>. QED BY <1>2, <3>1, <3>2, <3>3, <3>5, <3>6 DEF Drain
  <2>. QED BY <2>1, <2>2 DEF MemoryInv, TypeOK
<1>3. CASE Compact
  BY <1>3 DEF Compact, CompactSkip, CompactRead, CompactReplace, CompactFails, DrainAt, TypeOK, Drainers,
              MemoryInv, InMemory
<1>4. CASE Repair
  BY <1>4 DEF Repair, RepairLoad, RepairExit, RequeueDrop, RequeueAppend, RequeueFails, MemoryInv, InMemory
<1>5. CASE Server
  <2>1. CASE Start
    BY <2>1, TailsDiffer DEF Start, Load, KeptInv, Kept, MemoryInv, InMemory
  <2>2. CASE Stop
    BY <2>2 DEF Stop, MemoryInv
  <2>3. CASE Crash \/ Exit
    BY <2>3 DEF Crash, Exit, Stopped, Drainers, MemoryInv
  <2>. QED BY <1>5, <2>1, <2>2, <2>3 DEF Server
<1>. QED BY <1>1, <1>2, <1>3, <1>4, <1>5 DEF Next

LEMMA KeptNext ==
  ASSUME ~Tears, TypeOK, KeptInv, MemoryInv, Next, CleanCompaction
  PROVE  KeptInv'
<1> USE DEF log, memory, callers, drains, operator, chain
<1>1. ASSUME NEW c \in Callers, Enqueue(c) PROVE KeptInv'
  <2>1. CASE \E e \in Entry : EnqueueCheckDone(c, e)
    BY <2>1 DEF EnqueueCheckDone, KeptInv, TypeOK
  <2>2. CASE EnqueueCheckPending(c) \/ EnqueueCheckParked(c) \/ EnqueueRaises(c)
    BY <2>2 DEF EnqueueCheckPending, EnqueueCheckParked, EnqueueRaises, CallerAt, KeptInv,
                TypeOK
  <2>3. CASE EnqueueAppend(c)
    BY <2>3, AppendLineKeeps DEF EnqueueAppend, CallerAt, KeptInv, TypeOK
  <2>4. CASE EnqueueFails(c)
    BY <2>4 DEF EnqueueFails, AppendFails, CallerAt, KeptInv, TypeOK
  <2>5. CASE EnqueueInsert(c)
    BY <2>5 DEF EnqueueInsert, CallerAt, KeptInv, TypeOK
  <2>. QED BY <1>1, <2>1, <2>2, <2>3, <2>4, <2>5 DEF Enqueue
<1>2. ASSUME NEW d \in Drainers, Drain(d) PROVE KeptInv'
  <2>1. CASE DropAppend(d) \/ SentAppend(d) \/ ParkAppend(d)
    BY <2>1, AppendLineKeeps DEF DropAppend, SentAppend, ParkAppend, KeptInv
  <2>2. CASE DrainFails(d)
    BY <2>2 DEF DrainFails, AppendFails, KeptInv
  <2>3. CASE /\ UNCHANGED <<log, handed, callers>>
    BY <2>3 DEF KeptInv
  <2>. QED BY <1>2, <2>1, <2>2, <2>3
           DEF Drain, DrainBegin, DrainEnd, DrainSkip, DrainTake, SubmitOk,
               SubmitUnavailable, SubmitTimedOut, SubmitRejected, SentPop,
               SentMark, ParkPop, ParkShelve
<1>3. CASE Compact
  <2>1. CASE CompactSkip \/ CompactRead \/ CompactFails
    BY <2>1 DEF CompactSkip, CompactRead, CompactFails, KeptInv
  <2>2. CASE CompactReplace
    <3>1. /\ disk' = CompactedState /\ tail' = NoTail /\ dpc["loop"] = "replace"
          /\ UNCHANGED <<pc, arg, handed>>
      BY <2>2 DEF CleanCompaction, CompactReplace, DrainAt
    <3>2. ASSUME NEW e \in handed PROVE Kept(CompactedState, e)
      <4>1. e \in pending \union parked \/ KeyOf[e] \in done
        BY <3>1 DEF MemoryInv, InMemory
      <4>2. e \in parked => KeyOf[e] \in done
        BY <2>2 DEF CleanCompaction, Unfinished
      <4>. QED BY <4>1, <4>2 DEF Kept, CompactedState
    <3>. QED BY <2>2, <3>1, <3>2 DEF KeptInv, CleanCompaction
  <2>. QED BY <1>3, <2>1, <2>2 DEF Compact
<1>4. CASE Repair
  <2>1. ASSUME NEW e \in Entry, RequeueAppend(e) PROVE KeptInv'
    BY <2>1, AppendLineKeeps DEF RequeueAppend, KeptInv
  <2>2. CASE RepairLoad \/ RepairExit \/ \E e \in Entry : RequeueDrop(e) \/ RequeueFails(e)
    BY <2>2 DEF RepairLoad, RepairExit, RequeueDrop, RequeueFails, AppendFails, KeptInv
  <2>. QED BY <1>4, <2>1, <2>2 DEF Repair
<1>5. CASE Server
  BY <1>5 DEF Server, Crash, Stop, Exit, Start, Stopped, KeptInv
<1>. QED BY <1>1, <1>2, <1>3, <1>4, <1>5 DEF Next

\* While no line is torn and every compaction is clean, what enqueue returned
\* survives every crash, restart, shutdown, failed append, drain, repair and
\* compaction (_append before _pending[...] = entry; _replay; compact).
THEOREM HandedIsKept ==
  ASSUME ~Tears
  PROVE  Spec /\ [][CleanCompaction]_vars => []HandedNeverLost
<1>1. Init => KeptInv /\ MemoryInv
  BY DEF Init, KeptInv, MemoryInv, Drainers
<1>2. TypeOK /\ KeptInv /\ MemoryInv /\ [Next]_vars /\ [CleanCompaction]_vars
        => KeptInv' /\ MemoryInv'
  <2> SUFFICES ASSUME TypeOK, KeptInv, MemoryInv, [Next]_vars, [CleanCompaction]_vars
               PROVE  KeptInv' /\ MemoryInv'
    OBVIOUS
  <2>1. CASE UNCHANGED vars
    BY <2>1 DEF vars, log, memory, callers, drains, KeptInv, MemoryInv, InMemory
  <2>2. CASE Next /\ CleanCompaction
    BY <2>2, KeptNext, MemoryNext
  <2>. QED BY <2>1, <2>2
<1>3. KeptInv => HandedNeverLost
  BY TailsDiffer DEF KeptInv, HandedNeverLost, Load
<1>. QED BY <1>1, <1>2, <1>3, TypeCorrect, PTL DEF Spec

-----------------------------------------------------------------------------
(* Copies on the chain.                                                     *)

\* The drain there is, while every shutdown is a lone one: the loop's or, once the
\* server is stopping, the final one.
Active == IF phase = "stopping" THEN "exit" ELSE "loop"
LoneInv ==
  /\ phase = "stopping" => dpc["loop"] = "idle"
  /\ phase # "stopping" => dpc["exit"] = "idle" /\ batch["exit"] = {} /\ cur["exit"] = NoEntry
  /\ phase = "down" => dpc["loop"] = "idle"

\* Who drains or compacts is the only one to.
LEMMA Alone ==
  ASSUME TypeOK, LoneInv
  PROVE  /\ Active \in Drainers /\ (phase' = phase => Active' = Active)
         /\ \A d \in Drainers : Drain(d) => d = Active /\ phase' = phase /\ phase # "down"
         /\ Compact => Active = "loop" /\ phase' = phase /\ phase = "up"
<1>1. ASSUME NEW d \in Drainers, Drain(d) PROVE d = Active /\ phase' = phase /\ phase # "down"
  <2>1. /\ phase' = phase
        /\ dpc[d] # "idle" \/ phase = IF d = "loop" THEN "up" ELSE "stopping"
    BY <1>1
    DEF Drain, DrainBegin, DrainEnd, DrainFails, DrainSkip, DrainTake, DropAppend, SubmitOk,
        SubmitUnavailable, SubmitTimedOut, SubmitRejected, SentAppend, SentPop, SentMark,
        ParkAppend, ParkPop, ParkShelve, DrainAt, AppendSteps
  <2>. QED BY <2>1 DEF LoneInv, Active, Drainers
<1>2. ASSUME Compact PROVE Active = "loop" /\ phase' = phase /\ phase = "up"
  BY <1>2 DEF Compact, CompactSkip, CompactRead, CompactReplace, CompactFails, DrainAt, LoneInv, Active, TypeOK
<1>. QED BY <1>1, <1>2 DEF Active, Drainers

\* What the process does finds the drain there is, or leaves it, at its beginning.
LEMMA Turns ==
  ASSUME TypeOK, LoneInv, LoneShutdown
  PROVE  /\ Start \/ Stop => dpc[Active] = "idle"
         /\ Start => Active' = Active
         /\ Exit => dpc[Active] = "over"
         /\ Crash \/ Exit \/ Stop =>
              dpc'[Active'] = "idle" /\ batch'[Active'] = {} /\ cur'[Active'] = NoEntry
BY DEF Start, Stop, Exit, Crash, Stopped, LoneShutdown, LoneInv, Active, Drainers, drains

LEMMA LoneNext ==
  ASSUME TypeOK, LoneInv, Next, LoneShutdown
  PROVE  LoneInv'
<1> USE DEF log, memory, callers, drains, operator, chain
<1>1. ASSUME NEW d \in Drainers, Drain(d) PROVE LoneInv'
  <2>1. \A x \in Drainers : x # d =>
          dpc'[x] = dpc[x] /\ batch'[x] = batch[x] /\ cur'[x] = cur[x]
    BY <1>1
    DEF Drain, DrainBegin, DrainEnd, DrainFails, DrainSkip, DrainTake, DropAppend, SubmitOk,
        SubmitUnavailable, SubmitTimedOut, SubmitRejected, SentAppend, SentPop, SentMark,
        ParkAppend, ParkPop, ParkShelve, DrainAt, TypeOK
  <2>2. d = Active /\ phase' = phase /\ phase # "down"
    BY <1>1, Alone
  <2>. QED BY <2>1, <2>2 DEF LoneInv, Active, Drainers
<1>2. CASE Compact
  BY <1>2, Alone DEF Compact, CompactSkip, CompactRead, CompactReplace, CompactFails, DrainAt, TypeOK, Drainers,
                     LoneInv
<1>3. CASE Server
  BY <1>3 DEF Server, Crash, Stop, Exit, Start, Stopped, LoneShutdown, Drainers, LoneInv
<1>4. CASE (\E c \in Callers : Enqueue(c)) \/ Repair
  <2>1. UNCHANGED <<phase, dpc, batch, cur>>
    BY <1>4
    DEF Enqueue, EnqueueCheckDone, EnqueueCheckPending, EnqueueCheckParked, EnqueueRaises, EnqueueAppend,
        EnqueueFails, EnqueueInsert, Repair, RepairLoad, RepairExit, RequeueDrop, RequeueAppend, RequeueFails
  <2>. QED BY <2>1 DEF LoneInv
<1>. QED BY <1>1, <1>2, <1>3, <1>4 DEF Next

\* The drain holds a landed record of k it has not written down.
InHand(k) == dpc[Active] = "sentAppend" /\ KeyOf[cur[Active]] = k
Recorded(k) == k \in disk.done \/ InHand(k)

\* Of the records of a key, all but one are accounted to lost acknowledgements,
\* and that one is recorded or in the hand of the only drain.  For this the
\* keys done in memory and in the log must agree, except inside _complete, and
\* an entry about to be submitted must not be done.
CopyInv ==
  /\ tail = NoTail
  /\ \A k \in Key : landed[k] <= lostAck[k] + (IF Recorded(k) THEN 1 ELSE 0)
  /\ dpc[Active] = "submit" => KeyOf[cur[Active]] \notin disk.done
  /\ dpc[Active] = "dropAppend" => KeyOf[cur[Active]] \in disk.done
  /\ IF dpc[Active] \in {"sentPop", "sentMark"}
     THEN disk.done = done \union {KeyOf[cur[Active]]}
     ELSE phase # "down" => disk.done = done
  /\ dpc[Active] = "replace" => image.done = disk.done

LEMMA LostNowCounts ==
  ASSUME NEW k \in Key, InHand(k)
  PROVE  LostNow(k) >= 1
<1>. DEFINE S == {d \in Drainers : Unrecorded(d) /\ KeyOf[cur[d]] = k}
<1>1. Active \in S
  BY DEF InHand, Unrecorded, Active, Drainers
<1>2. IsFiniteSet(S)
  <2>1. IsFiniteSet({"loop"} \union {"exit"})
    BY FS_Singleton, FS_AddElement
  <2>2. IsFiniteSet(Drainers)
    BY <2>1 DEF Drainers
  <2>. QED BY <2>2, FS_Subset
<1>3. Cardinality(S) \in Nat /\ Cardinality(S) # 0
  BY <1>1, <1>2, FS_CardinalityType, FS_EmptySet
<1>. QED BY <1>3 DEF LostNow

\* Without a tail, an append of a line that is not `sent' leaves the done keys.
LEMMA AppendKeepsDone ==
  ASSUME tail = NoTail, NEW kind, NEW e, AppendLine(kind, e)
  PROVE  /\ tail' = NoTail
         /\ kind = "sent" => disk'.done = disk.done \union {KeyOf[e]}
         /\ kind # "sent" => disk'.done = disk.done
BY ReplayDone DEF AppendLine

\* A step of the drain outside _complete, which leaves the books alone.
LEMMA CopyMove ==
  ASSUME TypeOK, CopyInv, phase # "down", Active' = Active,
         UNCHANGED <<tail, disk.done, phase, done, landed, lostAck>>,
         dpc[Active] \notin {"sentAppend", "sentPop", "sentMark"},
         dpc'[Active] \in {"idle", "next", "parkAppend", "parkPop",
                           "parkShelve", "maybeCompact", "over"}
  PROVE  CopyInv'
BY DEF CopyInv, Recorded, InHand

LEMMA CopyDrain ==
  ASSUME ~Tears, TypeOK, LoneInv, CopyInv, NEW d \in Drainers, Drain(d)
  PROVE  CopyInv'
<1> USE EntriesAssumption
<1> USE DEF CopyInv, Recorded, InHand, log, memory, callers, drains, operator,
            chain
<1>1. d = Active /\ Active' = Active /\ Active \in Drainers /\ phase' = phase /\ phase # "down"
  BY Alone
<1>2. CASE DrainBegin(d) \/ DrainEnd(d)
  <2>1. /\ dpc[Active] \in {"idle", "next"}
        /\ dpc'[Active] \in {"next", "maybeCompact", "over"}
        /\ UNCHANGED <<log, phase, done, chain>>
    BY <1>1, <1>2 DEF DrainBegin, DrainEnd, DrainAt, TypeOK, Drainers
  <2>. QED BY <1>1, <2>1, CopyMove
<1>3. CASE DrainFails(d)
  <2>1. disk' = disk /\ tail' = tail
    BY <1>3 DEF DrainFails, AppendFails
  <2>2. cur[d] \in Entry
    BY <1>3 DEF DrainFails, AppendSteps, TypeOK
  <2>. QED BY <1>1, <1>3, <2>1, <2>2
           DEF DrainFails, AppendSteps, Unrecorded, TypeOK
<1>4. CASE \E e \in Entry : DrainSkip(d, e)
  BY <1>1, <1>4 DEF DrainSkip
<1>5. CASE \E e \in Entry : DrainTake(d, e)
  BY <1>1, <1>5 DEF DrainTake, DrainAt, TypeOK
<1>6. CASE DropAppend(d)
  <2>1. tail' = NoTail /\ disk'.done = disk.done \union {KeyOf[cur[d]]}
    BY <1>6, AppendKeepsDone DEF DropAppend
  <2>2. disk'.done = disk.done
    BY <1>1, <1>6, <2>1 DEF DropAppend, DrainAt
  <2>3. /\ dpc[Active] = "dropAppend" /\ dpc'[Active] = "next"
    BY <1>1, <1>6 DEF DropAppend, DrainAt, TypeOK, Drainers
  <2>. QED BY <1>1, <1>6, <2>1, <2>2, <2>3, CopyMove DEF DropAppend
<1>7. CASE SentAppend(d)
  <2>1. tail' = NoTail /\ disk'.done = disk.done \union {KeyOf[cur[d]]}
    BY <1>7, AppendKeepsDone DEF SentAppend
  <2>. QED BY <1>1, <1>7, <2>1 DEF SentAppend, DrainAt, TypeOK
<1>8. CASE ParkAppend(d)
  <2>1. tail' = NoTail /\ disk'.done = disk.done
    <3>1. AppendLine("parked", cur[d])
      BY <1>8 DEF ParkAppend
    <3>2. "parked" # "sent"
      OBVIOUS
    <3>. QED BY <3>1, <3>2, AppendKeepsDone
  <2>. QED BY <1>1, <1>8, <2>1 DEF ParkAppend, DrainAt, TypeOK
<1>9. CASE SubmitOk(d)
  <2>1. cur[d] \in Entry
    BY <1>9 DEF SubmitOk, DrainAt, TypeOK, DrainSteps
  <2>. QED BY <1>1, <1>9, <2>1 DEF SubmitOk, Land, DrainAt, TypeOK
<1>10. CASE SubmitTimedOut(d)
  <2>1. cur[d] \in Entry
    BY <1>10 DEF SubmitTimedOut, DrainAt, TypeOK, DrainSteps
  <2>. QED BY <1>1, <1>10, <2>1 DEF SubmitTimedOut, Land, DrainAt, TypeOK
<1>11. CASE SubmitUnavailable(d) \/ SubmitRejected(d)
  <2>1. /\ dpc[Active] = "submit" /\ dpc'[Active] \in {"next", "parkAppend"}
        /\ UNCHANGED <<log, phase, done, chain>>
    BY <1>1, <1>11 DEF SubmitUnavailable, SubmitRejected, DrainAt, TypeOK,
                       Drainers
  <2>. QED BY <1>1, <2>1, CopyMove
<1>12. CASE ParkPop(d) \/ ParkShelve(d)
  <2>1. /\ dpc[Active] \in {"parkPop", "parkShelve"}
        /\ dpc'[Active] \in {"next", "parkShelve"}
        /\ UNCHANGED <<log, phase, done, chain>>
    BY <1>1, <1>12 DEF ParkPop, ParkShelve, DrainAt, TypeOK, Drainers
  <2>. QED BY <1>1, <2>1, CopyMove
<1>13. CASE SentPop(d)
  BY <1>1, <1>13 DEF SentPop, DrainAt, TypeOK
<1>14. CASE SentMark(d)
  BY <1>1, <1>14 DEF SentMark, DrainAt, TypeOK
<1>. QED BY <1>2, <1>3, <1>4, <1>5, <1>6, <1>7, <1>8, <1>9, <1>10, <1>11,
            <1>12, <1>13, <1>14 DEF Drain

LEMMA CopyNext ==
  ASSUME ~Tears, TypeOK, LoneInv, CopyInv, Next, LoneShutdown
  PROVE  CopyInv'
<1> USE DEF CopyInv, Recorded, InHand, log, memory, callers, drains, operator,
            chain
<1>0. phase' = phase => Active' = Active
  BY Alone
<1>1. ASSUME NEW c \in Callers, Enqueue(c) PROVE CopyInv'
  <2>1. CASE EnqueueAppend(c)
    <3>1. AppendLine("enqueue", arg[c]) /\ "enqueue" # "sent"
      BY <2>1 DEF EnqueueAppend
    <3>2. tail' = NoTail /\ disk'.done = disk.done
      BY <3>1, AppendKeepsDone
    <3>. QED BY <1>0, <2>1, <3>2 DEF EnqueueAppend
  <2>2. CASE EnqueueFails(c)
    BY <1>0, <2>2 DEF EnqueueFails, AppendFails
  <2>3. CASE UNCHANGED <<log, phase, done, drains, chain>>
    BY <1>0, <2>3
  <2>. QED BY <1>1, <2>1, <2>2, <2>3
           DEF Enqueue, EnqueueCheckDone, EnqueueCheckPending,
               EnqueueCheckParked, EnqueueRaises, EnqueueInsert
<1>2. ASSUME NEW d \in Drainers, Drain(d) PROVE CopyInv'
  BY <1>2, CopyDrain
<1>3. CASE Compact
  <2>0. Active = "loop" /\ Active' = "loop" /\ phase = "up" /\ phase' = "up" /\ "loop" \in Drainers
    BY <1>3, Alone DEF Drainers
  <2>1. CASE CompactSkip \/ CompactFails
    BY <2>0, <2>1 DEF CompactSkip, CompactFails, DrainAt, TypeOK
  <2>2. CASE CompactRead
    BY <2>0, <2>2 DEF CompactRead, CompactedState, DrainAt, TypeOK
  <2>3. CASE CompactReplace
    <3>1. /\ disk'.done = disk.done /\ tail' = NoTail
          /\ dpc[Active] = "replace" /\ dpc'[Active] = "idle"
          /\ UNCHANGED <<phase, done, chain>>
      BY <2>0, <2>3 DEF CompactReplace, DrainAt, TypeOK
    <3>. QED BY <2>0, <3>1
  <2>. QED BY <1>3, <2>1, <2>2, <2>3 DEF Compact
<1>4. CASE Repair
  <2>1. ASSUME NEW e \in Entry, RequeueAppend(e) PROVE CopyInv'
    <3>1. AppendLine("enqueue", e) /\ "enqueue" # "sent"
      BY <2>1 DEF RequeueAppend
    <3>2. tail' = NoTail /\ disk'.done = disk.done
      BY <3>1, AppendKeepsDone
    <3>. QED BY <1>0, <2>1, <3>2 DEF RequeueAppend
  <2>2. CASE RepairLoad \/ RepairExit \/ \E e \in Entry : RequeueDrop(e) \/ RequeueFails(e)
    BY <1>0, <2>2 DEF RepairLoad, RepairExit, RequeueDrop, RequeueFails, AppendFails
  <2>. QED BY <1>4, <2>1, <2>2 DEF Repair
<1>5. CASE Crash
  <2>1. /\ disk' = disk /\ tail' = NoTail /\ phase' = "down" /\ landed' = landed
        /\ lostAck' = [k \in Key |-> lostAck[k] + LostNow(k)]
    BY <1>5 DEF Crash, Stopped
  <2>2. dpc'[Active'] = "idle"
    BY <1>5, Turns
  <2>3. ASSUME NEW k \in Key
        PROVE  landed'[k] <= lostAck'[k] + (IF k \in disk'.done THEN 1 ELSE 0)
    <3>1. LostNow(k) \in Nat /\ (InHand(k) => LostNow(k) >= 1)
      BY LostNowType, LostNowCounts
    <3>2. landed[k] <= lostAck[k] + (IF Recorded(k) THEN 1 ELSE 0)
      OBVIOUS
    <3>3. lostAck'[k] = lostAck[k] + LostNow(k)
      BY <2>1
    <3>4. landed[k] \in Nat /\ lostAck[k] \in Nat
      BY DEF TypeOK
    <3>5. CASE InHand(k)
      BY <2>1, <3>1, <3>2, <3>3, <3>4, <3>5
    <3>6. CASE ~InHand(k)
      BY <2>1, <3>1, <3>2, <3>3, <3>4, <3>6
    <3>. QED BY <3>5, <3>6
  <2>. QED BY <2>1, <2>2, <2>3
<1>6. CASE Start
  BY <1>6, Turns, TailsDiffer DEF Start, Load
<1>7. CASE Stop \/ Exit
  <2>1. /\ dpc'[Active'] = "idle" /\ dpc[Active] \in {"idle", "over"}
        /\ UNCHANGED <<disk, tail, landed, lostAck>>
    BY <1>7, Turns DEF Stop, Exit, Stopped
  <2>2. phase' # "down" => phase # "down" /\ done' = done
    BY <1>7 DEF Stop, Exit, Stopped
  <2>. QED BY <2>1, <2>2
<1>. QED BY <1>1, <1>2, <1>3, <1>4, <1>5, <1>6, <1>7 DEF Next, Server

\* While no line is torn and every shutdown finds the loop asleep (otherwise two
\* drain at once), only a success that was never written down explains a second
\* record of a key: not a race of enqueue, a requeue, a replay, a compaction or
\* the final drain (drain's check of _done, _complete's order).
THEOREM CopiesExplained ==
  ASSUME ~Tears
  PROVE  Spec /\ [][LoneShutdown]_vars => []NoUnexplainedCopy
<1>1. Init => LoneInv /\ CopyInv
  BY DEF Init, LoneInv, CopyInv, Recorded, InHand, EmptyState, Active, Drainers
<1>2. TypeOK /\ LoneInv /\ CopyInv /\ [Next]_vars /\ [LoneShutdown]_vars => LoneInv' /\ CopyInv'
  <2> SUFFICES ASSUME TypeOK, LoneInv, CopyInv, [Next]_vars, [LoneShutdown]_vars
               PROVE  LoneInv' /\ CopyInv'
    OBVIOUS
  <2>1. CASE UNCHANGED vars
    BY <2>1 DEF vars, log, memory, drains, chain, LoneInv, CopyInv, Recorded, InHand, Active
  <2>2. CASE Next /\ LoneShutdown
    BY <2>2, LoneNext, CopyNext
  <2>. QED BY <2>1, <2>2
<1>3. TypeOK /\ CopyInv => NoUnexplainedCopy
  BY DEF CopyInv, NoUnexplainedCopy, TypeOK
<1>. QED BY <1>1, <1>2, <1>3, TypeCorrect, PTL DEF Spec

-----------------------------------------------------------------------------
(* What a restart finds.                                                    *)

Known == pending \union parked \union disk.parked \union repair.todo \union {cur[Active]}
Busy(c) == pc[c] # "idle"
Waits(e) == KeyOf[e] \in disk.done \/ e \in disk.pending
Shelved(e) == KeyOf[e] \in disk.done \/ e \in disk.parked
Parking == IF dpc[Active] \in {"parkPop", "parkShelve"} THEN {cur[Active]} ELSE {}

\* A record is made once: what a call of enqueue holds is nowhere else yet.
NewInv ==
  /\ fresh \intersect (Known \union disk.pending) = {}
  /\ \A c \in Callers : Busy(c) =>
       /\ arg[c] \notin fresh \union Known
       /\ pc[c] # "insert" => arg[c] \notin disk.pending
       /\ \A x \in Callers : Busy(x) /\ arg[x] = arg[c] => x = c
  /\ phase = "down" => \A c \in Callers : ~Busy(c)

\* The only drain there is goes through entries that only it takes away.
QueueInv ==
  /\ batch[Active] \subseteq pending
  /\ phase = "down" => batch[Active] = {}
  /\ dpc[Active] \notin {"idle", "next"} => cur[Active] \notin batch[Active]
  /\ dpc[Active] \in {"submit", "sentAppend", "parkAppend", "parkPop"} => cur[Active] \in pending
  /\ dpc[Active] = "parkShelve" => cur[Active] \notin pending

\* Memory and log tell the same, but for the calls in progress and what the
\* operator put back, which only the log has; it has it as parked, too.
RestInv ==
  /\ \A e \in pending : Waits(e) \/ (e = cur[Active] /\ dpc[Active] = "parkPop")
  /\ \A c \in Callers : pc[c] = "insert" => Waits(arg[c])
  /\ phase # "down" => \A e \in disk.pending :
       \/ KeyOf[e] \in disk.done \/ e \in pending \union disk.parked
       \/ \E c \in Callers : pc[c] = "insert" /\ arg[c] = e
  /\ phase # "down" => disk.parked \subseteq parked \union Parking
  /\ \A e \in parked \union Parking \union repair.todo : Shelved(e)
  /\ dpc[Active] = "parkPop" => cur[Active] \notin disk.pending \ disk.parked
  /\ disk.pending \intersect disk.parked \subseteq requeued
  /\ pending \intersect parked \subseteq requeued

\* What each kind of line does to the log.
LEMMA Appended ==
  ASSUME tail = NoTail, NEW e
  PROVE  /\ AppendLine("enqueue", e) =>
              /\ tail' = NoTail /\ disk'.done = disk.done /\ disk'.parked = disk.parked
              /\ disk'.pending = IF KeyOf[e] \in disk.done THEN disk.pending
                                 ELSE disk.pending \union {e}
         /\ AppendLine("sent", e) =>
              /\ tail' = NoTail /\ disk'.done = disk.done \union {KeyOf[e]}
              /\ disk'.parked = disk.parked /\ disk'.pending = disk.pending \ {e}
         /\ AppendLine("parked", e) =>
              /\ tail' = NoTail /\ disk'.done = disk.done
              /\ disk'.parked = disk.parked \union (disk.pending \intersect {e})
              /\ disk'.pending = disk.pending \ {e}
BY DEF AppendLine, Replay, ReplayEnqueue, ReplaySent, ReplayParked

\* A step of no caller makes no entry, and none that it knows gets lost.
LEMMA NewQuiet ==
  ASSUME NewInv, UNCHANGED <<pc, arg, fresh>>, phase' = "down" => phase = "down",
         Known' \subseteq Known, disk'.pending \subseteq disk.pending \union Known
  PROVE  NewInv'
BY DEF NewInv, Busy

LEMMA NewNext ==
  ASSUME ~Tears, TypeOK, LoneInv, CopyInv, NewInv, QueueInv, Next, CleanCompaction, LoneShutdown
  PROVE  NewInv'
<1> USE DEF log, memory, callers, drains, operator, chain
<1>0. /\ tail = NoTail /\ pc \in [Callers -> Steps] /\ arg \in [Callers -> Entry \union {NoEntry}]
      /\ phase' = phase => Active' = Active
  BY Alone DEF CopyInv, TypeOK
<1>1. ASSUME NEW c \in Callers, Enqueue(c) PROVE NewInv'
  <2>1. ASSUME NEW e \in Entry, EnqueueCheckDone(c, e) PROVE NewInv'
    <3>1. /\ e \in fresh /\ fresh' = fresh \ {e} /\ pc[c] = "idle" /\ phase # "down"
          /\ \/ UNCHANGED callers
             \/ /\ pc' = [pc EXCEPT ![c] = "checkPending"] /\ arg' = [arg EXCEPT ![c] = e]
          /\ UNCHANGED <<disk, phase, pending, parked, repair, cur, Active>>
      BY <1>0, <2>1 DEF EnqueueCheckDone
    <3>2. CASE UNCHANGED callers
      BY <3>1, <3>2 DEF NewInv, Busy, Known
    <3>3. CASE /\ pc' = [pc EXCEPT ![c] = "checkPending"] /\ arg' = [arg EXCEPT ![c] = e]
      <4>1. /\ pc'[c] = "checkPending" /\ arg'[c] = e
            /\ \A x \in Callers : x # c => pc'[x] = pc[x] /\ arg'[x] = arg[x]
        BY <1>0, <3>3
      <4>2. \A x \in Callers : x # c /\ Busy(x) => arg[x] # e
        BY <3>1 DEF NewInv
      <4> QED BY <3>1, <4>1, <4>2 DEF NewInv, Busy, Known
    <3> QED BY <3>1, <3>2, <3>3
  <2>2. CASE EnqueueCheckPending(c) \/ EnqueueCheckParked(c) \/ EnqueueRaises(c) \/ EnqueueFails(c)
    <3>1. /\ pc[c] # "idle" /\ pc[c] # "insert"
          /\ \E step \in {"idle", "checkParked", "append"} : pc' = [pc EXCEPT ![c] = step]
          /\ UNCHANGED <<disk, phase, pending, parked, repair, cur, fresh, arg, Active>>
      BY <1>0, <2>2 DEF EnqueueCheckPending, EnqueueCheckParked, EnqueueRaises, EnqueueFails, CallerAt, AppendFails
    <3>2. \A x \in Callers : x # c => pc'[x] = pc[x]
      BY <1>0, <3>1
    <3> QED BY <3>1, <3>2 DEF NewInv, Busy, Known
  <2>3. CASE EnqueueAppend(c)
    <3>1. /\ pc[c] = "append" /\ pc' = [pc EXCEPT ![c] = "insert"]
          /\ disk'.parked = disk.parked /\ disk'.pending \subseteq disk.pending \union {arg[c]}
          /\ UNCHANGED <<phase, pending, parked, repair, cur, fresh, arg, Active>>
      BY <1>0, <2>3, Appended DEF EnqueueAppend, CallerAt
    <3>2. pc'[c] = "insert" /\ \A x \in Callers : x # c => pc'[x] = pc[x]
      BY <1>0, <3>1
    <3>3. Known' = Known
      BY <3>1 DEF Known
    <3>4. arg[c] \notin fresh /\ \A x \in Callers : x # c /\ Busy(x) => arg[x] # arg[c]
      BY <3>1 DEF NewInv, Busy
    <3> QED BY <3>1, <3>2, <3>3, <3>4 DEF NewInv, Busy
  <2>4. CASE EnqueueInsert(c)
    <3>1. /\ pc[c] = "insert" /\ pc' = [pc EXCEPT ![c] = "idle"]
          /\ pending' = pending \union {arg[c]}
          /\ UNCHANGED <<disk, phase, parked, repair, cur, fresh, arg, Active>>
      BY <1>0, <2>4 DEF EnqueueInsert, CallerAt
    <3>2. pc'[c] = "idle" /\ \A x \in Callers : x # c => pc'[x] = pc[x]
      BY <1>0, <3>1
    <3>3. Known' = Known \union {arg[c]}
      BY <3>1 DEF Known
    <3>4. arg[c] \notin fresh /\ \A x \in Callers : x # c /\ Busy(x) => arg[x] # arg[c]
      BY <3>1 DEF NewInv, Busy
    <3> QED BY <3>1, <3>2, <3>3, <3>4 DEF NewInv, Busy
  <2> QED BY <1>1, <2>1, <2>2, <2>3, <2>4 DEF Enqueue
<1>2. ASSUME NEW d \in Drainers, Drain(d) PROVE NewInv'
  <2>1. d = Active /\ Active' = Active /\ Active \in Drainers /\ phase' = phase /\ phase # "down"
    BY <1>2, Alone
  <2>2. /\ UNCHANGED <<pc, arg, fresh, phase, repair, Active>>
        /\ pending' \subseteq pending /\ parked' \subseteq parked \union {cur[Active]}
        /\ disk'.pending \subseteq disk.pending
        /\ disk'.parked \subseteq disk.parked \union {cur[Active]}
    <3>1. CASE DropAppend(d) \/ SentAppend(d) \/ ParkAppend(d)
      BY <1>0, <2>1, <3>1, Appended DEF DropAppend, SentAppend, ParkAppend
    <3>2. CASE DrainFails(d)
      BY <2>1, <3>2 DEF DrainFails, AppendFails
    <3>3. CASE /\ UNCHANGED <<disk, pc, arg, fresh, repair>>
               /\ pending' \subseteq pending /\ parked' \subseteq parked \union {cur[d]}
      BY <2>1, <3>3
    <3> QED BY <1>2, <3>1, <3>2, <3>3
        DEF Drain, DrainBegin, DrainEnd, DrainSkip, DrainTake, SubmitOk, SubmitUnavailable,
            SubmitTimedOut, SubmitRejected, SentPop, SentMark, ParkPop, ParkShelve
  <2>3. cur'[Active] \in pending \union {cur[Active]}
    <3>1. CASE \E e \in Entry : DrainTake(d, e)
      BY <2>1, <3>1 DEF DrainTake, QueueInv, TypeOK, Drainers
    <3>2. CASE cur' = cur
      BY <3>2
    <3> QED BY <1>2, <3>1, <3>2
        DEF Drain, DrainBegin, DrainEnd, DrainFails, DrainSkip, DropAppend, SubmitOk, SubmitUnavailable,
            SubmitTimedOut, SubmitRejected, SentAppend, SentPop, SentMark, ParkAppend, ParkPop, ParkShelve
  <2>4. Known' \subseteq Known
    BY <2>2, <2>3 DEF Known
  <2> QED BY <2>2, <2>4, NewQuiet
<1>3. CASE Compact
  <2>1. /\ UNCHANGED <<pc, arg, fresh, phase, repair, pending, parked, cur, Active>>
        /\ disk'.pending \subseteq disk.pending \union pending
        /\ disk'.parked \subseteq disk.parked \union parked
    BY <1>3, Alone
    DEF Compact, CompactSkip, CompactRead, CompactReplace, CompactFails, CleanCompaction, CompactedState
  <2> QED BY <2>1, NewQuiet DEF Known
<1>4. CASE Repair
  <2>1. /\ UNCHANGED <<pc, arg, fresh, phase, pending, parked, cur, Active>>
        /\ disk'.parked = disk.parked /\ repair'.todo \subseteq repair.todo \union disk.parked
        /\ disk'.pending \subseteq disk.pending \union repair.todo
    <3>1. ASSUME NEW e \in Entry, RequeueAppend(e)
          PROVE  /\ UNCHANGED <<pc, arg, fresh, phase, pending, parked, cur, Active>>
                 /\ disk'.parked = disk.parked /\ repair'.todo \subseteq repair.todo
                 /\ disk'.pending \subseteq disk.pending \union repair.todo
      <4>1. /\ UNCHANGED <<pc, arg, fresh, phase, pending, parked, cur, Active>>
            /\ e \in repair.todo /\ AppendLine("enqueue", e)
        BY <1>0, <3>1 DEF RequeueAppend
      <4>2. repair'.todo = repair.todo \ {e}
        BY <3>1 DEF RequeueAppend, TypeOK
      <4> QED BY <1>0, <4>1, <4>2, Appended
    <3>2. CASE RepairLoad
      BY <1>0, <3>2, TailsDiffer DEF RepairLoad, Load
    <3>3. CASE RepairExit \/ \E e \in Entry : RequeueDrop(e)
      BY <1>0, <3>3 DEF RepairExit, RequeueDrop, TypeOK
    <3>4. CASE \E e \in Entry : RequeueFails(e)
      <4>1. UNCHANGED <<pc, arg, fresh, phase, pending, parked, cur, disk>> /\ repair'.todo = {}
        BY <3>4 DEF RequeueFails, AppendFails
      <4> QED BY <1>0, <4>1
    <3> QED BY <1>4, <3>1, <3>2, <3>3, <3>4 DEF Repair
  <2>2. Known' \subseteq Known /\ repair.todo \subseteq Known
    BY <2>1 DEF Known
  <2> QED BY <2>1, <2>2, NewQuiet
<1>5. CASE Crash \/ Exit \/ Stop
  <2>1. /\ pending' \subseteq pending /\ parked' \subseteq parked /\ cur'[Active'] = NoEntry
        /\ UNCHANGED <<disk, repair, fresh>>
        /\ (\A c \in Callers : pc'[c] = "idle") \/ (UNCHANGED <<pc, arg>> /\ phase' # "down")
    BY <1>5, Turns DEF Crash, Exit, Stop, Stopped
  <2>2. NoEntry \notin fresh /\ \A c \in Callers : Busy(c) => arg[c] # NoEntry
    BY EntriesAssumption DEF TypeOK, Busy
  <2>3. Known' \subseteq Known \union {NoEntry}
    BY <2>1 DEF Known
  <2> QED BY <2>1, <2>2, <2>3 DEF NewInv, Busy
<1>6. CASE Start
  <2>1. /\ phase = "down" /\ phase' = "up" /\ pending' = disk.pending /\ parked' = disk.parked
        /\ UNCHANGED <<disk, repair, fresh, cur, pc, arg>>
    BY <1>0, <1>6, TailsDiffer DEF Start, Load
  <2>2. Known' \subseteq Known \union disk.pending
    BY <1>6, <2>1, Turns DEF Known
  <2> QED BY <2>1, <2>2 DEF NewInv, Busy
<1> QED BY <1>1, <1>2, <1>3, <1>4, <1>5, <1>6 DEF Next, Server

\* The loop's steps, as far as the drain's own state tells.
LEMMA QueueNext ==
  ASSUME ~Tears, TypeOK, LoneInv, CopyInv, NewInv, QueueInv, Next, CleanCompaction, LoneShutdown
  PROVE  QueueInv'
<1> USE DEF log, memory, callers, drains, operator, chain
<1>0. phase' = phase => Active' = Active
  BY Alone
<1>1. ASSUME NEW c \in Callers, Enqueue(c) PROVE QueueInv'
  <2>1. CASE EnqueueInsert(c)
    <3>1. arg[c] # cur[Active]
      BY <2>1 DEF EnqueueInsert, CallerAt, NewInv, Busy, Known
    <3> QED BY <1>0, <2>1, <3>1 DEF EnqueueInsert, QueueInv
  <2>2. CASE UNCHANGED <<phase, pending, batch, dpc, cur, Active>>
    BY <2>2 DEF QueueInv
  <2> QED BY <1>0, <1>1, <2>1, <2>2
      DEF Enqueue, EnqueueCheckDone, EnqueueCheckPending, EnqueueCheckParked, EnqueueRaises,
          EnqueueAppend, EnqueueFails
<1>2. ASSUME NEW d \in Drainers, Drain(d) PROVE QueueInv'
  <2>1. d = Active /\ Active' = Active /\ Active \in Drainers /\ phase' = phase /\ phase # "down"
    BY <1>2, Alone
  <2>2. phase' # "down"
    BY <2>1
  <2>3. /\ dpc \in [Drainers -> DrainSteps] /\ batch \in [Drainers -> SUBSET Entry]
        /\ cur \in [Drainers -> Entry \union {NoEntry}] 
    BY DEF TypeOK
  <2>4. CASE DrainBegin(d)
    BY <2>1, <2>2, <2>3, <2>4 DEF DrainBegin, DrainAt, QueueInv
  <2>5. CASE DrainEnd(d)
    BY <2>1, <2>2, <2>3, <2>5 DEF DrainEnd, DrainAt, QueueInv
  <2>6. CASE DrainFails(d)
    BY <2>1, <2>2, <2>3, <2>6 DEF DrainFails, QueueInv
  <2>7. ASSUME NEW e \in Entry, DrainSkip(d, e) PROVE QueueInv'
    BY <2>1, <2>2, <2>3, <2>7 DEF DrainSkip, QueueInv
  <2>8. ASSUME NEW e \in Entry, DrainTake(d, e) PROVE QueueInv'
    <3>1. /\ dpc'[Active] = IF KeyOf[e] \in done THEN "dropAppend" ELSE "submit"
          /\ batch'[Active] = batch[Active] \ {e} /\ cur'[Active] = e
          /\ pending' = IF KeyOf[e] \in done THEN pending \ {e} ELSE pending
          /\ e \in pending
      BY <2>1, <2>3, <2>8 DEF DrainTake, DrainAt, QueueInv
    <3> QED BY <2>1, <2>2, <3>1 DEF QueueInv
  <2>9. CASE SentPop(d) \/ ParkPop(d)
    <3>1. /\ dpc[Active] \in {"sentPop", "parkPop"}
          /\ dpc'[Active] \in {"sentMark", "parkShelve"}
          /\ pending' = pending \ {cur[Active]}
          /\ UNCHANGED <<batch, cur>>
      BY <2>1, <2>3, <2>9 DEF SentPop, ParkPop, DrainAt
    <3> QED BY <2>1, <2>2, <3>1 DEF QueueInv
  <2>10. CASE \/ DropAppend(d) \/ SentAppend(d) \/ ParkAppend(d)
              \/ SubmitOk(d) \/ SubmitUnavailable(d) \/ SubmitTimedOut(d)
              \/ SubmitRejected(d) \/ SentMark(d) \/ ParkShelve(d)
    <3>1. /\ UNCHANGED <<pending, batch, cur>> /\ dpc[Active] \notin {"idle", "next"}
          /\ \/ dpc'[Active] \in {"next", "sentPop", "sentAppend", "parkAppend", "parkPop"}
          /\ dpc'[Active] \in {"sentAppend", "parkAppend", "parkPop"}
               => dpc[Active] \in {"submit", "parkAppend"}
      BY <2>1, <2>3, <2>10
         DEF DropAppend, SentAppend, ParkAppend, SubmitOk, SubmitUnavailable,
             SubmitTimedOut, SubmitRejected, SentMark, ParkShelve, DrainAt
    <3> QED BY <2>1, <2>2, <3>1 DEF QueueInv
  <2> QED BY <1>2, <2>4, <2>5, <2>6, <2>7, <2>8, <2>9, <2>10 DEF Drain
<1>3. CASE Compact
  <2>1. /\ UNCHANGED <<phase, pending, batch, cur, Active>>
        /\ dpc[Active] \in {"maybeCompact", "replace"} /\ dpc'[Active] \in {"idle", "replace"}
        /\ dpc'[Active] = "replace" => dpc[Active] = "maybeCompact"
    BY <1>3, Alone DEF Compact, CompactSkip, CompactRead, CompactReplace, CompactFails, DrainAt, TypeOK, Drainers
  <2> QED BY <2>1 DEF QueueInv
<1>4. CASE Repair
  <2>1. UNCHANGED <<phase, pending, batch, dpc, cur, Active>>
    BY <1>0, <1>4 DEF Repair, RepairLoad, RepairExit, RequeueDrop, RequeueAppend, RequeueFails
  <2> QED BY <2>1 DEF QueueInv
<1>5. CASE Crash \/ Exit \/ Stop
  <2>1. batch'[Active'] = {} /\ dpc'[Active'] = "idle"
    BY <1>5, Turns
  <2> QED BY <2>1 DEF QueueInv
<1>6. CASE Start
  <2>1. /\ phase = "down" /\ phase' = "up" /\ UNCHANGED <<batch, dpc, cur, Active>>
        /\ dpc[Active] = "idle" /\ batch[Active] = {}
    BY <1>6, Turns DEF Start, QueueInv
  <2> QED BY <2>1 DEF QueueInv
<1> QED BY <1>1, <1>2, <1>3, <1>4, <1>5, <1>6 DEF Next, Server

\* A step that writes nothing down, parks nothing, and takes out of memory only
\* what the log says is done.
LEMMA RestQuiet ==
  ASSUME RestInv, UNCHANGED <<disk, phase, parked, requeued, Active>>,
         repair'.todo \subseteq repair.todo \union disk.parked,
         pending' \subseteq pending,
         \A e \in pending \ pending' : KeyOf[e] \in disk.done,
         \/ UNCHANGED <<dpc, cur>>
         \/ {dpc[Active], dpc'[Active]} \intersect {"parkPop", "parkShelve"} = {},
         \A c \in Callers : /\ pc'[c] = "insert" <=> pc[c] = "insert"
                            /\ pc[c] = "insert" => arg'[c] = arg[c]
  PROVE  RestInv'
<1>1. /\ Parking' = Parking
      /\ dpc'[Active] = "parkPop" <=> dpc[Active] = "parkPop"
      /\ dpc[Active] = "parkPop" => cur'[Active] = cur[Active]
  BY DEF Parking
<1>2. \A e : (Waits(e) <=> Waits(e)') /\ (Shelved(e) <=> Shelved(e)')
  BY DEF Waits, Shelved
<1>3. \A e \in pending' : Waits(e)' \/ (e = cur'[Active] /\ dpc'[Active] = "parkPop")
  BY <1>1, <1>2 DEF RestInv
<1>4. \A c \in Callers : pc'[c] = "insert" => Waits(arg[c])'
  BY DEF RestInv, Waits
<1>5. phase' = "up" => \A e \in disk'.pending :
        \/ KeyOf[e] \in disk'.done \/ e \in pending' \union disk'.parked
        \/ \E c \in Callers : pc'[c] = "insert" /\ arg'[c] = e
  BY DEF RestInv
<1>6. \A e \in parked' \union Parking' \union repair'.todo : Shelved(e)'
  BY <1>1, <1>2 DEF RestInv, Shelved
<1> QED BY <1>1, <1>3, <1>4, <1>5, <1>6 DEF RestInv

LEMMA RestEnqueue ==
  ASSUME TypeOK, LoneInv, CopyInv, NewInv, RestInv, NEW c \in Callers, Enqueue(c)
  PROVE  RestInv'
<1> USE DEF log, memory, callers, drains, operator, chain
<1>0. /\ tail = NoTail /\ pc \in [Callers -> Steps] /\ arg \in [Callers -> Entry \union {NoEntry}]
      /\ phase' = phase => Active' = Active
  BY Alone DEF CopyInv, TypeOK
<1>1. CASE \/ \E e \in Entry : EnqueueCheckDone(c, e)
           \/ EnqueueCheckPending(c) \/ EnqueueCheckParked(c) \/ EnqueueRaises(c) \/ EnqueueFails(c)
  <2>1. /\ UNCHANGED <<disk, phase, pending, parked, requeued, repair, dpc, cur, Active>>
        /\ pc[c] # "insert" /\ pc'[c] # "insert"
        /\ \A x \in Callers : x # c => pc'[x] = pc[x] /\ arg'[x] = arg[x]
    BY <1>0, <1>1
       DEF EnqueueCheckDone, EnqueueCheckPending, EnqueueCheckParked, EnqueueRaises, EnqueueFails,
           CallerAt, AppendFails
  <2> QED BY <2>1, RestQuiet
<1>2. CASE EnqueueAppend(c)
  <2>1. /\ pc[c] = "append" /\ pc'[c] = "insert" /\ arg' = arg
        /\ \A x \in Callers : x # c => pc'[x] = pc[x]
        /\ disk'.done = disk.done /\ disk'.parked = disk.parked
        /\ disk'.pending = IF KeyOf[arg[c]] \in disk.done THEN disk.pending
                           ELSE disk.pending \union {arg[c]}
        /\ UNCHANGED <<phase, pending, parked, requeued, repair, dpc, cur, Active>>
    BY <1>0, <1>2, Appended DEF EnqueueAppend, CallerAt
  <2>2. arg[c] # cur[Active] /\ arg[c] \notin disk.parked
    BY <2>1 DEF NewInv, Busy, Known
  <2> QED BY <2>1, <2>2 DEF RestInv, Waits, Shelved, Parking
<1>3. CASE EnqueueInsert(c)
  <2>1. /\ pc[c] = "insert" /\ pc'[c] = "idle" /\ arg' = arg
        /\ \A x \in Callers : x # c => pc'[x] = pc[x]
        /\ pending' = pending \union {arg[c]}
        /\ UNCHANGED <<disk, phase, parked, requeued, repair, dpc, cur, Active>>
    BY <1>0, <1>3 DEF EnqueueInsert, CallerAt
  <2>2. arg[c] \notin parked
    BY <2>1 DEF NewInv, Busy, Known
  <2> QED BY <2>1, <2>2 DEF RestInv, Waits, Shelved, Parking
<1> QED BY <1>1, <1>2, <1>3 DEF Enqueue

LEMMA RestDrain ==
  ASSUME TypeOK, LoneInv, CopyInv, NewInv, QueueInv, RestInv, NEW d \in Drainers, Drain(d)
  PROVE  RestInv'
<1> USE DEF log, memory, callers, drains, operator, chain
<1>1. d = Active /\ Active' = Active /\ phase' = phase /\ phase # "down" /\ tail = NoTail
  BY Alone DEF CopyInv
<1>2. /\ dpc \in [Drainers -> DrainSteps] /\ Active \in Drainers
      /\ cur \in [Drainers -> Entry \union {NoEntry}]
  BY Alone DEF TypeOK
<1>3. CASE \/ DrainBegin(d) \/ DrainEnd(d) \/ DrainFails(d)
           \/ \E e \in Entry : DrainSkip(d, e)
           \/ SubmitOk(d) \/ SubmitUnavailable(d) \/ SubmitTimedOut(d)
           \/ SubmitRejected(d) \/ SentMark(d)
  <2>1. /\ UNCHANGED <<disk, phase, pending, parked, requeued, repair, pc, arg, Active>>
        /\ {dpc[Active], dpc'[Active]} \intersect {"parkPop", "parkShelve"} = {}
    BY <1>1, <1>2, <1>3
       DEF DrainBegin, DrainEnd, DrainFails, DrainSkip, SubmitOk, SubmitUnavailable,
           SubmitTimedOut, SubmitRejected, SentMark, DrainAt, AppendFails, AppendSteps
  <2> QED BY <2>1, RestQuiet
<1>4. CASE SentPop(d) \/ \E e \in Entry : DrainTake(d, e)
  <2>1. /\ UNCHANGED <<disk, phase, parked, requeued, repair, pc, arg, Active>>
        /\ {dpc[Active], dpc'[Active]} \intersect {"parkPop", "parkShelve"} = {}
        /\ pending' \subseteq pending
    BY <1>1, <1>2, <1>4 DEF SentPop, DrainTake, DrainAt
  <2>2. \A e \in pending \ pending' : KeyOf[e] \in disk.done
    <3>1. CASE SentPop(d)
      BY <1>1, <3>1 DEF SentPop, DrainAt, CopyInv
    <3>2. CASE \E e \in Entry : DrainTake(d, e)
      <4>1. disk.done = done
        BY <1>1, <3>2 DEF DrainTake, DrainAt, CopyInv
      <4> QED BY <3>2, <4>1 DEF DrainTake
    <3> QED BY <1>4, <3>1, <3>2
  <2> QED BY <2>1, <2>2, RestQuiet
<1>5. CASE DropAppend(d) \/ SentAppend(d)
  <2>1. /\ {dpc[Active], dpc'[Active]} \intersect {"parkPop", "parkShelve"} = {}
        /\ UNCHANGED <<phase, pending, parked, requeued, repair, pc, arg, cur, Active>>
        /\ disk'.done = disk.done \union {KeyOf[cur[Active]]}
        /\ disk'.parked = disk.parked /\ disk'.pending = disk.pending \ {cur[Active]}
    BY <1>1, <1>2, <1>5, Appended DEF DropAppend, SentAppend, DrainAt
  <2> QED BY <2>1 DEF RestInv, Waits, Shelved, Parking
<1>6. CASE ParkAppend(d)
  <2>1. /\ dpc[Active] = "parkAppend" /\ dpc'[Active] = "parkPop"
        /\ UNCHANGED <<phase, pending, parked, requeued, repair, pc, arg, cur, Active>>
        /\ disk'.done = disk.done
        /\ disk'.parked = disk.parked \union (disk.pending \intersect {cur[Active]})
        /\ disk'.pending = disk.pending \ {cur[Active]}
    BY <1>1, <1>2, <1>6, Appended DEF ParkAppend, DrainAt
  <2>2. Waits(cur[Active]) /\ \A c \in Callers : pc[c] = "insert" => arg[c] # cur[Active]
    BY <2>1 DEF QueueInv, RestInv, NewInv, Busy, Known
  <2> QED BY <2>1, <2>2 DEF RestInv, Waits, Shelved, Parking
<1>7. CASE ParkPop(d)
  <2>1. /\ dpc[Active] = "parkPop" /\ dpc'[Active] = "parkShelve"
        /\ pending' = pending \ {cur[Active]}
        /\ UNCHANGED <<disk, phase, parked, requeued, repair, pc, arg, cur, Active>>
    BY <1>1, <1>2, <1>7 DEF ParkPop, DrainAt
  <2> QED BY <2>1 DEF RestInv, Waits, Shelved, Parking
<1>8. CASE ParkShelve(d)
  <2>1. /\ dpc[Active] = "parkShelve" /\ dpc'[Active] = "next"
        /\ parked' = parked \union {cur[Active]}
        /\ UNCHANGED <<disk, phase, pending, requeued, repair, pc, arg, cur, Active>>
    BY <1>1, <1>2, <1>8 DEF ParkShelve, DrainAt
  <2>2. cur[Active] \notin pending
    BY <2>1 DEF QueueInv
  <2> QED BY <2>1, <2>2 DEF RestInv, Waits, Shelved, Parking
<1> QED BY <1>3, <1>4, <1>5, <1>6, <1>7, <1>8 DEF Drain

LEMMA RestNext ==
  ASSUME ~Tears, TypeOK, LoneInv, CopyInv, NewInv, QueueInv, RestInv, Next, CleanCompaction, LoneShutdown
  PROVE  RestInv'
<1> USE DEF log, memory, callers, drains, operator, chain
<1>0. tail = NoTail /\ (phase' = phase => Active' = Active)
  BY Alone DEF CopyInv
<1>1. CASE \E c \in Callers : Enqueue(c)
  BY <1>1, RestEnqueue
<1>2. CASE \E d \in Drainers : Drain(d)
  BY <1>2, RestDrain
<1>3. CASE Compact
  <2>1. CASE CompactSkip \/ CompactRead \/ CompactFails
    <3>1. /\ UNCHANGED <<disk, phase, pending, parked, requeued, repair, pc, arg, Active>>
          /\ {dpc[Active], dpc'[Active]} \intersect {"parkPop", "parkShelve"} = {}
      BY <1>3, <2>1, Alone DEF CompactSkip, CompactRead, CompactFails, DrainAt, TypeOK, Drainers
    <3> QED BY <3>1, RestQuiet
  <2>2. CASE CompactReplace
    <3>1. /\ disk' = CompactedState /\ dpc'[Active] = "idle"
          /\ \A c \in Callers : pc[c] # "insert"
          /\ \A e \in parked : KeyOf[e] \in done
          /\ UNCHANGED <<phase, pending, parked, requeued, repair, pc, arg, cur, Active>>
      BY <1>3, <2>2, Alone DEF CleanCompaction, Unfinished, CompactReplace, DrainAt, TypeOK, Drainers
    <3>2. disk.done = done
      BY <1>3, <2>2, Alone DEF CompactReplace, DrainAt, CopyInv
    <3>3. /\ disk'.pending = pending \ parked /\ disk'.done = done
          /\ disk'.parked = parked \intersect pending
      BY <3>1 DEF CompactedState
    <3>4. \A e \in repair.todo : KeyOf[e] \in done
      <4>1. phase = "up" /\ Parking = {}
        BY <1>3, <2>2, Alone DEF CompactReplace, DrainAt, Parking
      <4>2. disk.parked \subseteq parked
        BY <4>1 DEF RestInv
      <4>. QED BY <3>1, <3>2, <4>2 DEF RestInv, Shelved
    <3> QED BY <3>1, <3>3, <3>4 DEF RestInv, Waits, Shelved, Parking
  <2> QED BY <1>3, <2>1, <2>2 DEF Compact
<1>4. CASE Repair
  <2>1. ASSUME NEW e \in Entry, RequeueAppend(e) PROVE RestInv'
    <3>1. /\ UNCHANGED <<phase, pending, parked, pc, arg, dpc, cur, Active>>
          /\ requeued' = requeued \union {e}
          /\ e \in repair.todo /\ repair'.todo \subseteq repair.todo
          /\ disk'.done = disk.done /\ disk'.parked = disk.parked
          /\ disk'.pending = IF KeyOf[e] \in disk.done THEN disk.pending
                             ELSE disk.pending \union {e}
      BY <1>0, <2>1, Appended DEF RequeueAppend, TypeOK
    <3> QED BY <3>1 DEF RestInv, Waits, Shelved, Parking
  <2>2. CASE RepairLoad \/ RepairExit \/ \E e \in Entry : RequeueDrop(e)
    <3>1. /\ UNCHANGED <<disk, phase, pending, parked, requeued, pc, arg, dpc, cur, Active>>
          /\ repair'.todo \subseteq repair.todo \union disk.parked
      BY <1>0, <2>2, TailsDiffer DEF RepairLoad, RepairExit, RequeueDrop, Load, TypeOK
    <3> QED BY <3>1, RestQuiet
  <2>3. CASE \E e \in Entry : RequeueFails(e)
    <3>1. /\ UNCHANGED <<disk, phase, pending, parked, requeued, pc, arg, dpc, cur>>
          /\ repair'.todo = {}
      BY <2>3 DEF RequeueFails, AppendFails
    <3>2. Active' = Active /\ repair'.todo \subseteq repair.todo \union disk.parked
      BY <1>0, <3>1
    <3> QED BY <3>1, <3>2, RestQuiet
  <2> QED BY <1>4, <2>1, <2>2, <2>3 DEF Repair
<1>5. CASE Crash \/ Exit
  <2>1. /\ phase' = "down" /\ pending' = {} /\ parked' = {} /\ dpc'[Active'] = "idle"
        /\ \A c \in Callers : pc'[c] = "idle"
        /\ UNCHANGED <<disk, requeued, repair>>
    BY <1>5, Turns DEF Crash, Exit, Stopped
  <2> QED BY <2>1 DEF RestInv, Shelved, Parking
<1>6. CASE Start
  <2>1. /\ phase = "down" /\ pending' = disk.pending /\ parked' = disk.parked
        /\ UNCHANGED <<disk, requeued, repair, pc, arg, dpc, cur>>
    BY <1>0, <1>6, TailsDiffer DEF Start, Load
  <2>2. dpc[Active] = "idle" /\ Active' = Active /\ \A c \in Callers : pc[c] = "idle"
    BY <1>6, <2>1, Turns DEF NewInv, Busy
  <2> QED BY <2>1, <2>2 DEF RestInv, Waits, Shelved, Parking
<1>7. CASE Stop
  <2>1. /\ dpc[Active] = "idle" /\ dpc'[Active'] = "idle" /\ phase # "down"
        /\ UNCHANGED <<disk, pending, parked, requeued, repair, pc, arg>>
    BY <1>7, Turns DEF Stop
  <2> QED BY <2>1 DEF RestInv, Waits, Shelved, Parking
<1> QED BY <1>1, <1>2, <1>3, <1>4, <1>5, <1>6, <1>7 DEF Next, Server

BooksInv == LoneInv /\ CopyInv /\ NewInv /\ QueueInv /\ RestInv

LEMMA BooksAgree ==
  ASSUME ~Tears
  PROVE  Spec /\ [][CleanCompaction /\ LoneShutdown]_vars => []BooksInv
<1>1. Init => BooksInv
  <2> SUFFICES ASSUME Init PROVE BooksInv
    OBVIOUS
  <2>1. CopyInv
    BY DEF Init, CopyInv, Recorded, InHand, EmptyState, Active, Drainers
  <2>2. NoEntry \notin Entry
    BY EntriesAssumption
  <2>3. LoneInv /\ NewInv /\ QueueInv /\ RestInv
    BY <2>2 DEF Init, LoneInv, Active, NewInv, Known, Busy, QueueInv, RestInv, Waits, Shelved,
                Parking, EmptyState, Drainers
  <2> QED BY <2>1, <2>3 DEF BooksInv
<1>2. TypeOK /\ BooksInv /\ [Next]_vars /\ [CleanCompaction /\ LoneShutdown]_vars => BooksInv'
  <2> SUFFICES ASSUME TypeOK, BooksInv, [Next]_vars, [CleanCompaction /\ LoneShutdown]_vars
               PROVE  BooksInv'
    OBVIOUS
  <2>1. CASE UNCHANGED vars
    BY <2>1 DEF vars, log, memory, callers, drains, operator, chain, BooksInv,
                LoneInv, Active, CopyInv, Recorded, InHand, NewInv, Known, Busy, QueueInv,
                RestInv, Waits, Shelved, Parking
  <2>2. CASE Next /\ CleanCompaction /\ LoneShutdown
    BY <2>2, LoneNext, CopyNext, NewNext, QueueNext, RestNext DEF BooksInv
  <2> QED BY <2>1, <2>2
<1> QED BY <1>1, <1>2, TypeCorrect, PTL DEF Spec

\* While every compaction is clean, no line is torn and every shutdown finds the
\* loop asleep: whenever nothing is in progress, a restart brings back every
\* unfinished entry and no other but what the operator put back (_load, _replay
\* and the order of append and insert, append and pop in enqueue, _complete and
\* _park).
THEOREM RestartHarmless ==
  ASSUME ~Tears
  PROVE  Spec /\ [][CleanCompaction /\ LoneShutdown]_vars => []RestartChangesNothing
<1>1. BooksInv => RestartChangesNothing
  <2> SUFFICES ASSUME BooksInv, AtRest PROVE RestartChangesNothing
    BY DEF RestartChangesNothing
  <2>1. Load = disk
    BY TailsDiffer DEF BooksInv, CopyInv, Load
  <2>2. dpc[Active] = "idle" /\ phase = "up" /\ \A c \in Callers : pc[c] = "idle"
    BY DEF AtRest, Active, Drainers
  <2>3. disk.done = done
    BY <2>2 DEF BooksInv, CopyInv
  <2> QED BY <2>1, <2>2, <2>3
          DEF RestartChangesNothing, BooksInv, RestInv, Waits, Shelved, Parking, Unfinished
<1> QED BY <1>1, BooksAgree, PTL

\* Under the same premises, no drain submits an entry that is counted as parked
\* unless the operator put it back (_park pops before it shelves, and enqueue,
\* _load and drain never bring a parked entry back).
THEOREM ParkedStays ==
  ASSUME ~Tears
  PROVE  Spec /\ [][CleanCompaction /\ LoneShutdown]_vars => []ParkedNeverSubmitted
<1>1. BooksInv => ParkedNeverSubmitted
  <2> SUFFICES ASSUME BooksInv, NEW d \in Drainers, dpc[d] = "submit"
               PROVE  cur[d] \notin parked \ requeued
    BY DEF ParkedNeverSubmitted
  <2>1. d = Active
    BY DEF BooksInv, LoneInv, Active, Drainers
  <2> QED BY <2>1 DEF BooksInv, QueueInv, RestInv
<1> QED BY <1>1, BooksAgree, PTL

-----------------------------------------------------------------------------
(* The promise.                                                             *)

Owed == Keys(disk.pending \union disk.parked) \union disk.done

\* What the three kinds of append are in the promise's terms.
LEMMA AppendsPromised ==
  ASSUME TypeOK, tail = NoTail, NEW e \in Entry, landed' = landed
  PROVE  /\ AppendLine("enqueue", e) => Promise!TakeOn(KeyOf[e]) \/ UNCHANGED Promise!vars
         /\ AppendLine("parked", e) => UNCHANGED Promise!vars
         /\ AppendLine("sent", e) /\ KeyOf[e] \in Owed /\ landed[KeyOf[e]] > 0
              => Promise!Settle(KeyOf[e]) \/ UNCHANGED Promise!vars
<1>1. Load = disk /\ (tail' = NoTail => Load' = disk')
  BY TailsDiffer DEF Load
<1>2. ASSUME AppendLine("enqueue", e)
      PROVE  Promise!TakeOn(KeyOf[e]) \/ UNCHANGED Promise!vars
  <2>1. /\ tail' = NoTail /\ disk'.done = disk.done /\ disk'.parked = disk.parked
        /\ disk'.pending = IF KeyOf[e] \in disk.done THEN disk.pending
                           ELSE disk.pending \union {e}
    BY <1>2, Appended
  <2>2. Owed' = Owed \union {KeyOf[e]}
    BY <2>1 DEF Owed, Keys
  <2>3. CASE KeyOf[e] \in Owed
    BY <1>1, <2>1, <2>2, <2>3 DEF Promise!vars, Owed
  <2>4. CASE KeyOf[e] \notin Owed
    BY <1>1, <2>1, <2>2, <2>4 DEF Promise!TakeOn, Owed
  <2> QED BY <2>3, <2>4
<1>3. ASSUME AppendLine("parked", e) PROVE UNCHANGED Promise!vars
  <2>1. /\ tail' = NoTail /\ disk'.done = disk.done
        /\ disk'.parked = disk.parked \union (disk.pending \intersect {e})
        /\ disk'.pending = disk.pending \ {e}
    BY <1>3, Appended
  <2>2. disk'.pending \union disk'.parked = disk.pending \union disk.parked
    BY <2>1
  <2>3. Owed' = Owed
    BY <2>1, <2>2 DEF Owed, Keys
  <2> QED BY <1>1, <2>1, <2>3 DEF Promise!vars, Owed
<1>4. ASSUME AppendLine("sent", e), KeyOf[e] \in Owed, landed[KeyOf[e]] > 0
      PROVE  Promise!Settle(KeyOf[e]) \/ UNCHANGED Promise!vars
  <2>1. /\ tail' = NoTail /\ disk'.done = disk.done \union {KeyOf[e]}
        /\ disk'.parked = disk.parked /\ disk'.pending = disk.pending \ {e}
    BY <1>4, Appended
  <2>2. Owed' = Owed
    BY <1>4, <2>1 DEF Owed, Keys
  <2>3. CASE KeyOf[e] \in disk.done
    BY <1>1, <2>1, <2>2, <2>3 DEF Promise!vars, Owed
  <2>4. CASE KeyOf[e] \notin disk.done
    BY <1>1, <1>4, <2>1, <2>2, <2>4 DEF Promise!Settle, Owed
  <2> QED BY <2>3, <2>4
<1> QED BY <1>2, <1>3, <1>4

\* A step that writes no line and submits nothing is a stutter.
LEMMA PromiseQuiet ==
  ASSUME tail = NoTail, UNCHANGED <<disk, tail, landed>>
  PROVE  UNCHANGED Promise!vars
BY TailsDiffer DEF Load, Promise!vars, Keys

LEMMA PromiseDrain ==
  ASSUME TypeOK, LandedInv, BooksInv, NEW d \in Drainers, Drain(d), ~Tears
  PROVE  [Promise!Next]_(Promise!vars)
<1> USE DEF log, memory, callers, drains, operator, chain
<1>1. d = Active /\ Active \in Drainers /\ tail = NoTail /\ cur[Active] \in Entry \union {NoEntry}
  BY Alone DEF BooksInv, CopyInv, TypeOK
<1>2. dpc[Active] \in {"submit", "sentAppend", "dropAppend", "parkAppend"} =>
        /\ cur[Active] \in Entry /\ KeyOf[cur[Active]] \in Key
        /\ dpc[Active] # "parkAppend" => KeyOf[cur[Active]] \in Owed
  <2> SUFFICES ASSUME dpc[Active] \in {"submit", "sentAppend", "dropAppend", "parkAppend"}
               PROVE  /\ cur[Active] \in Entry /\ KeyOf[cur[Active]] \in Key
                      /\ dpc[Active] # "parkAppend" => KeyOf[cur[Active]] \in Owed
    OBVIOUS
  <2>1. cur[Active] \in Entry /\ KeyOf[cur[Active]] \in Key
    BY <1>1, EntriesAssumption DEF TypeOK
  <2>2. dpc[Active] \in {"submit", "sentAppend"} => Waits(cur[Active])
    BY DEF BooksInv, QueueInv, RestInv
  <2>3. dpc[Active] = "dropAppend" => KeyOf[cur[Active]] \in disk.done
    BY DEF BooksInv, CopyInv
  <2> QED BY <2>1, <2>2, <2>3 DEF Waits, Owed, Keys
<1>3. CASE DropAppend(d) \/ SentAppend(d)
  <2>1. /\ dpc[Active] \in {"sentAppend", "dropAppend"} /\ landed' = landed
        /\ AppendLine("sent", cur[Active])
    BY <1>1, <1>3 DEF DropAppend, SentAppend, DrainAt
  <2>2. landed[KeyOf[cur[Active]]] > 0
    BY <1>1, <2>1 DEF LandedInv
  <2> QED BY <1>1, <1>2, <2>1, <2>2, AppendsPromised DEF Promise!Next
<1>4. CASE ParkAppend(d)
  <2>1. dpc[Active] = "parkAppend" /\ landed' = landed /\ AppendLine("parked", cur[Active])
    BY <1>1, <1>4 DEF ParkAppend, DrainAt
  <2> QED BY <1>1, <1>2, <2>1, AppendsPromised
<1>5. CASE SubmitOk(d) \/ SubmitTimedOut(d)
  <2>1. /\ dpc[Active] = "submit" /\ UNCHANGED <<disk, tail>>
        /\ landed' = [landed EXCEPT ![KeyOf[cur[Active]]] = landed[KeyOf[cur[Active]]] + 1]
    BY <1>1, <1>5 DEF SubmitOk, SubmitTimedOut, Land, DrainAt
  <2>2. KeyOf[cur[Active]] \in Owed \ disk.done
    BY <1>2, <2>1 DEF BooksInv, CopyInv
  <2>3. Load = disk /\ Load' = Load
    BY <1>1, <2>1, TailsDiffer DEF Load
  <2>4. Promise!Submit(KeyOf[cur[Active]])
    BY <2>1, <2>2, <2>3 DEF Promise!Submit, Owed, Keys
  <2> QED BY <1>2, <2>1, <2>4 DEF Promise!Next
<1>6. CASE UNCHANGED <<disk, tail, landed>>
  BY <1>1, <1>6, PromiseQuiet
<1>7. CASE DrainFails(d)
  <2>1. UNCHANGED <<disk, tail, landed>>
    BY <1>7 DEF DrainFails, AppendFails
  <2> QED BY <1>6, <2>1
<1> QED BY <1>3, <1>4, <1>5, <1>6, <1>7
    DEF Drain, DrainBegin, DrainEnd, DrainSkip, DrainTake, SubmitUnavailable,
        SubmitRejected, SentPop, SentMark, ParkPop, ParkShelve

\* Every step of the outbox is a step of its promise or none: what it has taken
\* on stays owed until it is settled, nothing is settled that did not land, and
\* nothing is submitted that is not owed (enqueue, drain, _complete, _park,
\* requeue_parked, _load, compact), under the same premises.
THEOREM PromiseKept ==
  ASSUME ~Tears
  PROVE  Spec /\ [][CleanCompaction /\ LoneShutdown]_vars => KeepsPromise
<1>1. Init => Promise!Init
  BY TailsDiffer DEF Init, Promise!Init, Load, EmptyState, Keys
<1>2. TypeOK /\ LandedInv /\ BooksInv /\ [Next]_vars /\ [CleanCompaction /\ LoneShutdown]_vars
        => [Promise!Next]_(Promise!vars)
  <2> SUFFICES ASSUME TypeOK, LandedInv, BooksInv, [Next]_vars, [CleanCompaction /\ LoneShutdown]_vars
               PROVE  [Promise!Next]_(Promise!vars)
    OBVIOUS
  <2> USE DEF log, memory, callers, drains, operator, chain
  <2>1. tail = NoTail
    BY DEF BooksInv, CopyInv
  <2>2. CASE UNCHANGED <<disk, tail, landed>>
    BY <2>1, <2>2, PromiseQuiet
  <2>3. ASSUME NEW c \in Callers, Enqueue(c) PROVE [Promise!Next]_(Promise!vars)
    <3>1. CASE EnqueueAppend(c)
      <4>1. arg[c] \in Entry /\ AppendLine("enqueue", arg[c]) /\ landed' = landed
        BY <3>1 DEF EnqueueAppend, CallerAt, TypeOK
      <4>2. KeyOf[arg[c]] \in Key
        BY <4>1, EntriesAssumption
      <4> QED BY <2>1, <4>1, <4>2, AppendsPromised DEF Promise!Next
    <3>2. CASE EnqueueFails(c)
      BY <2>2, <3>2 DEF EnqueueFails, AppendFails
    <3> QED BY <2>2, <2>3, <3>1, <3>2
        DEF Enqueue, EnqueueCheckDone, EnqueueCheckPending, EnqueueCheckParked, EnqueueRaises,
            EnqueueInsert
  <2>4. ASSUME NEW e \in Entry, RequeueAppend(e) PROVE [Promise!Next]_(Promise!vars)
    <3>1. AppendLine("enqueue", e) /\ landed' = landed
      BY <2>4 DEF RequeueAppend
    <3>2. KeyOf[e] \in Key
      BY EntriesAssumption
    <3> QED BY <2>1, <3>1, <3>2, AppendsPromised DEF Promise!Next
  <2>5. CASE \/ CompactSkip \/ CompactRead \/ CompactFails \/ RepairLoad \/ RepairExit
             \/ \E e \in Entry : RequeueDrop(e) \/ RequeueFails(e)
    BY <2>2, <2>5 DEF CompactSkip, CompactRead, CompactFails, RepairLoad, RepairExit, RequeueDrop,
                      RequeueFails, AppendFails
  <2>6. CASE Server
    BY <2>2, <2>6 DEF Server, Crash, Stop, Exit, Start, Stopped
  <2>7. CASE UNCHANGED vars
    BY <2>2, <2>7 DEF vars
  <2>8. CASE CompactReplace /\ CleanCompaction
    <3>1. /\ disk' = CompactedState /\ tail' = NoTail /\ landed' = landed
          /\ \A c \in Callers : pc[c] # "insert"
          /\ \A e \in parked : KeyOf[e] \in done
      BY <2>8 DEF CompactReplace, CleanCompaction, Unfinished
    <3>2. phase = "up" /\ disk.done = done /\ Parking = {}
      <4>1. phase = "up" /\ Active = "loop" /\ dpc["loop"] = "replace"
        BY <2>8, Alone DEF Compact, CompactReplace, DrainAt, BooksInv
      <4> QED BY <4>1 DEF BooksInv, CopyInv, Parking
    <3>3. /\ \A e \in disk.parked : KeyOf[e] \in done
          /\ \A e \in disk.pending : KeyOf[e] \in done \/ e \in pending \ parked
          /\ \A e \in pending : KeyOf[e] \in done \/ e \in disk.pending
      <4>1. dpc[Active] = "replace"
        BY <2>8, Alone DEF Compact, CompactReplace, DrainAt, BooksInv
      <4> QED BY <3>1, <3>2, <4>1 DEF BooksInv, RestInv, Waits
    <3>4. Owed' = Owed
      BY <3>1, <3>2, <3>3 DEF Owed, Keys, CompactedState
    <3>5. Load = disk /\ Load' = disk' /\ disk'.done = disk.done
      BY <2>1, <3>1, <3>2, TailsDiffer DEF Load, CompactedState
    <3> QED BY <3>1, <3>4, <3>5 DEF Promise!vars, Owed
  <2> QED BY <2>3, <2>4, <2>5, <2>6, <2>7, <2>8, PromiseDrain DEF Next, Repair, Compact
<1> QED BY <1>1, <1>2, LandedHolds, TypeCorrect, BooksAgree, PTL
    DEF Spec, KeepsPromise, Promise!Spec
=============================================================================
