---------------------------- MODULE RolloverProofs ----------------------------
(***************************************************************************)
(* Theorems about Rollover, for any decisions and bounds.                  *)
(*                                                                         *)
(* Types says what each variable is; on it rest four invariants: a log is  *)
(* in its file before it is handed over (OnDisk), where a decision is while*)
(* its log is closed (Sessions), what has become of a log that another     *)
(* replaces (Succession), and that the other was brought (Lineage).        *)
(***************************************************************************)
EXTENDS Rollover, WellFoundedInduction, TLAPS

Closers == Writers \ {"dossier"}
Past == {"open", "write", "read", "save", "fill", "lookup", "supersede", "enqueue"}
WriterState == [at : Steps, built : Log \union {NoLog}, previous : Log \union {NoLog},
                seen : [Day -> Seq(Log)]]

LogTypes ==
  /\ today \in Day
  /\ logs \in Seq(Log) /\ current \in DOMAIN logs /\ writes \in DOMAIN logs
  /\ \A n \in DOMAIN logs : logs[n].day <= today
  /\ pc \in [Decision -> {"new", "add", "done"}] /\ ref \in [Decision -> DOMAIN logs]

\* A closer has a log from its first step on; the dossier's writer has none, and
\* replaces none.
Sound(w, state) ==
  /\ w \in Closers /\ state.at \in Past => state.built \in Log
  /\ state.at = "supersede" => state.previous \in Log
  /\ w = "dossier" => state.at \in {"idle", "save", "fill"} /\ state.previous = NoLog

CloserTypes ==
  /\ closer \in [Writers -> WriterState]
  /\ \A w \in Writers : Sound(w, closer[w])

DiskTypes ==
  /\ files \in SUBSET Log /\ manifest \in [Day -> Seq(Log)] /\ blank \in BOOLEAN
  /\ owed \in SUBSET Item
  /\ index \in [Log -> {"none", "Active", "Superseded"}]
  /\ missed \in SUBSET Log

Types == LogTypes /\ CloserTypes /\ DiskTypes

LEMMA Shapes ==
  /\ NoLog \notin Log
  /\ \A day \in Day : Fresh(day) \in Log
  /\ \A log \in Log : Add(log) \in Item /\ Update(log) \in Item
  /\ \A a, b \in Log : (Add(a) = Add(b) \/ Update(a) = Update(b)) => a = b
  /\ \A a, b \in Log : Add(a) # Update(b)
  /\ Unlisted \in [Day -> Seq(Log)]
  /\ Resting \in WriterState
<1>1. NoLog \notin Log
  <2>1. MaxDay + 1 \notin Day
    BY RolloverAssumption DEF Day
  <2>. QED BY <2>1 DEF NoLog, Log
<1>2. \A day \in Day : Fresh(day) \in Log
  BY DEF Fresh, Log
<1>3. \A log \in Log : Add(log) \in Item /\ Update(log) \in Item
  BY DEF Add, Update, Item
<1>4. /\ \A a, b \in Log : (Add(a) = Add(b) \/ Update(a) = Update(b)) => a = b
      /\ \A a, b \in Log : Add(a) # Update(b)
  <2>1. \A a, b : Add(a) = Add(b) => Add(a).log = Add(b).log
    OBVIOUS
  <2>2. \A a, b : Update(a) = Update(b) => Update(a).log = Update(b).log
    OBVIOUS
  <2>3. \A a, b : Add(a) = Update(b) => Add(a).op = Update(b).op
    OBVIOUS
  <2>. QED BY <2>1, <2>2, <2>3 DEF Add, Update
<1>5. Unlisted \in [Day -> Seq(Log)]
  BY DEF Unlisted
<1>6. Resting \in WriterState
  BY <1>5 DEF Resting, WriterState, Steps
<1>. QED BY <1>1, <1>2, <1>3, <1>4, <1>5, <1>6

\* The manifest as it is read, and what a publication replaces.
LEMMA Reading ==
  ASSUME DiskTypes PROVE Readable \in [Day -> Seq(Log)]
BY Shapes DEF DiskTypes, Readable

LEMMA Replacing ==
  ASSUME NEW entries \in Seq(Log)
  PROVE  Replaced(entries) \in Log \union {NoLog}
<1>1. CASE entries = <<>>
  BY <1>1 DEF Replaced
<1>2. CASE entries # <<>>
  <2>1. Len(entries) \in DOMAIN entries
    BY <1>2
  <2>. QED BY <1>2, <2>1 DEF Replaced
<1>. QED BY <1>1, <1>2

\* One writer takes a step.
LEMMA Advance ==
  ASSUME CloserTypes, NEW w \in Writers, NEW state \in WriterState, Sound(w, state),
         closer' = [closer EXCEPT ![w] = state]
  PROVE  CloserTypes'
<1>1. closer' \in [Writers -> WriterState]
  BY DEF CloserTypes
<1>2. closer'[w] = state /\ \A v \in Writers \ {w} : closer'[v] = closer[v]
  BY DEF CloserTypes
<1>3. \A v \in Writers : Sound(v, closer'[v])
  BY <1>2 DEF CloserTypes
<1>. QED BY <1>1, <1>3 DEF CloserTypes

\* One writer takes a step that changes nothing else of it.
LEMMA AdvanceAt ==
  ASSUME CloserTypes, NEW w \in Writers, NEW from \in Steps, NEW to \in Steps,
         At(w, from, to), Sound(w, [closer[w] EXCEPT !.at = to])
  PROVE  CloserTypes'
<1>1. [closer[w] EXCEPT !.at = to] \in WriterState
  BY DEF CloserTypes, WriterState
<1>2. closer' = [closer EXCEPT ![w] = [closer[w] EXCEPT !.at = to]]
  BY DEF At, CloserTypes
<1>. QED BY <1>1, <1>2, Advance

\* What such a step leaves alone.
LEMMA Steady ==
  ASSUME CloserTypes, NEW w \in Writers, NEW from, NEW to, At(w, from, to)
  PROVE  /\ closer[w].at = from /\ closer'[w].at = to
         /\ closer'[w].built = closer[w].built /\ closer'[w].previous = closer[w].previous
         /\ closer'[w].seen = closer[w].seen
         /\ \A v \in Writers \ {w} : closer'[v] = closer[v]
BY DEF At, CloserTypes, WriterState

\* A writer that has nothing in hand.
LEMMA Cleared ==
  ASSUME NEW to
  PROVE  /\ [Resting EXCEPT !.at = to].at = to
         /\ [Resting EXCEPT !.at = to].built = NoLog
         /\ [Resting EXCEPT !.at = to].previous = NoLog
         /\ [Resting EXCEPT !.at = to].seen = Unlisted
         /\ Resting.at = "idle" /\ Resting.built = NoLog
         /\ Resting.previous = NoLog /\ Resting.seen = Unlisted
BY DEF Resting

\* A writer that has filled the manifest.
LEMMA Filled ==
  ASSUME CloserTypes, NEW w \in Writers, FillManifest(w)
  PROVE  /\ closer[w].at = "fill" /\ closer[w].seen \in [Day -> Seq(Log)]
         /\ \A v \in Writers \ {w} : closer'[v] = closer[v]
         /\ w = "dossier" => closer'[w] = Resting
         /\ w # "dossier" => /\ closer'[w].at = "lookup" /\ closer'[w].seen = Unlisted
                             /\ closer'[w].built = closer[w].built
                             /\ closer'[w].previous = closer[w].previous
<1>1. closer[w].at = "fill" /\ closer[w].seen \in [Day -> Seq(Log)]
  BY DEF FillManifest, CloserTypes, WriterState
<1>2. \A v \in Writers \ {w} : closer'[v] = closer[v]
  BY DEF FillManifest, CloserTypes
<1>3. CASE w = "dossier"
  BY <1>1, <1>2, <1>3 DEF FillManifest, CloserTypes
<1>4. CASE w # "dossier"
  <2>. DEFINE state == [closer[w] EXCEPT !.at = "lookup", !.seen = Unlisted]
  <2>1. closer' = [closer EXCEPT ![w] = state]
    BY <1>4 DEF FillManifest
  <2>2. closer'[w] = state
    BY <2>1 DEF CloserTypes
  <2>3. /\ state.at = "lookup" /\ state.seen = Unlisted
        /\ state.built = closer[w].built /\ state.previous = closer[w].previous
    BY DEF CloserTypes, WriterState
  <2>. QED BY <1>1, <1>2, <1>4, <2>2, <2>3
<1>. QED BY <1>3, <1>4

\* A writer that has failed.
LEMMA Failed ==
  ASSUME CloserTypes, NEW w \in Writers, Fail(w)
  PROVE  /\ closer'[w].at \in {"idle", "failed"} /\ closer'[w].built = NoLog
         /\ closer'[w].previous = NoLog /\ closer'[w].seen = Unlisted
         /\ \A v \in Writers \ {w} : closer'[v] = closer[v]
<1>. DEFINE to == IF w = "stop" THEN "failed" ELSE "idle"
            state == [Resting EXCEPT !.at = to]
<1>1. closer' = [closer EXCEPT ![w] = state]
  BY DEF Fail
<1>2. closer'[w] = state /\ \A v \in Writers \ {w} : closer'[v] = closer[v]
  BY <1>1 DEF CloserTypes
<1>3. /\ state.at = to /\ state.built = NoLog /\ state.previous = NoLog
      /\ state.seen = Unlisted
  BY Cleared
<1>. QED BY <1>2, <1>3

LEMMA Kept ==
  /\ LogTypes /\ UNCHANGED <<today, session, engine>> => LogTypes'
  /\ CloserTypes /\ UNCHANGED closer => CloserTypes'
  /\ DiskTypes /\ UNCHANGED <<disk, owed, index, missed>> => DiskTypes'
<1>1. LogTypes /\ UNCHANGED <<today, session, engine>> => LogTypes'
  BY DEF LogTypes, session, engine
<1>2. CloserTypes /\ UNCHANGED closer => CloserTypes'
  BY DEF CloserTypes
<1>3. DiskTypes /\ UNCHANGED <<disk, owed, index, missed>> => DiskTypes'
  BY DEF DiskTypes, disk
<1>. QED BY <1>1, <1>2, <1>3

\* A new log is dated today.
LEMMA Renewed ==
  ASSUME LogTypes, NEW w \in Writers, Renew(w),
         UNCHANGED <<today, writes, engine>>
  PROVE  LogTypes'
<1>1. CASE w = "stop"
  <2>1. logs' = logs /\ current' = Len(logs)
    BY <1>1 DEF Renew
  <2>. QED BY <2>1 DEF LogTypes, engine
<1>2. CASE w # "stop"
  <2>1. logs' = Append(logs, Fresh(today)) /\ current' = Len(logs')
    BY <1>2 DEF Renew
  <2>2. Fresh(today) \in Log /\ Fresh(today).day = today
    BY Shapes DEF LogTypes, Fresh
  <2>3. /\ logs' \in Seq(Log) /\ Len(logs') = Len(logs) + 1
        /\ \A n \in DOMAIN logs : n \in DOMAIN logs' /\ logs'[n] = logs[n]
        /\ \A n \in DOMAIN logs' : n \in DOMAIN logs \/ logs'[n] = Fresh(today)
    BY <2>1, <2>2 DEF LogTypes
  <2>. QED BY <2>1, <2>2, <2>3 DEF LogTypes, engine, Day
<1>. QED BY <1>1, <1>2

-----------------------------------------------------------------------------
(* What each variable is.                                                   *)

LEMMA TypesInit == Init => Types
<1>. SUFFICES ASSUME Init PROVE Types
  OBVIOUS
<1>1. 0 \in Day
  BY RolloverAssumption DEF Day
<1>2. Fresh(0) \in Log
  BY <1>1, Shapes
<1>3. LogTypes
  BY <1>1, <1>2 DEF Init, Fresh, LogTypes
<1>4. CloserTypes
  BY Shapes DEF Init, Resting, CloserTypes, Sound, Past
<1>5. DiskTypes
  BY Shapes DEF Init, DiskTypes
<1>. QED BY <1>3, <1>4, <1>5 DEF Types

\* The steps of the decisions, and those that begin something.
LEMMA TypesBegin ==
  ASSUME Types,
         \/ \E d \in Decision : Find(d) \/ AddEntry(d)
         \/ TickBegin \/ ForceBegin \/ StopBegin \/ PublishDossier
  PROVE  Types'
<1>1. ASSUME NEW d \in Decision, Find(d) PROVE Types'
  <2>1. LogTypes'
    BY <1>1 DEF Types, LogTypes, Find, session
  <2>2. UNCHANGED closer /\ UNCHANGED <<disk, owed, index, missed>>
    BY <1>1 DEF Find, history
  <2>. QED BY <2>1, <2>2, Kept DEF Types
<1>2. ASSUME NEW d \in Decision, AddEntry(d) PROVE Types'
  <2>1. ref[d] \in DOMAIN logs /\ logs[ref[d]] \in Log
    BY DEF Types, LogTypes
  <2>2. [logs[ref[d]] EXCEPT !.decisions = @ \union {d}] \in Log
    BY <2>1 DEF Log
  <2>3. /\ logs' \in Seq(Log) /\ DOMAIN logs' = DOMAIN logs
        /\ \A n \in DOMAIN logs : logs'[n].day = logs[n].day
    BY <1>2, <2>1, <2>2 DEF Types, LogTypes, AddEntry
  <2>4. LogTypes'
    BY <1>2, <2>3 DEF Types, LogTypes, AddEntry
  <2>5. UNCHANGED closer /\ UNCHANGED <<disk, owed, index, missed>>
    BY <1>2 DEF AddEntry
  <2>. QED BY <2>4, <2>5, Kept DEF Types
<1>3. ASSUME NEW w \in Closers, At(w, "idle", "build"),
             UNCHANGED <<today, session, engine, disk, owed, index, missed>>
      PROVE  Types'
  <2>1. w \in Writers /\ w # "dossier"
    BY DEF Closers
  <2>2. Sound(w, [closer[w] EXCEPT !.at = "build"])
    BY <2>1 DEF Types, CloserTypes, WriterState, Sound, Past
  <2>3. CloserTypes'
    BY <1>3, <2>1, <2>2, AdvanceAt DEF Types, Steps
  <2>. QED BY <1>3, <2>3, Kept DEF Types
<1>4. CASE TickBegin \/ ForceBegin \/ StopBegin
  BY <1>3, <1>4 DEF TickBegin, ForceBegin, StopBegin, Closers, Writers, history
<1>5. CASE PublishDossier
  <2>. DEFINE state == [Resting EXCEPT !.at = "save", !.seen = Readable]
  <2>1. Readable \in [Day -> Seq(Log)]
    BY Reading DEF Writers, Types
  <2>2. state \in WriterState /\ Sound("dossier", state)
    BY <2>1, Shapes DEF WriterState, Steps, Sound, Resting, Closers
  <2>3. CloserTypes'
    BY <1>5, <2>2, Advance DEF PublishDossier, Types, Writers
  <2>. QED BY <1>5, <2>3, Kept DEF PublishDossier, Types, history
<1>. QED BY <1>1, <1>2, <1>4, <1>5

\* The steps of a closer.
LEMMA TypesClose ==
  ASSUME Types, NEW w \in Writers, Close(w)
  PROVE  Types'
<1>. LogTypes /\ CloserTypes /\ DiskTypes
  BY DEF Types
<1>0. /\ closer[w] \in WriterState /\ Sound(w, closer[w])
      /\ closer[w].at \notin {"idle", "save", "fill"} => w \in Closers
  BY DEF CloserTypes, Sound, Closers
<1>1. CASE Build(w)
  <2>. DEFINE state == [closer[w] EXCEPT !.at = "open", !.built = logs[current]]
  <2>1. logs[current] \in Log
    BY DEF LogTypes
  <2>2. state \in WriterState /\ Sound(w, state)
    BY <1>0, <1>1, <2>1 DEF Build, WriterState, Steps, Sound, Closers
  <2>3. closer' = [closer EXCEPT ![w] = state]
    BY <1>1 DEF Build, CloserTypes
  <2>4. CloserTypes'
    BY <2>2, <2>3, Advance
  <2>. QED BY <1>1, <2>4, Kept DEF Build, Types, history
<1>10. CASE OpenFile(w) \/ WriteFile(w)
  <2>1. /\ closer[w].at \in {"open", "write"} /\ w \in Closers /\ closer[w].built \in Log
        /\ \E to \in {"write", "read"} : At(w, closer[w].at, to)
    BY <1>0, <1>10 DEF OpenFile, WriteFile, At, Sound, Past
  <2>2. PICK to \in {"write", "read"} : At(w, closer[w].at, to)
    BY <2>1
  <2>3. Sound(w, [closer[w] EXCEPT !.at = to])
    BY <1>0, <2>1 DEF Sound, Past, WriterState, Closers
  <2>4. CloserTypes'
    BY <2>1, <2>2, <2>3, AdvanceAt DEF Steps
  <2>5. DiskTypes'
    BY <1>10, <2>1 DEF OpenFile, WriteFile, DiskTypes, history
  <2>. QED BY <1>10, <2>4, <2>5, Kept DEF OpenFile, WriteFile, Types
<1>2. CASE ReadManifest(w)
  <2>. DEFINE seen == Readable
              built == closer[w].built
              entries == seen[built.day]
  <2>1. w \in Closers /\ built \in Log /\ built.day \in Day
    BY <1>0, <1>2 DEF ReadManifest, Sound, Past, Log
  <2>2. seen \in [Day -> Seq(Log)] /\ entries \in Seq(Log)
    BY <2>1, Reading
  <2>3. ASSUME Listed(entries, built) PROVE CloserTypes'
    <3>. DEFINE state == [closer[w] EXCEPT !.at = "enqueue"]
    <3>1. state \in WriterState /\ Sound(w, state)
      BY <1>0, <2>1 DEF WriterState, Steps, Sound, Past, Closers
    <3>2. closer' = [closer EXCEPT ![w] = state]
      BY <1>2, <2>3 DEF ReadManifest, CloserTypes
    <3>. QED BY <3>1, <3>2, Advance
  <2>4. ASSUME ~Listed(entries, built) PROVE CloserTypes'
    <3>. DEFINE more == [seen EXCEPT ![built.day] = Append(entries, built)]
                state == [closer[w] EXCEPT !.at = "save", !.previous = Replaced(entries),
                                           !.seen = more]
    <3>1. more \in [Day -> Seq(Log)]
      BY <2>1, <2>2
    <3>2. Replaced(entries) \in Log \union {NoLog}
      BY <2>2, Replacing
    <3>3. state \in WriterState /\ Sound(w, state)
      BY <1>0, <2>1, <3>1, <3>2 DEF WriterState, Steps, Sound, Past, Closers
    <3>4. closer' = [closer EXCEPT ![w] = state]
      BY <1>2, <2>4 DEF ReadManifest, CloserTypes
    <3>. QED BY <3>3, <3>4, Advance
  <2>. QED BY <1>2, <2>3, <2>4, Kept DEF ReadManifest, Types, history
<1>3. CASE OpenManifest(w)
  <2>1. Sound(w, [closer[w] EXCEPT !.at = "fill"])
    BY <1>0, <1>3 DEF OpenManifest, At, Sound, Past, WriterState
  <2>2. CloserTypes'
    BY <1>3, <2>1, AdvanceAt DEF OpenManifest, Steps
  <2>3. DiskTypes'
    BY <1>3 DEF OpenManifest, DiskTypes, history
  <2>. QED BY <1>3, <2>2, <2>3, Kept DEF OpenManifest, Types
<1>4. CASE FillManifest(w)
  <2>. DEFINE state == IF w = "dossier" THEN Resting
                       ELSE [closer[w] EXCEPT !.at = "lookup", !.seen = Unlisted]
  <2>1. state \in WriterState /\ Sound(w, state)
    BY <1>0, <1>4, Shapes DEF FillManifest, WriterState, Steps, Sound, Past, Resting, Closers
  <2>2. closer' = [closer EXCEPT ![w] = state]
    BY <1>4 DEF FillManifest, CloserTypes
  <2>3. CloserTypes'
    BY <2>1, <2>2, Advance
  <2>4. DiskTypes'
    BY <1>0, <1>4, Shapes DEF FillManifest, DiskTypes, WriterState
  <2>. QED BY <1>4, <2>3, <2>4, Kept DEF FillManifest, Types
<1>5. CASE Lookup(w)
  <2>. DEFINE previous == closer[w].previous
              anchored == previous # NoLog /\ index[previous] = "Active"
              to == IF anchored THEN "supersede" ELSE "enqueue"
  <2>1. closer[w].at = "lookup" /\ w \in Closers /\ previous \in Log \union {NoLog}
    BY <1>0, <1>5 DEF Lookup, At, WriterState
  <2>2. Sound(w, [closer[w] EXCEPT !.at = to])
    BY <1>0, <2>1 DEF Sound, Past, WriterState, Closers
  <2>3. CloserTypes'
    BY <1>5, <2>2, AdvanceAt DEF Lookup, Steps
  <2>4. DiskTypes'
    BY <1>5, <2>1 DEF Lookup, DiskTypes, disk
  <2>. QED BY <1>5, <2>3, <2>4, Kept DEF Lookup, Types
<1>6. CASE Supersede(w)
  <2>1. /\ closer[w].at = "supersede" /\ w \in Closers /\ closer[w].previous \in Log
        /\ closer[w].built \in Log
    BY <1>0, <1>6 DEF Supersede, At, Sound, Past
  <2>2. Sound(w, [closer[w] EXCEPT !.at = "enqueue"])
    BY <1>0, <2>1 DEF Sound, Past, WriterState, Closers
  <2>3. CloserTypes'
    BY <1>6, <2>2, AdvanceAt DEF Supersede, Steps
  <2>4. DiskTypes'
    BY <1>6, <2>1, Shapes DEF Supersede, Ask, DiskTypes, disk, history
  <2>. QED BY <1>6, <2>3, <2>4, Kept DEF Supersede, Types
<1>7. CASE EnqueueLog(w)
  <2>. DEFINE state == [Resting EXCEPT !.at = IF w = "stop" THEN "closed" ELSE "repoint"]
  <2>1. w \in Closers /\ closer[w].built \in Log
    BY <1>0, <1>7 DEF EnqueueLog, Sound, Past
  <2>2. state \in WriterState /\ Sound(w, state)
    BY <2>1, Shapes DEF WriterState, Steps, Sound, Past, Resting, Closers
  <2>3. CloserTypes'
    BY <1>7, <2>2, Advance DEF EnqueueLog
  <2>4. DiskTypes'
    BY <1>7, <2>1, Shapes DEF EnqueueLog, Ask, DiskTypes, disk, history
  <2>5. LogTypes'
    BY <1>7, Renewed DEF EnqueueLog
  <2>. QED BY <2>3, <2>4, <2>5 DEF Types
<1>8. CASE Repoint(w)
  <2>1. Sound(w, [closer[w] EXCEPT !.at = "idle"])
    BY <1>0, <1>8 DEF Repoint, At, Sound, Past, WriterState
  <2>2. CloserTypes'
    BY <1>8, <2>1, AdvanceAt DEF Repoint, Steps
  <2>3. LogTypes'
    BY <1>8 DEF Repoint, LogTypes, engine
  <2>. QED BY <1>8, <2>2, <2>3, Kept DEF Repoint, Types, history
<1>9. CASE Fail(w)
  <2>. DEFINE state == [Resting EXCEPT !.at = IF w = "stop" THEN "failed" ELSE "idle"]
  <2>1. state \in WriterState /\ Sound(w, state)
    BY Shapes DEF WriterState, Steps, Sound, Past, Resting
  <2>2. CloserTypes'
    BY <1>9, <2>1, Advance DEF Fail
  <2>3. DiskTypes'
    BY <1>0, <1>9, Reading, Shapes DEF Fail, Cut, DiskTypes, WriterState
  <2>. QED BY <1>9, <2>2, <2>3, Kept DEF Fail, Types
<1>. QED
  BY <1>1, <1>2, <1>3, <1>4, <1>5, <1>6, <1>7, <1>8, <1>9, <1>10 DEF Close

\* What happens to a process from without.
LEMMA TypesWorld ==
  ASSUME Types, Midnight \/ Restart \/ \E log \in Log : Anchor(log)
  PROVE  Types'
<1>. LogTypes /\ CloserTypes /\ DiskTypes
  BY DEF Types
<1>1. CASE Midnight
  <2>1. today' \in Day /\ today <= today'
    BY <1>1, RolloverAssumption DEF Midnight, LogTypes, Day
  <2>2. \A n \in DOMAIN logs : logs[n].day <= today'
    <3>. SUFFICES ASSUME NEW n \in DOMAIN logs PROVE logs[n].day <= today'
      OBVIOUS
    <3>1. logs[n] \in Log /\ logs[n].day <= today
      BY DEF LogTypes
    <3>2. logs[n].day \in Day
      BY <3>1 DEF Log
    <3>3. logs[n].day \in Nat /\ today \in Nat /\ today' \in Nat
      BY <2>1, <3>2, RolloverAssumption DEF LogTypes, Day
    <3>. QED BY <2>1, <3>1, <3>3
  <2>3. LogTypes'
    BY <1>1, <2>1, <2>2 DEF Midnight, LogTypes, session, engine
  <2>. QED BY <1>1, <2>3, Kept DEF Midnight, Types, history
<1>2. CASE Restart
  <2>1. Fresh(today) \in Log /\ Fresh(today).day = today
    BY Shapes DEF LogTypes, Fresh
  <2>2. LogTypes'
    BY <1>2, <2>1 DEF Restart, LogTypes, Day
  <2>3. CloserTypes'
    BY <1>2, Shapes DEF Restart, CloserTypes, Sound, Resting, Past
  <2>4. DiskTypes'
    BY <1>2, Reading DEF Restart, DiskTypes, CloserTypes, WriterState
  <2>. QED BY <2>2, <2>3, <2>4 DEF Types
<1>3. CASE \E log \in Log : Anchor(log)
  <2>1. DiskTypes'
    BY <1>3 DEF Anchor, DiskTypes, disk, history
  <2>. QED BY <1>3, <2>1, Kept DEF Anchor, Types
<1>. QED BY <1>1, <1>2, <1>3

LEMMA TypesNext == Types /\ [Next]_vars => Types'
<1>1. Types /\ Next => Types'
  BY TypesBegin, TypesClose, TypesWorld DEF Next
<1>2. Types /\ UNCHANGED vars => Types'
  BY Kept DEF Types, vars, history
<1>. QED BY <1>1, <1>2

THEOREM AlwaysTypes == Spec => []Types
BY TypesInit, TypesNext, PTL DEF Spec

\* The variables have their types in every state: no log is dated ahead of the
\* clock, and what a closing supersedes is a log.
THEOREM TypeCorrect == Spec => []TypeOK
<1>1. Types => TypeOK
  BY DEF Types, LogTypes, CloserTypes, DiskTypes, TypeOK, WriterState, Sound
<1>. QED BY <1>1, AlwaysTypes, PTL

-----------------------------------------------------------------------------
(* What the closers do with the log they have built.                        *)

\* No closer has come to a log, or to its end, by this step, and none leaves its
\* repointing undone.
Onward ==
  \A v \in Closers :
    /\ closer'[v].at \in Past => closer[v].at \in Past /\ closer'[v].built = closer[v].built
    /\ closer'[v].at = "closed" => closer[v].at = "closed"
    /\ closer[v].at = "repoint" => closer'[v].at = "repoint"

LEMMA OnwardIfKept == UNCHANGED closer => Onward
BY DEF Onward

LEMMA OnwardBegin ==
  ASSUME CloserTypes, TickBegin \/ ForceBegin \/ StopBegin \/ PublishDossier
  PROVE  Onward
<1>1. ASSUME NEW w \in Closers, At(w, "idle", "build") PROVE Onward
  BY <1>1, Steady DEF Onward, Past, Closers
<1>2. CASE TickBegin \/ ForceBegin \/ StopBegin
  BY <1>1, <1>2 DEF TickBegin, ForceBegin, StopBegin, Closers, Writers
<1>3. CASE PublishDossier
  <2>1. \A v \in Closers : closer'[v] = closer[v]
    BY <1>3 DEF PublishDossier, CloserTypes, Closers
  <2>. QED BY <2>1 DEF Onward
<1>. QED BY <1>2, <1>3

LEMMA OnwardClose ==
  ASSUME CloserTypes, NEW w \in Writers,
         \/ OpenFile(w) \/ WriteFile(w) \/ ReadManifest(w) \/ OpenManifest(w)
         \/ FillManifest(w) \/ Lookup(w) \/ Supersede(w) \/ Fail(w)
  PROVE  Onward
<1>1. ASSUME NEW from \in Past, NEW to \in Past, At(w, from, to) PROVE Onward
  BY <1>1, Steady DEF Onward, Past, Closers
<1>2. CASE OpenFile(w) \/ WriteFile(w) \/ OpenManifest(w) \/ Lookup(w) \/ Supersede(w)
  BY <1>1, <1>2 DEF OpenFile, WriteFile, OpenManifest, Lookup, Supersede, Past
<1>3. CASE ReadManifest(w)
  BY <1>3 DEF ReadManifest, CloserTypes, WriterState, Past, Closers, Onward
<1>4. CASE FillManifest(w)
  BY <1>4, Filled DEF Onward, Past, Closers
<1>5. CASE Fail(w)
  <2>1. closer[w].at # "repoint"
    BY <1>5 DEF Fail
  <2>. QED BY <1>5, <2>1, Failed DEF Onward, Past, Closers
<1>. QED BY <1>2, <1>3, <1>4, <1>5

\* Only the handing over of a log adds one to what the outbox owes.
LEMMA AskedToUpdate ==
  ASSUME Types, NEW w \in Writers, Supersede(w)
  PROVE  /\ owed \subseteq owed'
         /\ \A log \in Log : Add(log) \in owed' => Add(log) \in owed
<1>1. closer[w].previous \in Log
  BY DEF Supersede, At, Types, CloserTypes, Sound
<1>. QED BY <1>1, Shapes DEF Supersede, Ask

\* A log is handed over.
LEMMA HandedOver ==
  ASSUME Types, NEW w \in Writers, EnqueueLog(w)
  PROVE  /\ w \in Closers /\ closer[w].at = "enqueue" /\ closer[w].built \in Log
         /\ owed' = owed \union {Add(closer[w].built)}
         /\ closer'[w].at = IF w = "stop" THEN "closed" ELSE "repoint"
         /\ \A v \in Writers \ {w} : closer'[v] = closer[v]
<1>. CloserTypes
  BY DEF Types
<1>. DEFINE to == IF w = "stop" THEN "closed" ELSE "repoint"
            state == [Resting EXCEPT !.at = to]
<1>1. w \in Closers /\ closer[w].at = "enqueue" /\ closer[w].built \in Log
  BY DEF EnqueueLog, CloserTypes, Sound, Closers, Past
<1>2. closer' = [closer EXCEPT ![w] = state]
  BY DEF EnqueueLog
<1>3. closer'[w] = state /\ \A v \in Writers \ {w} : closer'[v] = closer[v]
  BY <1>2 DEF CloserTypes
<1>4. state.at = to
  BY Cleared
<1>. QED BY <1>1, <1>3, <1>4 DEF EnqueueLog, Ask

-----------------------------------------------------------------------------
(* A log is on disk before it is handed over.                               *)

\* The logs whose files are whole, are being written, or were left cut short.
Written == files \union Rewritten \union broken

\* A closer that has come past the writing of its log has left the file whole.
OnDisk == \A w \in Closers : closer[w].at \in Past \ {"open"} => closer[w].built \in Written

\* No step of a closer takes a log from the disk but to write it anew.
LEMMA WrittenStays ==
  ASSUME Types, NEW w \in Writers, Close(w)
  PROVE  Written \subseteq Written'
<1>. CloserTypes
  BY DEF Types
<1>. DEFINE Writing == {v \in Writers : closer[v].at = "write"}
<1>1. ASSUME UNCHANGED <<files, broken>>, closer[w].at # "write",
             \A v \in Writers \ {w} : closer'[v] = closer[v]
      PROVE  Written \subseteq Written'
  BY <1>1 DEF Written, Rewritten
<1>2. CASE OpenFile(w)
  <2>1. /\ closer'[w].at = "write" /\ closer'[w].built = closer[w].built
        /\ closer[w].at = "open" /\ \A v \in Writers \ {w} : closer'[v] = closer[v]
        /\ files' = files \ {closer[w].built} /\ broken' = broken
    BY <1>2, Steady DEF OpenFile, history
  <2>2. closer[w].built \in Rewritten' /\ Rewritten \subseteq Rewritten'
    BY <2>1 DEF Rewritten
  <2>. QED BY <2>1, <2>2 DEF Written
<1>3. CASE WriteFile(w)
  <2>1. /\ \A v \in Writers \ {w} : closer'[v] = closer[v]
        /\ files' = files \union {closer[w].built} /\ broken' = broken \ {closer[w].built}
    BY <1>3, Steady DEF WriteFile
  <2>. QED BY <2>1 DEF Written, Rewritten
<1>4. CASE Fail(w)
  <2>1. /\ files' = files /\ \A v \in Writers \ {w} : closer'[v] = closer[v]
        /\ broken' = IF closer[w].at = "write" THEN broken \union ({closer[w].built} \ files)
                     ELSE broken
    BY <1>4, Failed DEF Fail
  <2>2. CASE closer[w].at = "write"
    <3>1. Rewritten \subseteq Rewritten' \union {closer[w].built}
      BY <2>1 DEF Rewritten
    <3>2. files' = files /\ broken' = broken \union ({closer[w].built} \ files)
      BY <2>1, <2>2
    <3>3. {closer[w].built} \subseteq files' \union broken' /\ broken \subseteq broken'
      BY <3>2
    <3>. QED BY <3>1, <3>2, <3>3 DEF Written
  <2>3. CASE closer[w].at # "write"
    <3>1. Rewritten \subseteq Rewritten'
      BY <2>1, <2>3 DEF Rewritten
    <3>2. files' = files /\ broken' = broken
      BY <2>1, <2>3
    <3>. QED BY <3>1, <3>2 DEF Written
  <2>. QED BY <2>2, <2>3
<1>5. CASE Build(w) \/ ReadManifest(w)
  BY <1>1, <1>5 DEF Build, ReadManifest, CloserTypes, disk, history
<1>6. CASE FillManifest(w)
  BY <1>1, <1>6, Filled DEF FillManifest
<1>7. CASE EnqueueLog(w)
  BY <1>1, <1>7, HandedOver DEF EnqueueLog, disk, history
<1>8. CASE OpenManifest(w) \/ Lookup(w) \/ Supersede(w) \/ Repoint(w)
  BY <1>1, <1>8, Steady DEF OpenManifest, Lookup, Supersede, Repoint, disk, history
<1>. QED BY <1>2, <1>3, <1>4, <1>5, <1>6, <1>7, <1>8 DEF Close

\* Whatever the outbox was handed is in its file, whole, unless the same content is
\* being written anew, or a write of it failed or died half-way.
THEOREM Resolves == Spec => []AnchoredResolves
<1>. DEFINE Inv == Handed \subseteq Written /\ OnDisk
<1>1. Init => Inv
  BY DEF Init, Handed, OnDisk, Closers, Resting, Past
<1>2. Types /\ Inv /\ [Next]_vars => Inv'
  <2>. SUFFICES ASSUME Types, Inv, [Next]_vars PROVE Inv'
    OBVIOUS
  <2>. LogTypes /\ CloserTypes /\ DiskTypes
    BY DEF Types
  <2>1. ASSUME Written \subseteq Written', \A log \in Log : Add(log) \in owed' => Add(log) \in owed,
               \A v \in Closers : closer'[v].at \in Past \ {"open"} =>
                 /\ closer[v].at \in Past /\ closer'[v].built = closer[v].built
                 /\ closer[v].at \in Past \ {"open"} \/ closer[v].built \in Written'
        PROVE  Inv'
    BY <2>1 DEF Handed, OnDisk
  <2>2. ASSUME UNCHANGED <<files, broken, closer, owed>> PROVE Inv'
    BY <2>2 DEF Handed, OnDisk, Written, Rewritten
  <2>3. CASE \/ \E d \in Decision : Find(d) \/ AddEntry(d)
             \/ Midnight \/ UNCHANGED vars \/ \E log \in Log : Anchor(log)
    BY <2>2, <2>3 DEF Find, AddEntry, Midnight, Anchor, vars, disk, history
  <2>4. CASE TickBegin \/ ForceBegin \/ StopBegin \/ PublishDossier
    <3>1. UNCHANGED <<files, broken, owed>>
      BY <2>4 DEF TickBegin, ForceBegin, StopBegin, PublishDossier, disk, history
    <3>2. \A v \in Writers : closer[v].at = "write" => closer'[v] = closer[v]
      BY <2>4 DEF TickBegin, ForceBegin, StopBegin, PublishDossier, At, CloserTypes
    <3>3. \A v \in Closers : closer'[v].at \in Past => closer'[v] = closer[v]
      <4>1. ASSUME NEW w \in Closers, At(w, "idle", "build"), NEW v \in Closers,
                   closer'[v].at \in Past
            PROVE  closer'[v] = closer[v]
        BY <4>1, Steady DEF Closers, Past
      <4>2. PublishDossier => \A v \in Closers : closer'[v] = closer[v]
        BY DEF PublishDossier, CloserTypes, Closers
      <4>. QED BY <2>4, <4>1, <4>2 DEF TickBegin, ForceBegin, StopBegin, Closers, Writers
    <3>4. Written \subseteq Written'
      BY <3>1, <3>2 DEF Written, Rewritten
    <3>. QED BY <2>1, <3>1, <3>3, <3>4
  <2>5. ASSUME NEW w \in Writers, Close(w) PROVE Inv'
    <3>1. Written \subseteq Written'
      BY <2>5, WrittenStays
    <3>2. CASE Build(w)
      <4>1. \A v \in Closers : closer'[v].at \in Past \ {"open"} => closer'[v] = closer[v]
        BY <3>2 DEF Build, CloserTypes, WriterState, Closers
      <4>. QED BY <2>1, <3>1, <3>2, <4>1 DEF Build
    <3>3. CASE EnqueueLog(w)
      <4>1. closer[w].built \in Written
        BY <3>3, HandedOver DEF Past, OnDisk
      <4>2. \A log \in Log : Add(log) \in owed' => log \in Written
        BY <3>3, <4>1, HandedOver, Shapes DEF Handed
      <4>3. \A v \in Closers : closer'[v].at \in Past => closer'[v] = closer[v]
        BY <3>3, HandedOver DEF Past, Closers
      <4>. QED BY <3>1, <4>2, <4>3 DEF Handed, OnDisk
    <3>4. CASE OpenFile(w)
      <4>1. closer[w].built \in Written'
        BY <3>4, Steady DEF OpenFile, Written, Rewritten
      <4>2. \A v \in Closers : closer'[v].at \in Past \ {"open"} =>
              v = w \/ closer'[v] = closer[v]
        BY <3>4, Steady DEF OpenFile, Closers
      <4>3. closer[w].at = "open" /\ closer'[w].built = closer[w].built /\ UNCHANGED owed
        BY <3>4, Steady DEF OpenFile
      <4>. QED BY <2>1, <3>1, <4>1, <4>2, <4>3 DEF Past
    <3>5. CASE WriteFile(w)
      <4>1. /\ closer[w].at = "write" /\ closer'[w].built = closer[w].built /\ UNCHANGED owed
            /\ \A v \in Writers \ {w} : closer'[v] = closer[v]
        BY <3>5, Steady DEF WriteFile
      <4>. QED BY <2>1, <3>1, <4>1 DEF Past, Closers
    <3>6. CASE Supersede(w)
      <4>1. /\ closer[w].at = "supersede" /\ closer'[w].built = closer[w].built
            /\ \A v \in Writers \ {w} : closer'[v] = closer[v]
        BY <3>6, Steady DEF Supersede
      <4>. QED BY <2>1, <3>1, <3>6, <4>1, AskedToUpdate DEF Past, Closers
    <3>7. CASE OpenManifest(w) \/ Lookup(w)
      <4>1. /\ closer[w].at \in {"save", "lookup"} /\ closer'[w].built = closer[w].built
            /\ UNCHANGED owed /\ \A v \in Writers \ {w} : closer'[v] = closer[v]
        BY <3>7, Steady DEF OpenManifest, Lookup
      <4>. QED BY <2>1, <3>1, <4>1 DEF Past, Closers
    <3>8. CASE ReadManifest(w)
      <4>1. /\ closer[w].at = "read" /\ closer'[w].built = closer[w].built
            /\ UNCHANGED owed /\ \A v \in Writers \ {w} : closer'[v] = closer[v]
        BY <3>8 DEF ReadManifest, CloserTypes, WriterState
      <4>. QED BY <2>1, <3>1, <4>1 DEF Past, Closers
    <3>9. CASE FillManifest(w)
      <4>1. UNCHANGED owed
        BY <3>9 DEF FillManifest
      <4>. QED BY <2>1, <3>1, <3>9, <4>1, Filled DEF Past, Closers
    <3>10. CASE Fail(w) \/ Repoint(w)
      <4>1. UNCHANGED owed /\ closer'[w].at \notin Past
            /\ \A v \in Writers \ {w} : closer'[v] = closer[v]
        <5>1. CASE Fail(w)
          BY <5>1, Failed DEF Fail, Past
        <5>2. CASE Repoint(w)
          BY <5>2, Steady DEF Repoint, Past
        <5>. QED BY <3>10, <5>1, <5>2
      <4>. QED BY <2>1, <3>1, <4>1 DEF Past, Closers
    <3>. QED BY <2>5, <3>2, <3>3, <3>4, <3>5, <3>6, <3>7, <3>8, <3>9, <3>10 DEF Close
  <2>6. CASE Restart
    <3>1. /\ \A w \in Closers : closer'[w].at \notin Past
          /\ UNCHANGED <<files, owed>> /\ broken' = broken \union (Rewritten \ files)
      BY <2>6 DEF Restart, Resting, Past, Closers
    <3>. QED BY <3>1 DEF Handed, OnDisk, Written
  <2>. QED BY <2>3, <2>4, <2>5, <2>6 DEF Next
<1>3. Inv => AnchoredResolves
  BY DEF AnchoredResolves, Written
<1>. QED BY <1>1, <1>2, <1>3, AlwaysTypes, PTL DEF Spec

-----------------------------------------------------------------------------
(* No decision is lost.                                                     *)

\* Where a decision may be that is not in the current log.
Elsewhere == late \union killed \union UNION {log.decisions : log \in Handed}

\* What the current log holds is, while it is closed, in the log that was built or
\* came late; once the shutdown has closed it, it is elsewhere.
Sessions ==
  /\ current = Len(logs)
  /\ writes = current \/ \E w \in Closers : closer[w].at = "repoint"
  /\ \A w \in Closers : closer[w].at \in Past =>
       logs[current].decisions \subseteq closer[w].built.decisions \union Elsewhere
  /\ closer["stop"].at = "closed" => logs[current].decisions \subseteq Elsewhere
  /\ recorded \subseteq logs[current].decisions \union Elsewhere

LEMMA ElsewhereGrows ==
  ASSUME late \subseteq late', killed \subseteq killed', owed \subseteq owed'
  PROVE  Elsewhere \subseteq Elsewhere'
BY DEF Elsewhere, Handed

\* A step that moves no decision.
LEMMA SessionsKept ==
  ASSUME Types, Sessions, Onward, UNCHANGED <<session, recorded>>,
         late \subseteq late', killed \subseteq killed', owed \subseteq owed'
  PROVE  Sessions'
<1>1. Elsewhere \subseteq Elsewhere'
  BY ElsewhereGrows
<1>. QED BY <1>1 DEF Sessions, Onward, session, Closers, Writers

\* A decision that no closer accounts for goes into the current log.
LEMMA SessionsAdd ==
  ASSUME Types, Sessions, NEW d \in Decision, AddEntry(d)
  PROVE  Sessions'
<1>. LogTypes /\ CloserTypes
  BY DEF Types
<1>. DEFINE n == ref[d]
<1>1. /\ n \in DOMAIN logs /\ logs[n] \in Log /\ current \in DOMAIN logs
      /\ logs[current] \in Log
  BY DEF LogTypes
<1>2. Len(logs') = Len(logs) /\ DOMAIN logs' = DOMAIN logs
  BY <1>1 DEF AddEntry, LogTypes
<1>3. logs'[current].decisions =
        IF n = current THEN logs[current].decisions \union {d} ELSE logs[current].decisions
  BY <1>1 DEF AddEntry, LogTypes, Log
<1>4. /\ UNCHANGED <<current, writes, closer>> /\ killed' = killed /\ owed' = owed
      /\ recorded' = recorded \union {d}
      /\ late' = IF Closing \/ n # writes THEN late \union {d} ELSE late
  BY DEF AddEntry
<1>5. Elsewhere \subseteq Elsewhere'
  BY <1>4, ElsewhereGrows
<1>6. CASE Closing \/ n # writes
  <2>1. d \in Elsewhere'
    BY <1>4, <1>6 DEF Elsewhere
  <2>. QED BY <1>2, <1>3, <1>4, <1>5, <2>1 DEF Sessions
<1>7. CASE ~Closing /\ n = writes
  <2>1. \A w \in Closers : closer[w].at = "idle"
    BY <1>7 DEF Closing, Closers
  <2>2. n = current
    BY <1>7, <2>1 DEF Sessions
  <2>3. "stop" \in Closers
    BY DEF Closers, Writers
  <2>. QED BY <1>2, <1>3, <1>4, <1>5, <2>1, <2>2, <2>3 DEF Sessions, Past
<1>. QED BY <1>6, <1>7

LEMMA SessionsClose ==
  ASSUME Types, Sessions, NEW w \in Writers, Close(w)
  PROVE  Sessions'
<1>. LogTypes /\ CloserTypes
  BY DEF Types
<1>1. CASE Build(w)
  <2>. DEFINE state == [closer[w] EXCEPT !.at = "open", !.built = logs[current]]
  <2>1. closer' = [closer EXCEPT ![w] = state]
    BY <1>1 DEF Build
  <2>2. closer'[w] = state /\ \A v \in Writers \ {w} : closer'[v] = closer[v]
    BY <2>1 DEF CloserTypes
  <2>3. state.at = "open" /\ state.built = logs[current]
    BY DEF CloserTypes, WriterState
  <2>4. closer[w].at = "build" /\ UNCHANGED <<session, recorded, late, killed, owed>>
    BY <1>1 DEF Build, history
  <2>5. Elsewhere' = Elsewhere
    BY <2>4 DEF Elsewhere, Handed
  <2>. QED BY <2>2, <2>3, <2>4, <2>5 DEF Sessions, session, Closers, Writers
<1>2. CASE EnqueueLog(w)
  <2>. DEFINE built == closer[w].built
  <2>1. /\ UNCHANGED <<late, killed, recorded, writes>>
        /\ logs' = IF w = "stop" THEN logs ELSE Append(logs, Fresh(today))
        /\ current' = Len(logs')
    BY <1>2 DEF EnqueueLog, Renew, history
  <2>2. owed \subseteq owed' /\ built \in Log /\ Add(built) \in owed' /\ w \in Closers
    BY <1>2, HandedOver
  <2>3. Elsewhere \subseteq Elsewhere' /\ built.decisions \subseteq Elsewhere'
    BY <2>1, <2>2, ElsewhereGrows DEF Elsewhere, Handed
  <2>4. logs[current].decisions \subseteq Elsewhere'
    BY <1>2, <2>2, <2>3, HandedOver DEF Sessions, Past
  <2>5. logs'[current'].decisions \subseteq Elsewhere'
    <3>1. CASE w = "stop"
      BY <2>1, <2>4, <3>1 DEF Sessions
    <3>2. CASE w # "stop"
      <4>1. logs'[current'] = Fresh(today)
        BY <2>1, <3>2 DEF LogTypes
      <4>. QED BY <4>1 DEF Fresh
    <3>. QED BY <3>1, <3>2
  <2>6. recorded' \subseteq Elsewhere'
    BY <2>1, <2>3, <2>4 DEF Sessions
  <2>7. writes' = current' \/ \E v \in Closers : closer'[v].at = "repoint"
    <3>1. CASE w = "stop"
      BY <1>2, <2>1, <3>1, HandedOver DEF Sessions, Closers
    <3>2. CASE w # "stop"
      BY <1>2, <3>2, <2>2, HandedOver
    <3>. QED BY <3>1, <3>2
  <2>. QED BY <2>1, <2>5, <2>6, <2>7 DEF Sessions
<1>3. CASE Repoint(w)
  <2>1. /\ closer[w].at = "repoint" /\ closer'[w].at = "idle"
        /\ \A v \in Writers \ {w} : closer'[v] = closer[v]
    BY <1>3, Steady DEF Repoint
  <2>2. UNCHANGED <<logs, current, recorded, late, killed, owed>> /\ writes' = current
    BY <1>3 DEF Repoint, history
  <2>3. Elsewhere' = Elsewhere
    BY <2>2 DEF Elsewhere, Handed
  <2>. QED BY <2>1, <2>2, <2>3 DEF Sessions, Past, Closers, Writers
<1>4. CASE Supersede(w)
  BY <1>4, SessionsKept, OnwardClose, AskedToUpdate DEF Supersede, history
<1>5. CASE \/ OpenFile(w) \/ WriteFile(w) \/ ReadManifest(w) \/ OpenManifest(w)
           \/ FillManifest(w) \/ Lookup(w) \/ Fail(w)
  <2>1. UNCHANGED <<session, recorded, late, killed, owed>>
    BY <1>5 DEF OpenFile, WriteFile, ReadManifest, OpenManifest, FillManifest, Lookup, Fail,
                history
  <2>. QED BY <1>5, <2>1, SessionsKept, OnwardClose
<1>. QED BY <1>1, <1>2, <1>3, <1>4, <1>5 DEF Close

LEMMA SessionsRestart ==
  ASSUME Types, Sessions, Restart
  PROVE  Sessions'
<1>1. /\ logs' = <<Fresh(today)>> /\ current' = 1 /\ writes' = 1
      /\ UNCHANGED <<recorded, late, owed>>
      /\ \A w \in Writers : closer'[w].at = "idle"
  BY DEF Restart, Resting
<1>2. /\ killed \subseteq killed'
      /\ closer["stop"].at # "closed" => logs[current].decisions \subseteq killed'
  BY DEF Restart
<1>3. Elsewhere \subseteq Elsewhere' /\ killed' \subseteq Elsewhere'
  BY <1>1, <1>2, ElsewhereGrows DEF Elsewhere
<1>4. logs[current].decisions \subseteq Elsewhere'
  BY <1>2, <1>3 DEF Sessions
<1>5. recorded' \subseteq Elsewhere'
  BY <1>1, <1>3, <1>4 DEF Sessions
<1>6. "stop" \in Writers /\ Closers \subseteq Writers
  BY DEF Closers, Writers
<1>. QED BY <1>1, <1>5, <1>6 DEF Sessions, Past

\* A decision that was recorded while no log was being closed is in the log the
\* next close will publish, or was handed to the outbox, or died with its process.
THEOREM Accounted == Spec => []DecisionsAccounted
<1>1. Init => Sessions
  <2>. SUFFICES ASSUME Init PROVE Sessions
    OBVIOUS
  <2>1. \A w \in Writers : closer[w].at = "idle"
    BY DEF Init, Resting
  <2>. QED BY <2>1 DEF Init, Sessions, Past, Closers, Writers
<1>2. Types /\ Sessions /\ [Next]_vars => Sessions'
  <2>. SUFFICES ASSUME Types, Sessions, [Next]_vars PROVE Sessions'
    OBVIOUS
  <2>. CloserTypes
    BY DEF Types
  <2>1. ASSUME NEW d \in Decision, Find(d) PROVE Sessions'
    BY <2>1, SessionsKept, OnwardIfKept DEF Find, history
  <2>2. CASE TickBegin \/ ForceBegin \/ StopBegin \/ PublishDossier
    BY <2>2, SessionsKept, OnwardBegin
       DEF TickBegin, ForceBegin, StopBegin, PublishDossier, history
  <2>3. CASE Midnight \/ \E log \in Log : Anchor(log)
    BY <2>3, SessionsKept, OnwardIfKept DEF Midnight, Anchor, history
  <2>4. CASE UNCHANGED vars
    BY <2>4, SessionsKept, OnwardIfKept DEF vars, history
  <2>. QED BY <2>1, <2>2, <2>3, <2>4, SessionsAdd, SessionsClose, SessionsRestart DEF Next
<1>3. Sessions => DecisionsAccounted
  BY DEF Sessions, DecisionsAccounted, Elsewhere
<1>. QED BY <1>1, <1>2, <1>3, AlwaysTypes, PTL DEF Spec

-----------------------------------------------------------------------------
(* What is replaced is superseded.                                          *)

\* The logs that another follows in a list of the manifest.
Followed(entries) == {entries[n - 1] : n \in 2..Len(entries)}

\* The logs that were asked to be superseded, or excused from it; and those with
\* the logs that a closer is about to ask for.
Gone == {log \in Log : Update(log) \in owed \/ log \in missed}
Settled == Gone \union ({closer[w].previous : w \in Writers} \ {NoLog})

\* A closer has a predecessor in hand from reading the manifest to handing its log
\* over, and has dealt with it when it does the latter.
Dealt(state) ==
  /\ state.at \in {"idle", "build", "open", "write", "read", "repoint", "closed", "failed"} =>
       state.previous = NoLog
  /\ state.at = "enqueue" => state.previous \in Gone \union {NoLog}

Succession ==
  /\ \A w \in Writers : Dealt(closer[w])
  /\ \A w \in Writers : \A day \in Day : Followed(closer[w].seen[day]) \subseteq Settled
  /\ \A day \in Day : Followed(manifest[day]) \subseteq Settled
  /\ \A log \in Log : index[log] = "Superseded" => Update(log) \in owed

LEMMA FollowedNone == \A day \in Day : Followed(Unlisted[day]) = {}
BY DEF Followed, Unlisted

LEMMA FollowedMore ==
  ASSUME NEW entries \in Seq(Log), NEW log \in Log
  PROVE  Followed(Append(entries, log)) \subseteq
           Followed(entries) \union ({Replaced(entries)} \ {NoLog})
<1>. DEFINE more == Append(entries, log)
<1>1. /\ Len(more) = Len(entries) + 1 /\ Len(entries) \in Nat
      /\ \A n \in 1..Len(entries) : more[n] = entries[n] /\ entries[n] \in Log
  OBVIOUS
<1>2. ASSUME NEW n \in 2..Len(more)
      PROVE  more[n - 1] \in Followed(entries) \union ({Replaced(entries)} \ {NoLog})
  <2>1. n - 1 \in 1..Len(entries) /\ more[n - 1] = entries[n - 1]
    BY <1>1
  <2>2. CASE n \in 2..Len(entries)
    BY <2>1, <2>2 DEF Followed
  <2>3. CASE n = Len(entries) + 1
    <3>1. entries # <<>> /\ more[n - 1] = entries[Len(entries)]
      BY <2>1, <2>3, <1>1
    <3>2. entries[Len(entries)] # NoLog
      BY <1>1, <2>1, <2>3, Shapes
    <3>. QED BY <3>1, <3>2 DEF Replaced
  <2>. QED BY <1>1, <2>2, <2>3
<1>. QED BY <1>2 DEF Followed

\* A step of one writer, that has no predecessor, or keeps it, or has dealt with it.
LEMMA SettledGrows ==
  ASSUME Types, owed \subseteq owed', missed \subseteq missed', NEW w \in Writers,
         \A v \in Writers \ {w} : closer'[v] = closer[v],
         \/ closer'[w].previous = closer[w].previous
         \/ closer[w].previous \in Gone' \union {NoLog}
  PROVE  Gone \subseteq Gone' /\ Settled \subseteq Settled'
<1>1. Gone \subseteq Gone'
  BY DEF Gone
<1>2. \A v \in Writers : closer[v].previous # NoLog =>
        closer[v].previous \in Gone' \/ closer'[v].previous = closer[v].previous
  OBVIOUS
<1>. QED BY <1>1, <1>2 DEF Settled

LEMMA SuccessionStep ==
  ASSUME Types, Succession, owed \subseteq owed', missed \subseteq missed', NEW w \in Writers,
         \A v \in Writers \ {w} : closer'[v] = closer[v],
         \/ closer'[w].previous = closer[w].previous
         \/ closer[w].previous \in Gone' \union {NoLog},
         Dealt(closer[w])',
         \/ closer'[w].seen = closer[w].seen
         \/ \A day \in Day : Followed(closer'[w].seen[day]) \subseteq Settled',
         \/ manifest' = manifest
         \/ \A day \in Day : Followed(manifest'[day]) \subseteq Settled',
         \/ index' = index
         \/ \A log \in Log : index'[log] = "Superseded" => Update(log) \in owed'
  PROVE  Succession'
<1>1. Gone \subseteq Gone' /\ Settled \subseteq Settled'
  BY SettledGrows
<1>2. ASSUME NEW v \in Writers PROVE Dealt(closer[v])'
  BY <1>1 DEF Succession, Dealt
<1>3. ASSUME NEW v \in Writers, NEW day \in Day
      PROVE  Followed(closer'[v].seen[day]) \subseteq Settled'
  BY <1>1 DEF Succession
<1>4. ASSUME NEW day \in Day PROVE Followed(manifest'[day]) \subseteq Settled'
  BY <1>1 DEF Succession
<1>5. \A log \in Log : index'[log] = "Superseded" => Update(log) \in owed'
  BY DEF Succession
<1>. QED BY <1>2, <1>3, <1>4, <1>5 DEF Succession

LEMMA SuccessionKept ==
  Succession /\ UNCHANGED <<closer, manifest, owed, index, missed>> => Succession'
BY DEF Succession, Dealt, Settled, Gone

LEMMA SuccessionBegin ==
  ASSUME Types, Succession, TickBegin \/ ForceBegin \/ StopBegin \/ PublishDossier
  PROVE  Succession'
<1>. CloserTypes /\ DiskTypes
  BY DEF Types
<1>1. ASSUME NEW w \in Writers, At(w, "idle", "build"),
             UNCHANGED <<disk, owed, index, missed>>
      PROVE  Succession'
  <2>1. Dealt(closer[w])'
    BY <1>1, Steady DEF Succession, Dealt
  <2>. QED BY <1>1, <2>1, Steady, SuccessionStep DEF disk
<1>2. CASE TickBegin \/ ForceBegin \/ StopBegin
  BY <1>1, <1>2 DEF TickBegin, ForceBegin, StopBegin, Writers, history
<1>3. CASE PublishDossier
  <2>. DEFINE w == "dossier"
              state == [Resting EXCEPT !.at = "save", !.seen = Readable]
  <2>1. w \in Writers
    BY DEF Writers
  <2>2. closer' = [closer EXCEPT ![w] = state]
    BY <1>3 DEF PublishDossier
  <2>3. closer'[w] = state /\ \A v \in Writers \ {w} : closer'[v] = closer[v]
    BY <2>1, <2>2 DEF CloserTypes
  <2>4. state.at = "save" /\ state.previous = NoLog /\ state.seen = Readable
    BY DEF Resting
  <2>5. closer[w].previous = NoLog /\ UNCHANGED <<manifest, owed, index, missed>>
    BY <1>3, <2>1 DEF PublishDossier, CloserTypes, Sound, disk, history
  <2>6. Settled' = Settled
    <3>1. \A v \in Writers : closer'[v].previous = closer[v].previous
      BY <2>3, <2>4, <2>5
    <3>. QED BY <2>5, <3>1 DEF Settled, Gone
  <2>7. \A day \in Day : Followed(Readable[day]) \subseteq Settled
    BY FollowedNone DEF Readable, Succession
  <2>8. Dealt(closer[w])'
    BY <2>3, <2>4 DEF Dealt
  <2>9. \A day \in Day : Followed(closer'[w].seen[day]) \subseteq Settled'
    BY <2>3, <2>4, <2>6, <2>7
  <2>. QED BY <2>1, <2>3, <2>4, <2>5, <2>8, <2>9, SuccessionStep
<1>. QED BY <1>2, <1>3

LEMMA SuccessionClose ==
  ASSUME Types, Succession, NEW w \in Writers, Close(w)
  PROVE  Succession'
<1>. CloserTypes /\ DiskTypes
  BY DEF Types
<1>. closer[w] \in WriterState /\ Dealt(closer[w])
  BY DEF CloserTypes, Succession
<1>1. CASE Build(w)
  <2>. DEFINE state == [closer[w] EXCEPT !.at = "open", !.built = logs[current]]
  <2>1. closer' = [closer EXCEPT ![w] = state]
    BY <1>1 DEF Build
  <2>2. closer'[w] = state /\ \A v \in Writers \ {w} : closer'[v] = closer[v]
    BY <2>1 DEF CloserTypes
  <2>3. /\ state.at = "open" /\ state.previous = closer[w].previous
        /\ state.seen = closer[w].seen
    BY DEF WriterState
  <2>4. closer[w].at = "build" /\ UNCHANGED <<manifest, owed, index, missed>>
    BY <1>1 DEF Build, disk, history
  <2>5. Dealt(closer[w])'
    BY <2>2, <2>3, <2>4 DEF Dealt
  <2>. QED BY <2>2, <2>3, <2>4, <2>5, SuccessionStep
<1>2. CASE ReadManifest(w)
  <2>. DEFINE seen == Readable
              built == closer[w].built
              entries == seen[built.day]
              more == [seen EXCEPT ![built.day] = Append(entries, built)]
              state == IF Listed(entries, built)
                       THEN [closer[w] EXCEPT !.at = "enqueue"]
                       ELSE [closer[w] EXCEPT !.at = "save", !.previous = Replaced(entries),
                                              !.seen = more]
  <2>1. /\ closer[w].at = "read" /\ closer[w].previous = NoLog
        /\ UNCHANGED <<manifest, owed, index, missed>>
    BY <1>2 DEF ReadManifest, Dealt, disk, history
  <2>2. closer' = [closer EXCEPT ![w] = state]
    BY <1>2 DEF ReadManifest
  <2>3. closer'[w] = state /\ \A v \in Writers \ {w} : closer'[v] = closer[v]
    BY <2>2 DEF CloserTypes
  <2>4. ASSUME Listed(entries, built) PROVE Succession'
    <3>1. /\ state.at = "enqueue" /\ state.previous = closer[w].previous
          /\ state.seen = closer[w].seen
      BY <2>4 DEF WriterState
    <3>2. Dealt(closer[w])'
      BY <2>1, <2>3, <3>1 DEF Dealt
    <3>. QED BY <2>1, <2>3, <3>1, <3>2, SuccessionStep
  <2>5. ASSUME ~Listed(entries, built) PROVE Succession'
    <3>1. state.at = "save" /\ state.previous = Replaced(entries) /\ state.seen = more
      BY <2>5 DEF WriterState
    <3>2. Dealt(closer[w])'
      BY <2>3, <3>1 DEF Dealt
    <3>3. Settled \subseteq Settled'
      BY <2>1, <2>3, SettledGrows
    <3>4. built \in Log /\ built.day \in Day
      BY <2>1 DEF CloserTypes, Sound, Past, Closers, Log
    <3>5. /\ seen \in [Day -> Seq(Log)] /\ entries \in Seq(Log)
          /\ \A day \in Day : Followed(seen[day]) \subseteq Settled
      BY <3>4, Reading, FollowedNone DEF Readable, Succession
    <3>6. {Replaced(entries)} \ {NoLog} \subseteq Settled'
      <4>1. closer'[w].previous = Replaced(entries)
        BY <2>3, <3>1
      <4>. HIDE DEF entries
      <4>. QED BY <4>1 DEF Settled
    <3>7. Followed(Append(entries, built)) \subseteq Settled'
      BY <3>3, <3>4, <3>5, <3>6, FollowedMore
    <3>8. \A day \in Day : Followed(more[day]) \subseteq Settled'
      BY <3>3, <3>5, <3>7
    <3>9. \A day \in Day : Followed(closer'[w].seen[day]) \subseteq Settled'
      BY <2>3, <3>1, <3>8
    <3>. QED BY <2>1, <2>3, <3>2, <3>9, SuccessionStep
  <2>. QED BY <2>4, <2>5
<1>3. CASE OpenFile(w) \/ WriteFile(w) \/ OpenManifest(w)
  <2>1. Dealt(closer[w])'
    BY <1>3, Steady DEF OpenFile, WriteFile, OpenManifest, Dealt
  <2>. QED BY <1>3, <2>1, Steady, SuccessionStep DEF OpenFile, WriteFile, OpenManifest, history
<1>4. CASE FillManifest(w)
  <2>1. /\ closer[w].at = "fill" /\ \A v \in Writers \ {w} : closer'[v] = closer[v]
        /\ closer'[w].at \in {"idle", "lookup"} /\ closer'[w].seen = Unlisted
        /\ closer'[w].previous = closer[w].previous
    <3>1. CASE w = "dossier"
      <4>1. closer[w].previous = NoLog /\ closer'[w] = Resting
        BY <1>4, <3>1, Filled DEF CloserTypes, Sound
      <4>2. Resting.at = "idle" /\ Resting.previous = NoLog /\ Resting.seen = Unlisted
        BY Cleared
      <4>. QED BY <1>4, <4>1, <4>2, Filled
    <3>2. CASE w # "dossier"
      BY <1>4, <3>2, Filled
    <3>. QED BY <3>1, <3>2
  <2>2. /\ manifest' = closer[w].seen \/ manifest' = Unlisted
        /\ UNCHANGED <<owed, index, missed>>
    BY <1>4 DEF FillManifest
  <2>3. Settled \subseteq Settled'
    BY <2>1, <2>2, SettledGrows
  <2>4. /\ \A day \in Day : Followed(manifest'[day]) \subseteq Settled'
        /\ \A day \in Day : Followed(closer'[w].seen[day]) \subseteq Settled'
    BY <2>1, <2>2, <2>3, FollowedNone DEF Succession
  <2>5. Dealt(closer[w])'
    <3>1. w = "dossier" \/ closer'[w].at = "lookup"
      BY <1>4, Filled
    <3>2. w = "dossier" => closer[w].previous = NoLog
      BY DEF CloserTypes, Sound
    <3>. QED BY <2>1, <3>1, <3>2 DEF Dealt
  <2>. QED BY <2>1, <2>2, <2>4, <2>5, SuccessionStep
<1>5. CASE Lookup(w)
  <2>. DEFINE previous == closer[w].previous
              anchored == previous # NoLog /\ index[previous] = "Active"
              to == IF anchored THEN "supersede" ELSE "enqueue"
  <2>1. /\ At(w, "lookup", to) /\ UNCHANGED <<manifest, owed, index>>
        /\ missed' = IF previous = NoLog \/ index[previous] # "none"
                     THEN missed ELSE missed \union {previous}
    BY <1>5 DEF Lookup, disk
  <2>2. previous \in Log \union {NoLog}
    BY DEF WriterState
  <2>3. anchored \/ previous \in Gone' \union {NoLog}
    BY <2>1, <2>2 DEF Gone, Succession, DiskTypes
  <2>4. closer'[w].at = to /\ closer'[w].previous = previous
    BY <2>1, Steady
  <2>5. Dealt(closer[w])'
    BY <2>3, <2>4 DEF Dealt
  <2>6. missed \subseteq missed' /\ owed \subseteq owed'
    BY <2>1
  <2>. QED BY <2>1, <2>5, <2>6, Steady, SuccessionStep
<1>6. CASE Supersede(w)
  <2>. DEFINE previous == closer[w].previous
  <2>1. /\ At(w, "supersede", "enqueue") /\ previous \in Log
        /\ UNCHANGED <<manifest, missed>>
        /\ owed' = owed \union {Update(previous)}
        /\ index' = [index EXCEPT ![previous] = "Superseded"]
    BY <1>6 DEF Supersede, Ask, At, CloserTypes, Sound, disk, history
  <2>2. previous \in Gone'
    BY <2>1 DEF Gone
  <2>3. Dealt(closer[w])'
    BY <2>1, <2>2, Steady DEF Dealt
  <2>4. \A log \in Log : index'[log] = "Superseded" => Update(log) \in owed'
    BY <2>1 DEF Succession, DiskTypes
  <2>. QED BY <2>1, <2>3, <2>4, Steady, SuccessionStep
<1>7. CASE EnqueueLog(w)
  <2>. DEFINE to == IF w = "stop" THEN "closed" ELSE "repoint"
              state == [Resting EXCEPT !.at = to]
  <2>1. closer' = [closer EXCEPT ![w] = state]
    BY <1>7 DEF EnqueueLog
  <2>2. closer'[w] = state /\ \A v \in Writers \ {w} : closer'[v] = closer[v]
    BY <2>1 DEF CloserTypes
  <2>3. state.at = to /\ state.previous = NoLog /\ state.seen = Unlisted
    BY Cleared
  <2>4. /\ closer[w].at = "enqueue" /\ owed \subseteq owed'
        /\ UNCHANGED <<manifest, index, missed>>
    BY <1>7 DEF EnqueueLog, Ask, disk, history
  <2>5. closer[w].previous \in Gone' \union {NoLog}
    BY <2>4 DEF Dealt, Gone
  <2>6. Dealt(closer[w])'
    BY <2>2, <2>3 DEF Dealt
  <2>7. \A day \in Day : Followed(closer'[w].seen[day]) \subseteq Settled'
    BY <2>2, <2>3, FollowedNone
  <2>. QED BY <2>2, <2>4, <2>5, <2>6, <2>7, SuccessionStep
<1>8. CASE Repoint(w)
  <2>1. Dealt(closer[w])'
    BY <1>8, Steady DEF Repoint, Dealt
  <2>. QED BY <1>8, <2>1, Steady, SuccessionStep DEF Repoint, disk, history
<1>9. CASE Fail(w)
  <2>1. /\ UNCHANGED <<owed, index>>
        /\ missed' = missed \union ({closer[w].previous} \ {NoLog})
        /\ manifest' = manifest \/ manifest' = Unlisted
    BY <1>9 DEF Fail, Cut, Readable
  <2>2. closer[w].previous \in Gone' \union {NoLog}
    BY <2>1 DEF WriterState, Gone
  <2>3. Dealt(closer[w])'
    BY <1>9, Failed DEF Dealt
  <2>4. \A day \in Day : Followed(closer'[w].seen[day]) \subseteq Settled'
    BY <1>9, Failed, FollowedNone
  <2>5. manifest' = manifest \/ \A day \in Day : Followed(manifest'[day]) \subseteq Settled'
    BY <2>1, FollowedNone
  <2>6. owed \subseteq owed' /\ missed \subseteq missed'
    BY <2>1
  <2>. QED BY <1>9, <2>1, <2>2, <2>3, <2>4, <2>5, <2>6, Failed, SuccessionStep
<1>. QED
  BY <1>1, <1>2, <1>3, <1>4, <1>5, <1>6, <1>7, <1>8, <1>9 DEF Close

LEMMA SuccessionWorld ==
  ASSUME Types, Succession, Midnight \/ Restart \/ \E log \in Log : Anchor(log)
  PROVE  Succession'
<1>. CloserTypes /\ DiskTypes
  BY DEF Types
<1>1. CASE Midnight
  BY <1>1, SuccessionKept DEF Midnight, disk, history
<1>2. ASSUME NEW log \in Log, Anchor(log) PROVE Succession'
  <2>1. /\ UNCHANGED <<closer, manifest, owed, missed>>
        /\ index' = [index EXCEPT ![log] = "Active"]
    BY <1>2 DEF Anchor, disk, history
  <2>2. \A other \in Log : index'[other] = "Superseded" => Update(other) \in owed'
    BY <2>1 DEF Succession, DiskTypes
  <2>. QED BY <2>1, <2>2 DEF Succession, Dealt, Settled, Gone
<1>3. CASE Restart
  <2>1. /\ \A w \in Writers : closer'[w] = Resting
        /\ UNCHANGED <<owed, index>>
        /\ missed' = missed \union ({closer[w].previous : w \in Writers} \ {NoLog})
        /\ manifest' = manifest \/ manifest' = Unlisted
    BY <1>3 DEF Restart, Readable
  <2>2. \A w \in Writers : closer[w].previous \in Log \union {NoLog}
    BY DEF CloserTypes, WriterState
  <2>3. Settled \subseteq Settled'
    BY <2>1, <2>2 DEF Settled, Gone
  <2>4. Resting.at = "idle" /\ Resting.previous = NoLog /\ Resting.seen = Unlisted
    BY Cleared
  <2>5. \A w \in Writers : Dealt(closer[w])'
    BY <2>1, <2>4 DEF Dealt
  <2>6. /\ \A w \in Writers : \A day \in Day : Followed(closer'[w].seen[day]) \subseteq Settled'
        /\ \A day \in Day : Followed(manifest'[day]) \subseteq Settled'
    BY <2>1, <2>3, <2>4, FollowedNone DEF Succession
  <2>. QED BY <2>1, <2>5, <2>6 DEF Succession
<1>. QED BY <1>1, <1>2, <1>3

\* What a writer has replaced is dealt with, always.
LEMMA AlwaysSuccession == Spec => []Succession
<1>1. Init => Succession
  <2>. SUFFICES ASSUME Init PROVE Succession
    OBVIOUS
  <2>1. \A w \in Writers : closer[w] = Resting
    BY DEF Init
  <2>2. Resting.at = "idle" /\ Resting.previous = NoLog /\ Resting.seen = Unlisted
    BY Cleared
  <2>3. manifest = Unlisted /\ \A log \in Log : index[log] = "none"
    BY DEF Init
  <2>. QED BY <2>1, <2>2, <2>3, FollowedNone DEF Succession, Dealt
<1>2. Types /\ Succession /\ [Next]_vars => Succession'
  <2>. SUFFICES ASSUME Types, Succession, [Next]_vars PROVE Succession'
    OBVIOUS
  <2>1. ASSUME NEW d \in Decision, Find(d) \/ AddEntry(d) PROVE Succession'
    BY <2>1, SuccessionKept DEF Find, AddEntry, disk, history
  <2>2. CASE UNCHANGED vars
    BY <2>2, SuccessionKept DEF vars, disk, history
  <2>. QED BY <2>1, <2>2, SuccessionBegin, SuccessionClose, SuccessionWorld DEF Next
<1>. QED BY <1>1, <1>2, AlwaysTypes, PTL DEF Spec

\* Of two logs that follow each other in the manifest the earlier is asked to be
\* superseded, or was not anchored yet, or the later's closing failed.
THEOREM Superseded == Spec => []ReplacedIsSuperseded
<1>1. Succession => ReplacedIsSuperseded
  <2>. SUFFICES ASSUME Succession, NEW day \in Day, NEW n \in 2..Len(manifest[day])
                PROVE  LET old == manifest[day][n - 1]
                       IN \/ Update(old) \in owed \/ old \in missed
                          \/ \E w \in Writers : closer[w].previous = old
    BY DEF ReplacedIsSuperseded
  <2>1. manifest[day][n - 1] \in Settled
    BY DEF Succession, Followed
  <2>. QED BY <2>1 DEF Settled, Gone
<1>. QED BY <1>1, AlwaysSuccession, PTL

-----------------------------------------------------------------------------
(* What supersedes stands, or is on its way.                                *)

Begins(s, t) == Len(s) <= Len(t) /\ \A n \in DOMAIN s : t[n] = s[n]
Differ(s) == \A m, n \in DOMAIN s : s[m] = s[n] => m = n

\* The lists of a day hold that day's logs.
Dated(lists) == \A day \in Day : \A n \in DOMAIN lists[day] : lists[day][n].day = day

\* What a writer is about to fill in is the manifest as it was once, with the log
\* it has built at the end of its day's list.
Ahead(state, day) ==
  LET list == state.seen[day]
  IN IF state.built.day = day
     THEN /\ list # <<>> /\ list[Len(list)] = state.built
          /\ state.previous = IF Len(list) = 1 THEN NoLog ELSE list[Len(list) - 1]
          /\ \A n \in 1..(Len(list) - 1) :
               /\ n \in DOMAIN manifest[day] /\ manifest[day][n] = list[n]
               /\ list[n] # state.built
     ELSE Begins(list, manifest[day])

\* One log follows another in the manifest.
Follows(old, new) ==
  \E n \in DOMAIN manifest[old.day] :
    /\ n + 1 \in DOMAIN manifest[old.day]
    /\ manifest[old.day][n] = old /\ manifest[old.day][n + 1] = new

\* A log was handed over, or a closer is about to, or failed to.
Bringing == {w \in Writers : closer[w].at = "enqueue" /\ closer[w].previous # NoLog}
Brought == Handed \union orphaned \union {closer[w].built : w \in Bringing}

\* What a writer has in hand fits the manifest, where that has lost nothing.
Fits(w, state) ==
  /\ Dated(state.seen)
  /\ w = "dossier" => state.built = NoLog
  /\ state.previous # NoLog => state.previous.day = state.built.day
  /\ \A day \in Day \ forgot :
       /\ state.at \in {"save", "fill"} => Ahead(state, day)
       /\ state.previous # NoLog /\ state.built.day = day =>
            \/ state.at \notin {"lookup", "supersede", "enqueue"}
            \/ Follows(state.previous, state.built)

\* A log that was asked to be superseded has a successor that was brought.
Lineage ==
  /\ Dated(manifest)
  /\ \A w \in Writers : Fits(w, closer[w])
  /\ \A day \in Day \ forgot : Differ(manifest[day])
  /\ \A old \in Log : Update(old) \in owed =>
       old.day \in forgot \/ \E new \in Brought : Follows(old, new)

LEMMA FollowsStill ==
  ASSUME Types, NEW old \in Log, NEW new, Follows(old, new),
         manifest'[old.day] \in Seq(Log), Begins(manifest[old.day], manifest'[old.day])
  PROVE  Follows(old, new)'
<1>1. manifest[old.day] \in Seq(Log)
  BY DEF Types, DiskTypes, Log
<1>2. PICK n \in DOMAIN manifest[old.day] :
        /\ n + 1 \in DOMAIN manifest[old.day]
        /\ manifest[old.day][n] = old /\ manifest[old.day][n + 1] = new
  BY DEF Follows
<1>3. n \in DOMAIN manifest'[old.day] /\ n + 1 \in DOMAIN manifest'[old.day]
  BY <1>1, <1>2 DEF Begins
<1>. QED BY <1>2, <1>3 DEF Follows, Begins

\* What fits goes on to fit as long as the manifest only grows.
LEMMA FitsStill ==
  ASSUME Types, Types', NEW w \in Writers, NEW state \in WriterState, Fits(w, state),
         forgot \subseteq forgot',
         \A day \in Day \ forgot' : Begins(manifest[day], manifest'[day])
  PROVE  Fits(w, state)'
<1>1. \A day \in Day : manifest[day] \in Seq(Log) /\ manifest'[day] \in Seq(Log)
  BY DEF Types, DiskTypes
<1>2. ASSUME NEW day \in Day \ forgot', state.at \in {"save", "fill"} PROVE Ahead(state, day)'
  <2>1. Ahead(state, day) /\ Begins(manifest[day], manifest'[day])
    BY <1>2 DEF Fits
  <2>2. state.seen[day] \in Seq(Log)
    BY DEF WriterState
  <2>3. \A n \in DOMAIN manifest[day] : n \in DOMAIN manifest'[day] /\ manifest'[day][n] = manifest[day][n]
    BY <1>1, <2>1 DEF Begins
  <2>. QED BY <1>1, <2>1, <2>2, <2>3 DEF Ahead, Begins
<1>3. ASSUME NEW day \in Day \ forgot', state.previous # NoLog, state.built.day = day,
             state.at \in {"lookup", "supersede", "enqueue"}
      PROVE  Follows(state.previous, state.built)'
  <2>1. state.previous \in Log /\ state.previous.day = day /\ Follows(state.previous, state.built)
    BY <1>3 DEF Fits, WriterState
  <2>. QED BY <1>1, <2>1, FollowsStill
<1>. QED BY <1>2, <1>3 DEF Fits

LEMMA LineageStep ==
  ASSUME Types, Types', Lineage, Dated(manifest'), forgot \subseteq forgot',
         \A day \in Day \ forgot' : /\ Begins(manifest[day], manifest'[day])
                                    /\ Differ(manifest'[day]),
         \A v \in Writers : closer'[v] = closer[v] \/ Fits(v, closer[v])',
         Brought \subseteq Brought',
         \A old \in Log : Update(old) \in owed' \ owed =>
           old.day \in forgot' \/ \E new \in Brought' : Follows(old, new)'
  PROVE  Lineage'
<1>1. ASSUME NEW v \in Writers PROVE Fits(v, closer[v])'
  <2>1. closer[v] \in WriterState /\ Fits(v, closer[v])
    BY DEF Types, CloserTypes, Lineage
  <2>2. CASE closer'[v] = closer[v]
    <3>1. PICK state \in WriterState : state = closer[v]
      BY <2>1
    <3>2. Fits(v, state)
      BY <2>1, <3>1
    <3>3. Fits(v, state)'
      BY <3>2, FitsStill
    <3>. QED BY <2>2, <3>1, <3>3
  <2>. QED BY <2>2
<1>2. ASSUME NEW old \in Log, Update(old) \in owed', old.day \notin forgot'
      PROVE  \E new \in Brought' : Follows(old, new)'
  <2>1. CASE Update(old) \in owed
    <3>1. PICK new \in Brought : Follows(old, new)
      BY <1>2, <2>1 DEF Lineage
    <3>2. old.day \in Day /\ manifest'[old.day] \in Seq(Log)
      BY DEF Log, Types, DiskTypes
    <3>3. Follows(old, new)'
      BY <1>2, <3>1, <3>2, FollowsStill
    <3>. QED BY <3>1, <3>3
  <2>. QED BY <1>2, <2>1
<1>. QED BY <1>1, <1>2 DEF Lineage

\* A step of one writer that leaves the manifest alone.
LEMMA LineageMove ==
  ASSUME Types, Types', Lineage, NEW w \in Writers, UNCHANGED <<manifest, forgot>>,
         \A v \in Writers \ {w} : closer'[v] = closer[v], Fits(w, closer[w])',
         owed \subseteq owed', orphaned \subseteq orphaned',
         w \in Bringing => closer[w].built \in Brought',
         \A old \in Log : Update(old) \in owed' \ owed =>
           old.day \in forgot' \/ \E new \in Brought' : Follows(old, new)'
  PROVE  Lineage'
<1>1. \A day \in Day \ forgot' : Begins(manifest[day], manifest'[day]) /\ Differ(manifest'[day])
  BY DEF Types, DiskTypes, Begins, Lineage
<1>2. Brought \subseteq Brought'
  <2>1. Handed \subseteq Handed'
    BY DEF Handed
  <2>2. \A v \in Bringing \ {w} : v \in Bringing' /\ closer'[v].built = closer[v].built
    BY DEF Bringing
  <2>3. \A v \in Bringing : closer[v].built \in Brought'
    BY <2>2 DEF Brought
  <2>. QED BY <2>1, <2>3 DEF Brought
<1>3. Dated(manifest') /\ forgot \subseteq forgot'
  BY DEF Lineage, Dated
<1>. QED BY <1>1, <1>2, <1>3, LineageStep

\* It only goes on to its next step, with the same in hand.
LEMMA FitsAt ==
  ASSUME CloserTypes, NEW w \in Writers, NEW from, NEW to, At(w, from, to),
         Fits(w, closer[w]), UNCHANGED <<manifest, forgot>>,
         to \in {"save", "fill"} => from \in {"save", "fill"},
         to \in {"lookup", "supersede", "enqueue"} => from \in {"lookup", "supersede", "enqueue"}
  PROVE  Fits(w, closer[w])'
<1>1. /\ closer[w].at = from /\ closer'[w].at = to
      /\ closer'[w].built = closer[w].built /\ closer'[w].previous = closer[w].previous
      /\ closer'[w].seen = closer[w].seen
  BY Steady
<1>2. \A day \in Day : Ahead(closer[w], day) => Ahead(closer[w], day)'
  BY <1>1 DEF Ahead, Begins
<1>3. Follows(closer[w].previous, closer[w].built) => Follows(closer[w].previous, closer[w].built)'
  BY <1>1 DEF Follows
<1>. QED BY <1>1, <1>2, <1>3 DEF Fits, Dated

\* A writer that has nothing in hand fits.
LEMMA FitsCleared ==
  ASSUME NEW w \in Writers, closer'[w].built = NoLog, closer'[w].previous = NoLog,
         closer'[w].seen = Unlisted, closer'[w].at \notin {"save", "fill"}
  PROVE  Fits(w, closer[w])'
BY DEF Fits, Dated, Unlisted

\* What fits, once a writer has it in hand.
LEMMA FitsTaken ==
  ASSUME NEW w \in Writers, NEW state, Fits(w, state), closer'[w] = state,
         UNCHANGED <<manifest, forgot>>
  PROVE  Fits(w, closer[w])'
<1>1. Fits(w, state)'
  BY DEF Fits, Ahead, Begins, Follows
<1>. QED BY <1>1

LEMMA LineageKept ==
  Lineage /\ UNCHANGED <<closer, manifest, owed, orphaned, forgot>> => Lineage'
BY DEF Lineage, Fits, Ahead, Follows, Brought, Bringing, Handed

LEMMA LineageBegin ==
  ASSUME Types, Types', Succession, Lineage,
         TickBegin \/ ForceBegin \/ StopBegin \/ PublishDossier
  PROVE  Lineage'
<1>. CloserTypes /\ DiskTypes
  BY DEF Types
<1>1. ASSUME NEW w \in Writers, At(w, "idle", "build"), UNCHANGED <<disk, owed, orphaned, forgot>>
      PROVE  Lineage'
  <2>1. Fits(w, closer[w])'
    BY <1>1, FitsAt DEF Lineage, disk
  <2>2. w \notin Bringing
    BY <1>1, Steady DEF Bringing
  <2>. QED BY <1>1, <2>1, <2>2, Steady, LineageMove DEF disk
<1>2. CASE TickBegin \/ ForceBegin \/ StopBegin
  BY <1>1, <1>2 DEF TickBegin, ForceBegin, StopBegin, Writers, history
<1>3. CASE PublishDossier
  <2>. DEFINE w == "dossier"
              state == [Resting EXCEPT !.at = "save", !.seen = Readable]
  <2>1. w \in Writers /\ closer[w].at = "idle" /\ UNCHANGED <<manifest, owed, orphaned, forgot>>
    BY <1>3 DEF PublishDossier, Writers, disk, history
  <2>2. closer' = [closer EXCEPT ![w] = state]
    BY <1>3 DEF PublishDossier
  <2>3. closer'[w] = state /\ \A v \in Writers \ {w} : closer'[v] = closer[v]
    BY <2>1, <2>2 DEF CloserTypes
  <2>4. /\ state.at = "save" /\ state.previous = NoLog /\ state.seen = Readable
        /\ state.built = NoLog
    BY DEF Resting
  <2>5. /\ Readable \in [Day -> Seq(Log)] /\ Dated(Readable)
        /\ \A day \in Day : Begins(Readable[day], manifest[day])
    BY <2>1, Reading DEF Readable, Dated, Unlisted, Lineage, Begins, DiskTypes
  <2>6. \A day \in Day : NoLog.day # day
    BY RolloverAssumption DEF NoLog, Day
  <2>7. Fits(w, closer[w])'
    BY <2>1, <2>3, <2>4, <2>5, <2>6 DEF Fits, Ahead
  <2>8. w \notin Bringing
    BY <2>1 DEF Bringing
  <2>. QED BY <2>1, <2>3, <2>7, <2>8, LineageMove
<1>. QED BY <1>2, <1>3

\* A publication that loses nothing of a day adds at most its log to the day's list.
LEMMA Published ==
  ASSUME NEW m \in Seq(Log), NEW list \in Seq(Log), NEW log, Differ(m),
         \A n \in DOMAIN m : \E k \in DOMAIN list : list[k] = m[n],
         \/ Begins(list, m)
         \/ /\ list # <<>> /\ list[Len(list)] = log
            /\ \A n \in 1..(Len(list) - 1) :
                 n \in DOMAIN m /\ m[n] = list[n] /\ list[n] # log
  PROVE  Begins(m, list) /\ Differ(list)
<1>1. DOMAIN m = 1..Len(m) /\ DOMAIN list = 1..Len(list) /\ Len(m) \in Nat /\ Len(list) \in Nat
  OBVIOUS
<1>2. CASE Begins(list, m)
  <2>1. \A n \in DOMAIN m : n \in DOMAIN list
    BY <1>2, <1>1 DEF Begins, Differ
  <2>2. Len(m) <= Len(list)
    BY <1>1, <2>1
  <2>. QED BY <1>1, <1>2, <2>1, <2>2 DEF Begins, Differ
<1>3. CASE /\ list # <<>> /\ list[Len(list)] = log
           /\ \A n \in 1..(Len(list) - 1) :
                n \in DOMAIN m /\ m[n] = list[n] /\ list[n] # log
  <2>. DEFINE last == Len(list)
  <2>1. last \in Nat \ {0} /\ last \in DOMAIN list
    BY <1>3
  <2>2. \A n \in DOMAIN m : n >= last => m[n] = log
    <3>. SUFFICES ASSUME NEW n \in DOMAIN m, n >= last PROVE m[n] = log
      OBVIOUS
    <3>1. PICK k \in DOMAIN list : list[k] = m[n]
      OBVIOUS
    <3>2. CASE k = last
      BY <1>3, <3>1, <3>2
    <3>3. CASE k \in 1..(last - 1)
      <4>1. k \in DOMAIN m /\ m[k] = m[n]
        BY <1>3, <3>1, <3>3
      <4>. QED BY <3>3, <4>1, <1>1, <2>1 DEF Differ
    <3>. QED BY <3>1, <3>2, <3>3, <1>1, <2>1
  <2>3. Len(m) <= last
    <3>. SUFFICES ASSUME Len(m) > last PROVE FALSE
      BY <1>1, <2>1
    <3>1. Len(m) \in DOMAIN m /\ last \in DOMAIN m
      BY <1>1, <2>1
    <3>2. m[Len(m)] = m[last]
      BY <3>1, <2>1, <2>2
    <3>. QED BY <3>1, <3>2 DEF Differ
  <2>4. \A n \in DOMAIN m : list[n] = m[n]
    BY <1>1, <1>3, <2>1, <2>2, <2>3
  <2>5. Differ(list)
    <3>. SUFFICES ASSUME NEW i \in DOMAIN list, NEW j \in DOMAIN list, list[i] = list[j], i # j
                  PROVE  FALSE
      BY DEF Differ
    <3>1. CASE i \in 1..(last - 1) /\ j \in 1..(last - 1)
      BY <1>3, <3>1 DEF Differ
    <3>2. CASE i = last \/ j = last
      BY <1>1, <1>3, <2>1, <3>2
    <3>. QED BY <1>1, <2>1, <3>1, <3>2
  <2>. QED BY <2>3, <2>4, <2>5 DEF Begins
<1>. QED BY <1>2, <1>3

\* A manifest that is lost loses nothing of the days it had nothing of.
LEMMA Emptied ==
  ASSUME Types, Lineage, forgot \subseteq forgot', manifest' = manifest \/ manifest' = Unlisted,
         \A day \in Day \ forgot' : \A n \in DOMAIN manifest[day] :
           \E k \in DOMAIN manifest'[day] : manifest'[day][k] = manifest[day][n]
  PROVE  /\ Dated(manifest')
         /\ \A day \in Day \ forgot' : Begins(manifest[day], manifest'[day]) /\ Differ(manifest'[day])
<1>1. \A day \in Day : manifest[day] \in Seq(Log)
  BY DEF Types, DiskTypes
<1>2. CASE manifest' = manifest
  BY <1>1, <1>2 DEF Lineage, Dated, Begins
<1>3. CASE manifest' = Unlisted
  <2>1. \A day \in Day : manifest'[day] = <<>>
    BY <1>3 DEF Unlisted
  <2>2. \A day \in Day \ forgot' : Len(manifest[day]) = 0
    BY <1>1, <2>1
  <2>. QED BY <1>1, <2>1, <2>2 DEF Dated, Begins, Differ
<1>. QED BY <1>2, <1>3

LEMMA LineageClose ==
  ASSUME Types, Types', Succession, Lineage, NEW w \in Writers, Close(w)
  PROVE  Lineage'
<1>. CloserTypes /\ DiskTypes
  BY DEF Types
<1>. /\ closer[w] \in WriterState /\ Dealt(closer[w]) /\ Fits(w, closer[w])
     /\ Sound(w, closer[w])
  BY DEF CloserTypes, Succession, Lineage
<1>1. CASE Build(w)
  <2>. DEFINE state == [closer[w] EXCEPT !.at = "open", !.built = logs[current]]
  <2>1. closer' = [closer EXCEPT ![w] = state]
    BY <1>1 DEF Build
  <2>2. closer'[w] = state /\ \A v \in Writers \ {w} : closer'[v] = closer[v]
    BY <2>1 DEF CloserTypes
  <2>3. /\ closer[w].at = "build" /\ closer[w].previous = NoLog /\ w # "dossier"
        /\ UNCHANGED <<manifest, owed, orphaned, forgot>>
    BY <1>1 DEF Build, Dealt, Sound, disk, history
  <2>4. /\ state.at = "open" /\ state.previous = NoLog /\ state.seen = closer[w].seen
    BY <2>3 DEF WriterState
  <2>5. Fits(w, closer[w])'
    BY <2>2, <2>3, <2>4 DEF Fits, Dated
  <2>6. w \notin Bringing
    BY <2>3 DEF Bringing
  <2>. QED BY <2>2, <2>3, <2>5, <2>6, LineageMove
<1>2. CASE ReadManifest(w)
  <2>. DEFINE seen == Readable
              built == closer[w].built
              entries == seen[built.day]
              more == [seen EXCEPT ![built.day] = Append(entries, built)]
              state == IF Listed(entries, built)
                       THEN [closer[w] EXCEPT !.at = "enqueue"]
                       ELSE [closer[w] EXCEPT !.at = "save", !.previous = Replaced(entries),
                                              !.seen = more]
  <2>1. /\ closer[w].at = "read" /\ closer[w].previous = NoLog
        /\ w # "dossier" /\ built \in Log /\ built.day \in Day
        /\ UNCHANGED <<manifest, owed, orphaned, forgot>>
    BY <1>2 DEF ReadManifest, Dealt, Sound, Past, Closers, Log, disk, history
  <2>2. closer' = [closer EXCEPT ![w] = state]
    BY <1>2 DEF ReadManifest
  <2>3. closer'[w] = state /\ \A v \in Writers \ {w} : closer'[v] = closer[v]
    BY <2>2 DEF CloserTypes
  <2>4. w \notin Bringing
    BY <2>1 DEF Bringing
  <2>5. ASSUME Listed(entries, built) PROVE Fits(w, closer[w])'
    <3>1. /\ state.at = "enqueue" /\ state.previous = NoLog /\ state.seen = closer[w].seen
      BY <2>1, <2>5 DEF WriterState
    <3>2. /\ closer'[w].at = "enqueue" /\ closer'[w].previous = NoLog
          /\ closer'[w].seen = closer[w].seen
      BY <2>3, <3>1
    <3>. HIDE DEF state
    <3>. QED BY <2>1, <3>2 DEF Fits, Dated
  <2>6. ASSUME ~Listed(entries, built) PROVE Fits(w, closer[w])'
    <3>1. /\ state.at = "save" /\ state.previous = Replaced(entries) /\ state.seen = more
          /\ state.built = built
      BY <2>6 DEF WriterState
    <3>2. /\ seen \in [Day -> Seq(Log)] /\ Dated(seen)
          /\ \A day \in Day : Begins(seen[day], manifest[day])
      BY Reading DEF Readable, Dated, Unlisted, Lineage, Begins, DiskTypes
    <3>3. entries \in Seq(Log) /\ more[built.day] = Append(entries, built)
          /\ \A day \in Day \ {built.day} : more[day] = seen[day]
      BY <2>1, <3>2
    <3>4. /\ Len(more[built.day]) = Len(entries) + 1 /\ Len(entries) \in Nat
          /\ more[built.day][Len(entries) + 1] = built
          /\ \A n \in 1..Len(entries) : more[built.day][n] = entries[n] /\ n \in DOMAIN entries
      BY <2>1, <3>3
    <3>5. Dated(more)
      <4>. SUFFICES ASSUME NEW day \in Day, NEW n \in DOMAIN more[day]
                    PROVE  more[day][n].day = day
        BY DEF Dated
      <4>1. CASE day # built.day
        BY <4>1, <3>2, <3>3 DEF Dated
      <4>2. CASE day = built.day
        <5>1. n \in 1..Len(entries) \/ n = Len(entries) + 1
          BY <4>2, <3>3, <3>4
        <5>. QED BY <4>2, <5>1, <3>2, <3>4, <2>1 DEF Dated
      <4>. QED BY <4>1, <4>2
    <3>6. Replaced(entries) # NoLog => Replaced(entries).day = built.day
      <4>. SUFFICES ASSUME entries # <<>> PROVE entries[Len(entries)].day = built.day
        BY DEF Replaced
      <4>1. Len(entries) \in DOMAIN entries
        BY <3>3
      <4>. QED BY <4>1, <2>1, <3>2 DEF Dated
    <3>7. ASSUME NEW day \in Day, day # built.day PROVE Ahead(state, day)
      BY <3>1, <3>2, <3>3, <3>7 DEF Ahead
    <3>8. Ahead(state, built.day)
      <4>1. more[built.day] # <<>>
        <5>1. Append(entries, built) # <<>>
          BY <2>1, <3>3
        <5>. QED BY <3>3, <5>1
      <4>2. Replaced(entries) = IF Len(more[built.day]) = 1 THEN NoLog
                                ELSE more[built.day][Len(more[built.day]) - 1]
        <5>1. entries = <<>> <=> Len(entries) = 0
          BY <3>3
        <5>2. Len(entries) # 0 => Len(entries) \in 1..Len(entries)
          BY <3>4
        <5>. QED BY <5>1, <5>2, <3>4 DEF Replaced
      <4>3. ASSUME NEW n \in 1..Len(entries)
            PROVE  /\ n \in DOMAIN manifest[built.day]
                   /\ manifest[built.day][n] = entries[n] /\ entries[n] # built
        <5>1. manifest[built.day] \in Seq(Log) /\ n \in DOMAIN entries
          BY <2>1, <3>3 DEF DiskTypes
        <5>. QED BY <2>1, <2>6, <3>2, <3>3, <5>1 DEF Begins, Listed
      <4>. HIDE DEF more, state, entries
      <4>. QED BY <3>1, <3>4, <4>1, <4>2, <4>3 DEF Ahead
    <3>9. Fits(w, state)
      BY <2>1, <3>1, <3>5, <3>6, <3>7, <3>8 DEF Fits
    <3>10. PICK taken : taken = state
      OBVIOUS
    <3>. HIDE DEF state
    <3>11. Fits(w, taken) /\ closer'[w] = taken
      BY <2>3, <3>9, <3>10
    <3>. QED BY <2>1, <3>11, FitsTaken
  <2>7. Fits(w, closer[w])'
    BY <2>5, <2>6
  <2>. HIDE DEF state
  <2>. QED BY <2>1, <2>3, <2>4, <2>7, LineageMove
<1>3. CASE OpenFile(w) \/ WriteFile(w) \/ OpenManifest(w)
  <2>1. Fits(w, closer[w])'
    BY <1>3, FitsAt DEF OpenFile, WriteFile, OpenManifest, history
  <2>2. w \notin Bringing
    BY <1>3, Steady DEF OpenFile, WriteFile, OpenManifest, Bringing
  <2>. QED BY <1>3, <2>1, <2>2, Steady, LineageMove
       DEF OpenFile, WriteFile, OpenManifest, history
<1>4. CASE FillManifest(w)
  <2>1. /\ closer[w].at = "fill" /\ UNCHANGED <<owed, orphaned>>
        /\ manifest' = closer[w].seen \/ manifest' = Unlisted
        /\ \A v \in Writers \ {w} : closer'[v] = closer[v]
    BY <1>4, Filled DEF FillManifest
  <2>2. /\ forgot \subseteq forgot'
        /\ \A day \in Day \ forgot' : \A n \in DOMAIN manifest[day] :
             \E k \in DOMAIN manifest'[day] : manifest'[day][k] = manifest[day][n]
    BY <1>4 DEF FillManifest, Forgets
  <2>8. ASSUME manifest' = Unlisted, NEW day \in Day \ forgot'
        PROVE  manifest[day] = <<>> /\ manifest'[day] = <<>>
    <3>1. manifest'[day] = <<>> /\ manifest[day] \in Seq(Log)
      BY <2>8 DEF Unlisted, DiskTypes
    <3>2. DOMAIN manifest[day] = {}
      BY <2>2, <2>8, <3>1
    <3>3. PICK list : list = manifest[day]
      OBVIOUS
    <3>4. list \in Seq(Log) /\ DOMAIN list = {}
      BY <3>1, <3>2, <3>3
    <3>5. Len(list) = 0
      BY <3>4
    <3>6. list = <<>>
      BY <3>4, <3>5
    <3>. QED BY <3>1, <3>3, <3>6
  <2>9. ASSUME manifest' = Unlisted, NEW day \in Day \ forgot'
        PROVE  Begins(manifest[day], manifest'[day]) /\ Differ(manifest'[day])
    BY <2>8, <2>9 DEF Begins, Differ
  <2>3. ASSUME manifest' = closer[w].seen, NEW day \in Day \ forgot'
        PROVE  Begins(manifest[day], manifest'[day]) /\ Differ(manifest'[day])
    <3>1. day \in Day \ forgot /\ Differ(manifest[day]) /\ Ahead(closer[w], day)
      BY <2>1, <2>2 DEF Lineage, Fits
    <3>2. manifest[day] \in Seq(Log) /\ manifest'[day] \in Seq(Log)
      BY <2>3 DEF DiskTypes, WriterState
    <3>. DEFINE list == closer[w].seen[day]
                log == closer[w].built
    <3>3. list \in Seq(Log) /\ manifest'[day] = list
      BY <2>3, <3>2
    <3>4. \/ Begins(list, manifest[day])
          \/ /\ list # <<>> /\ list[Len(list)] = log
             /\ \A n \in 1..(Len(list) - 1) :
                  n \in DOMAIN manifest[day] /\ manifest[day][n] = list[n] /\ list[n] # log
      BY <3>1 DEF Ahead
    <3>5. \A n \in DOMAIN manifest[day] : \E k \in DOMAIN list : list[k] = manifest[day][n]
      BY <2>2, <3>3
    <3>6. Begins(manifest[day], list) /\ Differ(list)
      <4>. HIDE DEF list, log
      <4>1. PICK m, l, end : m = manifest[day] /\ l = list /\ end = log
        OBVIOUS
      <4>2. m \in Seq(Log) /\ l \in Seq(Log) /\ Differ(m)
        BY <3>1, <3>2, <3>3, <4>1
      <4>3. \A n \in DOMAIN m : \E k \in DOMAIN l : l[k] = m[n]
        BY <3>5, <4>1
      <4>4. \/ Begins(l, m)
            \/ /\ l # <<>> /\ l[Len(l)] = end
               /\ \A n \in 1..(Len(l) - 1) : n \in DOMAIN m /\ m[n] = l[n] /\ l[n] # end
        BY <3>4, <4>1
      <4>5. Begins(m, l) /\ Differ(l)
        BY <4>2, <4>3, <4>4, Published
      <4>. QED BY <4>1, <4>5
    <3>. QED BY <3>3, <3>6
  <2>4. ASSUME NEW day \in Day \ forgot', w # "dossier", closer[w].previous # NoLog,
               closer[w].built.day = day
        PROVE  Follows(closer[w].previous, closer[w].built)'
    <3>. DEFINE list == closer[w].seen[day]
    <3>1. Ahead(closer[w], day) /\ list \in Seq(Log)
      BY <2>1, <2>2, <2>4 DEF Fits, WriterState
    <3>2. /\ list # <<>> /\ Len(list) # 1 /\ list[Len(list)] = closer[w].built
          /\ list[Len(list) - 1] = closer[w].previous
          /\ Len(list) - 1 \in 1..(Len(list) - 1) => Len(list) - 1 \in DOMAIN manifest[day]
      BY <2>4, <3>1 DEF Ahead
    <3>3. Len(list) - 1 \in DOMAIN list /\ (Len(list) - 1) + 1 \in DOMAIN list
          /\ (Len(list) - 1) + 1 = Len(list)
      <4>. HIDE DEF list
      <4>1. Len(list) \in Nat /\ Len(list) # 0 /\ DOMAIN list = 1..Len(list)
        BY <3>1, <3>2
      <4>. QED BY <3>2, <4>1
    <3>6. list = manifest'[day]
      <4>. HIDE DEF list
      <4>1. Len(list) - 1 \in 1..(Len(list) - 1)
        BY <3>1, <3>2, <3>3
      <4>2. manifest[day] # <<>>
        BY <3>2, <4>1
      <4>3. manifest' = closer[w].seen
        BY <2>1, <2>8, <4>2
      <4>. QED BY <4>3 DEF list
    <3>4. closer[w].previous.day = day
      BY <2>4 DEF Fits
    <3>5. closer'[w].built = closer[w].built /\ closer'[w].previous = closer[w].previous
      BY <1>4, <2>4, Filled
    <3>. HIDE DEF list
    <3>. QED BY <3>2, <3>3, <3>4, <3>5, <3>6 DEF Follows
  <2>5. Fits(w, closer[w])'
    <3>1. CASE w = "dossier"
      BY <1>4, <3>1, Filled, Cleared, FitsCleared
    <3>2. CASE w # "dossier"
      <4>1. /\ closer'[w].at = "lookup" /\ Dated(closer'[w].seen)
            /\ closer'[w].built = closer[w].built /\ closer'[w].previous = closer[w].previous
        BY <1>4, <3>2, Filled DEF Dated, Unlisted
      <4>. QED BY <2>4, <3>2, <4>1 DEF Fits, Dated
    <3>. QED BY <3>1, <3>2
  <2>6. Brought \subseteq Brought'
    <3>1. Handed' = Handed /\ w \notin Bringing /\ Bringing \subseteq Bringing'
      BY <2>1 DEF Handed, Bringing
    <3>. QED BY <2>1, <3>1 DEF Brought, Bringing
  <2>7. Dated(manifest')
    <3>1. Dated(closer[w].seen) /\ Dated(Unlisted)
      BY DEF Fits, Dated, Unlisted
    <3>. QED BY <2>1, <3>1
  <2>. QED BY <2>1, <2>2, <2>3, <2>5, <2>6, <2>7, <2>9, LineageStep
<1>5. CASE Lookup(w)
  <2>1. /\ \E to \in {"supersede", "enqueue"} : At(w, "lookup", to)
        /\ UNCHANGED <<manifest, owed, orphaned, forgot>>
    BY <1>5 DEF Lookup, disk
  <2>2. Fits(w, closer[w])'
    BY <2>1, FitsAt
  <2>3. w \notin Bringing
    BY <2>1, Steady DEF Bringing
  <2>. QED BY <2>1, <2>2, <2>3, Steady, LineageMove
<1>6. CASE Supersede(w)
  <2>. DEFINE previous == closer[w].previous
              built == closer[w].built
  <2>1. /\ At(w, "supersede", "enqueue") /\ previous \in Log
        /\ owed' = owed \union {Update(previous)} /\ UNCHANGED <<manifest, orphaned, forgot>>
    BY <1>6 DEF Supersede, Ask, At, Sound, disk, history
  <2>2. Fits(w, closer[w])'
    BY <2>1, FitsAt
  <2>3. w \notin Bringing /\ w \in Bringing'
    BY <2>1, Steady, Shapes DEF Bringing
  <2>4. built \in Brought'
    BY <2>1, <2>3, Steady DEF Brought
  <2>5. previous.day \in forgot' \/ Follows(previous, built)'
    <3>1. previous.day = built.day /\ closer[w].at = "supersede" /\ previous # NoLog
      BY <2>1, Shapes DEF Fits, At
    <3>2. previous.day \in forgot \/ Follows(previous, built)
      BY <2>1, <3>1 DEF Fits, Log
    <3>3. closer'[w].previous = closer[w].previous /\ closer'[w].built = closer[w].built
      BY <2>1, Steady
    <3>4. PICK old, new : old = closer[w].previous /\ new = closer[w].built
      OBVIOUS
    <3>5. old.day \in forgot' \/ Follows(old, new)'
      BY <2>1, <3>2, <3>4 DEF Follows
    <3>. QED BY <3>3, <3>4, <3>5
  <2>6. \A old \in Log : Update(old) \in owed' \ owed => old = previous
    BY <2>1, Shapes
  <2>7. \A old \in Log : Update(old) \in owed' \ owed =>
          old.day \in forgot' \/ \E new \in Brought' : Follows(old, new)'
    <3>1. PICK last, new : last = previous /\ new = built'
      OBVIOUS
    <3>2. new \in Brought' /\ (last.day \in forgot' \/ Follows(last, new)')
      BY <2>1, <2>4, <2>5, <3>1, Steady
    <3>. QED BY <2>6, <3>1, <3>2
  <2>. QED BY <2>1, <2>2, <2>3, <2>7, Steady, LineageMove
<1>7. CASE EnqueueLog(w)
  <2>. DEFINE to == IF w = "stop" THEN "closed" ELSE "repoint"
              state == [Resting EXCEPT !.at = to]
  <2>1. closer' = [closer EXCEPT ![w] = state]
    BY <1>7 DEF EnqueueLog
  <2>2. closer'[w] = state /\ \A v \in Writers \ {w} : closer'[v] = closer[v]
    BY <2>1 DEF CloserTypes
  <2>3. /\ state.at = to /\ state.previous = NoLog /\ state.seen = Unlisted
        /\ state.built = NoLog
    BY Cleared
  <2>4. /\ closer[w].built \in Log /\ owed' = owed \union {Add(closer[w].built)}
        /\ UNCHANGED <<manifest, orphaned, forgot>>
    BY <1>7 DEF EnqueueLog, Ask, Sound, Past, Closers, disk, history
  <2>5. Fits(w, closer[w])'
    <3>1. /\ closer'[w].at \notin {"save", "fill"} /\ closer'[w].previous = NoLog
          /\ closer'[w].seen = Unlisted /\ closer'[w].built = NoLog
      BY <2>2, <2>3
    <3>. HIDE DEF state
    <3>. QED BY <3>1, FitsCleared
  <2>6. closer[w].built \in Brought'
    BY <2>4 DEF Brought, Handed
  <2>7. \A old \in Log : Update(old) \in owed' => Update(old) \in owed
    BY <2>4, Shapes
  <2>. QED BY <2>2, <2>4, <2>5, <2>6, <2>7, LineageMove
<1>8. CASE Repoint(w)
  <2>1. Fits(w, closer[w])'
    BY <1>8, FitsAt DEF Repoint, disk, history
  <2>2. w \notin Bringing
    BY <1>8, Steady DEF Repoint, Bringing
  <2>. QED BY <1>8, <2>1, <2>2, Steady, LineageMove DEF Repoint, disk, history
<1>9. CASE Fail(w)
  <2>1. /\ UNCHANGED owed /\ forgot \subseteq forgot'
        /\ orphaned' = IF closer[w].at = "enqueue" /\ closer[w].previous # NoLog
                       THEN orphaned \union {closer[w].built} ELSE orphaned
        /\ \A v \in Writers \ {w} : closer'[v] = closer[v]
    BY <1>9, Failed DEF Fail, Cut, Forgets
  <2>2. /\ manifest' = manifest \/ manifest' = Unlisted
        /\ \A day \in Day \ forgot' : \A n \in DOMAIN manifest[day] :
             \E k \in DOMAIN manifest'[day] : manifest'[day][k] = manifest[day][n]
    BY <1>9 DEF Fail, Forgets, Readable
  <2>3. Fits(w, closer[w])'
    BY <1>9, Failed, FitsCleared
  <2>4. Brought \subseteq Brought'
    <3>1. Handed' = Handed
      BY <2>1 DEF Handed
    <3>2. \A v \in Bringing : closer[v].built \in Brought'
      BY <2>1 DEF Bringing, Brought
    <3>. QED BY <2>1, <3>1, <3>2 DEF Brought
  <2>. QED BY <2>1, <2>2, <2>3, <2>4, Emptied, LineageStep
<1>. QED
  BY <1>1, <1>2, <1>3, <1>4, <1>5, <1>6, <1>7, <1>8, <1>9 DEF Close

LEMMA LineageWorld ==
  ASSUME Types, Types', Lineage, Midnight \/ Restart \/ \E log \in Log : Anchor(log)
  PROVE  Lineage'
<1>1. CASE Midnight \/ \E log \in Log : Anchor(log)
  BY <1>1, LineageKept DEF Midnight, Anchor, disk, history
<1>2. CASE Restart
  <2>1. /\ UNCHANGED owed /\ forgot \subseteq forgot'
        /\ orphaned' = orphaned \union {closer[w].built : w \in Bringing}
        /\ \A w \in Writers : closer'[w] = Resting
    BY <1>2 DEF Restart, Forgets, Bringing
  <2>2. /\ manifest' = manifest \/ manifest' = Unlisted
        /\ \A day \in Day \ forgot' : \A n \in DOMAIN manifest[day] :
             \E k \in DOMAIN manifest'[day] : manifest'[day][k] = manifest[day][n]
    BY <1>2 DEF Restart, Forgets, Readable
  <2>3. ASSUME NEW w \in Writers PROVE Fits(w, closer[w])'
    BY <2>1, Cleared, FitsCleared
  <2>4. Brought \subseteq Brought'
    BY <2>1 DEF Brought, Handed
  <2>. QED BY <2>1, <2>2, <2>3, <2>4, Emptied, LineageStep
<1>. QED BY <1>1, <1>2

\* Of the numbers up to a bound that have a property, one is the greatest.
LessThan == {pair \in Nat \X Nat : pair[1] < pair[2]}

LEMMA Greatest ==
  ASSUME NEW N \in Nat, NEW T \in SUBSET (0..N), T # {}
  PROVE  \E n \in T : \A m \in T : m <= n
<1>. DEFINE R == {N - n : n \in T}
<1>1. R \subseteq Nat /\ R # {}
  <2>1. \A n \in T : n \in 0..N /\ N - n \in Nat
    OBVIOUS
  <2>2. PICK n \in T : TRUE
    OBVIOUS
  <2>. QED BY <2>1, <2>2
<1>2. IsWellFoundedOn(LessThan, Nat)
  BY NatLessThanWellFounded DEF OpToRel, LessThan
<1>3. \E r \in R : \A q \in R : <<q, r>> \notin LessThan
  <2>. HIDE DEF R
  <2>. QED BY <1>1, <1>2, WFMin
<1>4. PICK n \in T : \A q \in R : <<q, N - n>> \notin LessThan
  BY <1>3
<1>5. ASSUME NEW m \in T PROVE m <= n
  <2>1. <<N - m, N - n>> \notin LessThan
    BY <1>4
  <2>2. N - m \in Nat /\ N - n \in Nat /\ ~(N - m < N - n)
    BY <2>1 DEF LessThan
  <2>. QED BY <2>2
<1>. QED BY <1>5

\* The last log of a day's list that was asked to be superseded has its successor
\* in the list: that one was brought, and stands.
LEMMA LastHasHeir ==
  ASSUME Types, Lineage, NEW old \in Log, Update(old) \in owed, old.day \notin forgot
  PROVE  \E heir \in Log : /\ heir.day = old.day /\ Update(heir) \notin owed
                           /\ heir \in Brought
<1>. DEFINE day == old.day
            list == manifest[day]
            T == {n \in DOMAIN list : Update(list[n]) \in owed}
<1>1. day \in Day /\ list \in Seq(Log) /\ Differ(list)
  BY DEF Types, DiskTypes, Log, Lineage
<1>2. DOMAIN list = 1..Len(list) /\ Len(list) \in Nat /\ \A n \in DOMAIN list : list[n] \in Log
  BY <1>1
<1>3. \A n \in DOMAIN list : list[n].day = day
  BY <1>1 DEF Lineage, Dated
<1>4. T # {}
  <2>1. PICK new \in Brought : Follows(old, new)
    BY DEF Lineage
  <2>2. PICK n \in DOMAIN list : list[n] = old
    BY <2>1 DEF Follows
  <2>. QED BY <2>2
<1>5. PICK n \in T : \A m \in T : m <= n
  <2>1. T \in SUBSET (0..Len(list))
    BY <1>2
  <2>. HIDE DEF T
  <2>. QED BY <1>2, <1>4, <2>1, Greatest
<1>6. n \in DOMAIN list /\ list[n] \in Log /\ Update(list[n]) \in owed /\ list[n].day = day
  BY <1>2, <1>3, <1>5
<1>7. PICK new \in Brought : Follows(list[n], new)
  BY <1>6 DEF Lineage
<1>8. n + 1 \in DOMAIN list /\ list[n + 1] = new
  <2>1. PICK m \in DOMAIN list : m + 1 \in DOMAIN list /\ list[m] = list[n] /\ list[m + 1] = new
    BY <1>6, <1>7 DEF Follows
  <2>2. m = n
    BY <1>1, <1>6, <2>1 DEF Differ
  <2>. QED BY <2>1, <2>2
<1>9. Update(list[n + 1]) \notin owed
  <2>1. ~(n + 1 <= n)
    BY <1>2, <1>6
  <2>2. n + 1 \notin T
    BY <1>5, <2>1
  <2>. QED BY <1>8, <2>2
<1>. QED BY <1>2, <1>3, <1>7, <1>8, <1>9

\* Wherever a record is asked to be superseded and the manifest has lost nothing of
\* its day, a log of that day is not: it was handed over, its closing failed after
\* it took the earlier one's place, or that closing is under way.
THEOREM HeirStands == Spec => []SupersededHasHeir
<1>1. Init => Lineage
  <2>. SUFFICES ASSUME Init PROVE Lineage
    OBVIOUS
  <2>1. /\ \A w \in Writers : closer[w] = Resting
        /\ manifest = Unlisted /\ owed = {}
    BY DEF Init
  <2>2. Resting.at = "idle" /\ Resting.previous = NoLog /\ Resting.seen = Unlisted
        /\ Resting.built = NoLog
    BY DEF Resting
  <2>3. Dated(Unlisted) /\ \A day \in Day : Differ(Unlisted[day])
    BY DEF Dated, Differ, Unlisted
  <2>4. \A w \in Writers : Fits(w, closer[w])
    BY <2>1, <2>2, <2>3 DEF Fits
  <2>. QED BY <2>1, <2>3, <2>4 DEF Lineage
<1>2. Types /\ Types' /\ Succession /\ Lineage /\ [Next]_vars => Lineage'
  <2>. SUFFICES ASSUME Types, Types', Succession, Lineage, [Next]_vars PROVE Lineage'
    OBVIOUS
  <2>1. ASSUME NEW d \in Decision, Find(d) \/ AddEntry(d) PROVE Lineage'
    BY <2>1, LineageKept DEF Find, AddEntry, disk, history
  <2>2. CASE UNCHANGED vars
    BY <2>2, LineageKept DEF vars, disk, history
  <2>. QED BY <2>1, <2>2, LineageBegin, LineageClose, LineageWorld DEF Next
<1>3. Types /\ Lineage => SupersededHasHeir
  <2>. SUFFICES ASSUME Types, Lineage, NEW old \in Log, Update(old) \in owed, old.day \notin forgot
                PROVE  \E heir \in Log :
                         /\ heir.day = old.day /\ Update(heir) \notin owed
                         /\ \/ heir \in Handed \union orphaned
                            \/ \E w \in Writers : closer[w].built = heir
    BY DEF SupersededHasHeir
  <2>1. PICK heir \in Log : heir.day = old.day /\ Update(heir) \notin owed /\ heir \in Brought
    BY LastHasHeir
  <2>2. heir \in Handed \union orphaned \/ \E w \in Writers : closer[w].built = heir
    BY <2>1 DEF Brought, Bringing
  <2>. QED BY <2>1, <2>2
<1>. QED BY <1>1, <1>2, <1>3, AlwaysTypes, AlwaysSuccession, PTL DEF Spec
=============================================================================
