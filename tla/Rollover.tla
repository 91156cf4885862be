------------------------------- MODULE Rollover -------------------------------
(***************************************************************************)
(* The session's decision log (zcastor/record/decision_log.py), its closing *)
(* (record/rollover.py), the published files and their manifest             *)
(* (record/publisher.py), and the places in app/server.py that close it:    *)
(* the timer's tick, POST /rollover and the shutdown.                       *)
(*                                                                          *)
(* One thread per decision, one per closer, and one that publishes a        *)
(* dossier and shares the manifest.  Of what OutboxPromise says the outbox  *)
(* does, what it owes is all that matters here: an anchored log shows in    *)
(* the index.  A log's checksum is its content: the day and the decisions.  *)
(***************************************************************************)
EXTENDS Naturals, Sequences, FiniteSets

CONSTANTS
  Decision,     \* recordable decisions
  MaxDay,       \* bound: the last day of the clock
  MaxEvents,    \* bound: how often, together, POST /rollover is called, a dossier
                \* is published, and a write or an enqueue fails
  MaxRestarts   \* bound: how often the process starts again

ASSUME RolloverAssumption ==
  /\ IsFiniteSet(Decision)
  /\ {MaxDay, MaxEvents, MaxRestarts} \subseteq Nat

Day == 0..MaxDay
Log == [day : Day, decisions : SUBSET Decision]
NoLog == [day |-> MaxDay + 1, decisions |-> {}]

\* What the outbox is asked for, by content: anchor a log, supersede its record.
Add(log) == [op |-> "add", log |-> log]
Update(log) == [op |-> "update", log |-> log]
Item == [op : {"add", "update"}, log : Log]

Writers == {"tick", "force", "stop", "dossier"}

VARIABLES
  today,    \* the clock
  logs,     \* the DecisionLogs this process has made
  current,  \* which of them is rollover.log; its day is rollover.day
  writes,   \* which of them is engine.decision_log
  pc, ref,  \* a decision's step, and the log it found
  closer,   \* a writer of the manifest: its step, the log it has built, what
            \* that replaces, the manifest as it read it
  files,    \* the decision logs on disk, whole
  manifest, \* for each day, the logs published for it, newest last
  blank,    \* the manifest was emptied to be written anew
  owed,     \* what the outbox has taken on
  index,    \* AnchorIndex: the status of a log's record
  events, restarts,
  \* History.
  recorded, \* decisions that were added to a log
  late,     \* of them, those added while a log was being closed
  killed,   \* of them, those the process had in memory when it died
  missed,   \* logs whose successor did not find their record anchored, or
            \* whose successor's closing failed
  orphaned, \* logs whose closing failed after it superseded their predecessor
  broken,   \* logs whose file was opened to be written, and not filled
  forgot    \* days of which the manifest has lost a log

session == <<logs, current, writes>>
engine == <<pc, ref>>
disk == <<files, manifest, blank>>
counts == <<events, restarts>>
history == <<recorded, late, killed, missed, orphaned, broken, forgot>>
vars == <<today, session, engine, closer, disk, owed, index, counts, history>>

Fresh(day) == [day |-> day, decisions |-> {}]
Unlisted == [day \in Day |-> <<>>]
Resting == [at |-> "idle", built |-> NoLog, previous |-> NoLog, seen |-> Unlisted]

Init ==
  /\ today = 0 /\ logs = <<Fresh(0)>> /\ current = 1 /\ writes = 1
  /\ pc = [d \in Decision |-> "new"] /\ ref = [d \in Decision |-> 1]
  /\ closer = [w \in Writers |-> Resting]
  /\ files = {} /\ manifest = Unlisted /\ blank = FALSE
  /\ owed = {}
  /\ index = [log \in Log |-> "none"]
  /\ events = 0 /\ restarts = 0
  /\ recorded = {} /\ late = {} /\ killed = {} /\ missed = {} /\ orphaned = {}
  /\ broken = {} /\ forgot = {}

At(w, from, to) == closer[w].at = from /\ closer' = [closer EXCEPT ![w].at = to]
Stopping == closer["stop"].at # "idle"
Closing == \E w \in Writers \ {"dossier"} : closer[w].at # "idle"

-----------------------------------------------------------------------------
(* Engine._record: the engine's reference is read, then the entry appended.  *)

Find(d) ==
  /\ pc[d] = "new" /\ ~Stopping
  /\ pc' = [pc EXCEPT ![d] = "add"] /\ ref' = [ref EXCEPT ![d] = writes]
  /\ UNCHANGED <<today, session, closer, disk, owed, index, counts, history>>

AddEntry(d) ==
  /\ pc[d] = "add" /\ pc' = [pc EXCEPT ![d] = "done"]
  /\ logs' = [logs EXCEPT ![ref[d]].decisions = @ \union {d}]
  /\ recorded' = recorded \union {d}
  /\ late' = IF Closing \/ ref[d] # writes THEN late \union {d} ELSE late
  /\ UNCHANGED <<today, current, writes, ref, closer, disk, owed, index, counts,
                 killed, missed, orphaned, broken, forgot>>

-----------------------------------------------------------------------------
(* SessionRollover.close, by the timer, an operator or the shutdown.        *)

\* Mutant of TickBegin: a day without decisions is not published.
TickBeginSkipsEmpty ==
  /\ ~Stopping /\ logs[current].day # today /\ logs[current].decisions # {}
  /\ At("tick", "idle", "build")
  /\ UNCHANGED <<today, session, engine, disk, owed, index, counts, history>>

\* tick, once a day is over.
TickBegin ==
  /\ ~Stopping /\ logs[current].day # today
  /\ At("tick", "idle", "build")
  /\ UNCHANGED <<today, session, engine, disk, owed, index, counts, history>>

ForceBegin ==
  /\ ~Stopping /\ events < MaxEvents /\ events' = events + 1
  /\ At("force", "idle", "build")
  /\ UNCHANGED <<today, session, engine, disk, owed, index, restarts, history>>

\* The server waits for its requests, then cancels its tasks: a tick that has
\* begun goes on in its thread.
StopBegin ==
  /\ \A d \in Decision : pc[d] # "add"
  /\ closer["force"].at = "idle"
  /\ At("stop", "idle", "build")
  /\ UNCHANGED <<today, session, engine, disk, owed, index, counts, history>>

\* The log as it is.
Build(w) ==
  /\ closer[w].at = "build"
  /\ closer' = [closer EXCEPT ![w].at = "open", ![w].built = logs[current]]
  /\ UNCHANGED <<today, session, engine, disk, owed, index, counts, history>>

\* write_canonical empties the file of that content, also one that was handed over
\* long ago, then fills it.
OpenFile(w) ==
  /\ At(w, "open", "write") /\ files' = files \ {closer[w].built}
  /\ UNCHANGED <<today, session, engine, manifest, blank, owed, index, counts, history>>

\* Mutant of WriteFile: a write that fails is swallowed.
WriteFileSwallows(w) ==
  /\ At(w, "write", "read") /\ files' \in {files, files \union {closer[w].built}}
  /\ UNCHANGED <<today, session, engine, manifest, blank, owed, index, counts, history>>

WriteFile(w) ==
  /\ At(w, "write", "read") /\ files' = files \union {closer[w].built}
  /\ broken' = broken \ {closer[w].built}
  /\ UNCHANGED <<today, session, engine, manifest, blank, owed, index, counts, recorded,
                 late, killed, missed, orphaned, forgot>>

\* An empty manifest counts as none.
Readable == IF blank THEN Unlisted ELSE manifest

\* publish_dossier, by a decision or by a watcher's fill, which may come during
\* the shutdown.
PublishDossier ==
  /\ events < MaxEvents /\ events' = events + 1
  /\ closer["dossier"].at = "idle"
  /\ closer' = [closer EXCEPT !["dossier"] =
                  [Resting EXCEPT !.at = "save", !.seen = Readable]]
  /\ UNCHANGED <<today, session, engine, disk, owed, index, restarts, history>>

\* Mutant of Replaced: the newest but one.
ReplacedOneOff(entries) == IF Len(entries) < 2 THEN NoLog ELSE entries[Len(entries) - 1]

\* What a publication replaces: the newest log of its day.
Replaced(entries) == IF entries = <<>> THEN NoLog ELSE entries[Len(entries)]

\* Mutant of Listed: no log counts as listed.
ListedNever(entries, log) == FALSE

Listed(entries, log) == \E n \in DOMAIN entries : entries[n] = log

\* _record_in_manifest: bytes that were published before replace nothing.
ReadManifest(w) ==
  /\ closer[w].at = "read"
  /\ LET seen == Readable
         built == closer[w].built
         entries == seen[built.day]
     IN closer' = [closer EXCEPT ![w] =
          IF Listed(entries, built)
          THEN [@ EXCEPT !.at = "enqueue"]
          ELSE [@ EXCEPT !.at = "save", !.previous = Replaced(entries),
                         !.seen = [seen EXCEPT ![built.day] = Append(entries, built)]]]
  /\ UNCHANGED <<today, session, engine, disk, owed, index, counts, history>>

\* History: the days that have lost a log.
Forgets(new) ==
  forgot' = forgot \union {day \in Day :
              \E n \in DOMAIN manifest[day] : \A m \in DOMAIN new[day] :
                 new[day][m] # manifest[day][n]}

\* write_text empties the file, then fills it.  If another writer has filled it in
\* between, what was longer of that one's text stays at the end: nobody can read it.
OpenManifest(w) ==
  /\ At(w, "save", "fill") /\ blank' = TRUE
  /\ UNCHANGED <<today, session, engine, files, manifest, owed, index, counts, history>>
FillManifest(w) ==
  /\ closer[w].at = "fill" /\ blank' = FALSE
  /\ manifest' = closer[w].seen \/ (~blank /\ manifest' = Unlisted)
  /\ Forgets(manifest')
  /\ closer' = [closer EXCEPT ![w] =
       IF w = "dossier" THEN Resting ELSE [@ EXCEPT !.at = "lookup", !.seen = Unlisted]]
  /\ UNCHANGED <<today, session, engine, files, owed, index, counts, recorded, late,
                 killed, missed, orphaned, broken>>

\* _supersede: the record of what is replaced, if the index has it Active, is
\* asked to be superseded, and the index told.  If the process dies between the
\* two, the next close asks again and the outbox ignores it.
Lookup(w) ==
  /\ LET previous == closer[w].previous
         anchored == previous # NoLog /\ index[previous] = "Active"
     IN /\ At(w, "lookup", IF anchored THEN "supersede" ELSE "enqueue")
        /\ missed' = IF previous = NoLog \/ index[previous] # "none"
                     THEN missed ELSE missed \union {previous}
  /\ UNCHANGED <<today, session, engine, disk, owed, index, counts, recorded, late,
                 killed, orphaned, broken, forgot>>

Ask(item) == owed' = owed \union {item}

Supersede(w) ==
  /\ At(w, "supersede", "enqueue") /\ Ask(Update(closer[w].previous))
  /\ index' = [index EXCEPT ![closer[w].previous] = "Superseded"]
  /\ UNCHANGED <<today, session, engine, disk, counts, history>>

\* Mutant of Renew: the new log is dated a day ahead.
RenewAhead(w) == /\ logs' = Append(logs, Fresh(today + 1))
                 /\ current' = Len(logs')

\* The shutdown does not start a new log.
Renew(w) == /\ logs' = IF w = "stop" THEN logs ELSE Append(logs, Fresh(today))
            /\ current' = Len(logs')

\* The record is handed over and the next log begun: what another thread can see
\* in between, it can see before.
EnqueueLog(w) ==
  /\ closer[w].at = "enqueue" /\ Ask(Add(closer[w].built)) /\ Renew(w)
  /\ closer' = [closer EXCEPT ![w] =
       [Resting EXCEPT !.at = IF w = "stop" THEN "closed" ELSE "repoint"]]
  /\ UNCHANGED <<today, writes, engine, disk, index, counts, history>>

\* Mutant of Repoint: only the timer's rollover repoints the engine.
RepointTickOnly(w) ==
  /\ At(w, "repoint", "idle")
  /\ writes' = IF w = "tick" THEN current ELSE writes
  /\ UNCHANGED <<today, logs, current, engine, disk, owed, index, counts, history>>

\* Back on the event loop, the server points the engine to the new log.
Repoint(w) ==
  /\ At(w, "repoint", "idle") /\ writes' = current
  /\ UNCHANGED <<today, logs, current, engine, disk, owed, index, counts, history>>

\* The predecessor and the log of a closing that ends too early.
Cut(w) ==
  /\ missed' = missed \union ({closer[w].previous} \ {NoLog})
  /\ orphaned' = IF closer[w].at = "enqueue" /\ closer[w].previous # NoLog
                 THEN orphaned \union {closer[w].built} ELSE orphaned

\* A write or an enqueue raises: a manifest that was open cannot be read, unless
\* another writer has filled it, and a log's file is cut short.  The log stays the
\* current one.
Fail(w) ==
  /\ closer[w].at \in {"open", "write", "save", "fill", "supersede", "enqueue"}
  /\ events < MaxEvents /\ events' = events + 1
  /\ closer' = [closer EXCEPT ![w] =
       [Resting EXCEPT !.at = IF w = "stop" THEN "failed" ELSE "idle"]]
  /\ IF closer[w].at = "fill"
     THEN blank' = FALSE /\ manifest' \in {Unlisted, Readable}
     ELSE UNCHANGED <<blank, manifest>>
  /\ Forgets(manifest') /\ Cut(w)
  /\ broken' = IF closer[w].at = "write" THEN broken \union ({closer[w].built} \ files)
               ELSE broken
  /\ UNCHANGED <<today, session, engine, files, owed, index, restarts, recorded, late, killed>>

Close(w) ==
  \/ Build(w) \/ OpenFile(w) \/ WriteFile(w) \/ ReadManifest(w) \/ OpenManifest(w)
  \/ FillManifest(w) \/ Lookup(w) \/ Supersede(w) \/ EnqueueLog(w) \/ Repoint(w) \/ Fail(w)

-----------------------------------------------------------------------------
(* The world.                                                               *)

Midnight ==
  /\ today < MaxDay /\ today' = today + 1
  /\ UNCHANGED <<session, engine, closer, disk, owed, index, counts, history>>

\* A drain lands a log and on_anchored enters its record under its checksum.  An
\* update carries no checksum: its row is one nobody asks for.
Anchor(log) ==
  /\ Add(log) \in owed /\ index[log] = "none"
  /\ index' = [index EXCEPT ![log] = "Active"]
  /\ UNCHANGED <<today, session, engine, closer, disk, owed, counts, history>>

\* The logs whose files are being written.
Rewritten == {closer[w].built : w \in {v \in Writers : closer[v].at = "write"}}

\* The process dies, or exits after its shutdown, and starts again with an empty
\* log for the day.
Restart ==
  /\ restarts < MaxRestarts /\ restarts' = restarts + 1
  /\ logs' = <<Fresh(today)>> /\ current' = 1 /\ writes' = 1
  /\ pc' = [d \in Decision |-> IF pc[d] = "new" THEN "new" ELSE "done"]
  /\ ref' = [d \in Decision |-> 1]
  /\ closer' = [w \in Writers |-> Resting]
  /\ manifest' = Readable /\ blank' = FALSE /\ Forgets(manifest')
  /\ killed' = IF closer["stop"].at = "closed" THEN killed
               ELSE killed \union logs[current].decisions
  /\ missed' = missed \union ({closer[w].previous : w \in Writers} \ {NoLog})
  /\ orphaned' = orphaned \union
       {closer[w].built : w \in {v \in Writers : closer[v].at = "enqueue"
                                                 /\ closer[v].previous # NoLog}}
  /\ broken' = broken \union (Rewritten \ files)
  /\ UNCHANGED <<today, files, owed, index, events, recorded, late>>

Next ==
  \/ \E d \in Decision : Find(d) \/ AddEntry(d)
  \/ TickBegin \/ ForceBegin \/ StopBegin \/ PublishDossier
  \/ \E w \in Writers : Close(w)
  \/ Midnight \/ Restart
  \/ \E log \in Log : Anchor(log)

Spec == Init /\ [][Next]_vars

\* _roll_sessions looks at the clock for ever.
FairSpec == Spec /\ WF_vars(TickBegin \/ Close("tick"))

-----------------------------------------------------------------------------
(* Properties.                                                              *)

Steps == {"idle", "build", "open", "write", "read", "save", "fill", "lookup", "supersede", "enqueue",
          "repoint", "closed", "failed"}

\* Every variable has its type, and no log is dated ahead of the clock.
TypeOK ==
  /\ today \in Day
  /\ logs \in Seq(Log) /\ {current, writes} \subseteq DOMAIN logs
  /\ \A n \in DOMAIN logs : logs[n].day <= today
  /\ pc \in [Decision -> {"new", "add", "done"}] /\ ref \in [Decision -> DOMAIN logs]
  /\ \A w \in Writers :
       /\ closer[w].at \in Steps /\ {closer[w].built, closer[w].previous} \subseteq Log \union {NoLog}
       /\ closer[w].at = "supersede" => closer[w].previous \in Log
  /\ files \subseteq Log /\ manifest \in [Day -> Seq(Log)] /\ blank \in BOOLEAN
  /\ owed \subseteq Item
  /\ index \in [Log -> {"none", "Active", "Superseded"}]

\* decision_log.py: "This log is the complete decision set".  A decision that was
\* recorded while no log was being closed is in the log that the next close will
\* publish, or in one that was handed to the outbox; only a process that dies
\* without closing takes it along.
Handed == {log \in Log : Add(log) \in owed}
DecisionsAccounted ==
  recorded \subseteq late \union killed \union logs[current].decisions
                       \union UNION {log.decisions : log \in Handed}

\* rollover.py: "The log is published to disk first, then enqueued".  Whatever the
\* outbox was handed can be read, but while a closing of the same content writes it
\* anew, and after a write, a second one included, that failed or died half-way.
AnchoredResolves == Handed \subseteq files \union Rewritten \union broken

\* README.md: republishing "marks the old record Superseded".  A reader who finds
\* a record superseded finds a record of the same day that is not, unless the
\* closing that was to anchor it failed half-way.  If the manifest has lost a log,
\* its bytes may be published anew, and supersede what had superseded them.
SupersededHasHeir ==
  \A old \in Log : Update(old) \in owed /\ old.day \notin forgot =>
    \E heir \in Log :
      /\ heir.day = old.day /\ Update(heir) \notin owed
      /\ \/ heir \in Handed \union orphaned
         \/ \E w \in Writers : closer[w].built = heir

\* rollover.py: "the earlier record must be marked Superseded".  Of two logs that
\* follow each other in the manifest the earlier is asked to be superseded, unless
\* its record was not anchored yet when the later was published, or that closing
\* failed.
ReplacedIsSuperseded ==
  \A day \in Day : \A n \in 2..Len(manifest[day]) :
    LET old == manifest[day][n - 1]
    IN \/ Update(old) \in owed \/ old \in missed
       \/ \E w \in Writers : closer[w].previous = old

\* rollover.py: "No silent gaps. A day with zero decisions still publishes".  The
\* log of a day that ends while the process lives is handed over, whatever fails.
EveryDayIsPublished ==
  \A day \in 0..(MaxDay - 1) :
    (logs[current].day = day /\ today # day /\ restarts = MaxRestarts)
      ~> (\E log \in Handed : log.day = day) \/ Stopping

\* server.py: "A restart mid-session must not strand the decisions made before
\* it".  A decision that was handed over for anchoring stays in a record that is
\* not superseded.
NothingStranded ==
  \A log \in Handed : \A d \in log.decisions :
    \E kept \in Handed : d \in kept.decisions /\ Update(kept) \notin owed
=============================================================================
