---------------------------- MODULE OutboxSchedule ---------------------------
(***************************************************************************)
(* When the outbox sends what: insertion order, drain's limit and the       *)
(* exponential backoff of zcastor/anchor/outbox.py, under the drain loop of *)
(* zcastor/app/server.py, through the account of Nvnm.  Outbox has the      *)
(* interleavings and the log; here one loop drains, and time is what an     *)
(* entry still has to wait.                                                 *)
(***************************************************************************)
EXTENDS Nvnm

CONSTANTS
  Limit,        \* drain's limit
  MaxAttempts,  \* max_attempts; 0 retries forever
  Base,         \* BASE_BACKOFF_SECONDS
  MaxBackoff,   \* MAX_BACKOFF_SECONDS
  Interval,     \* seconds the loop sleeps between drains
  AttemptBound  \* bound: attempts saturate where the delay has reached its cap

ASSUME ScheduleAssumption ==
  /\ {Limit, Base, MaxBackoff, Interval} \subseteq Nat \ {0}
  /\ MaxAttempts \in Nat /\ AttemptBound \in Nat
  /\ MaxAttempts <= AttemptBound
  /\ Base * 2^(AttemptBound - 1) >= MaxBackoff

VARIABLES
  queue,     \* _pending's entries, in insertion order
  slice,     \* what is left of the slice a drain took
  draining,  \* the loop is inside drain, and not asleep
  attempts,
  wait,      \* next_attempt_at - now, or 0
  fresh      \* entries not created yet

remote == <<chain, call, reachable>>
delays == <<attempts, wait>>
vars == <<remote, queue, slice, draining, delays, fresh>>

Init ==
  /\ ChainInit
  /\ queue = <<>> /\ slice = <<>> /\ draining = FALSE
  /\ attempts = [e \in Entry |-> 0] /\ wait = [e \in Entry |-> 0]
  /\ fresh = Entry

Lesser(m, n) == IF m <= n THEN m ELSE n

Enqueue(e) ==
  /\ e \in fresh /\ fresh' = fresh \ {e}
  /\ queue' = Append(queue, e)
  /\ UNCHANGED <<remote, slice, draining, delays>>

\* Mutant of Sleep: the slice is one short.
SleepSliceShort ==
  /\ ~draining /\ draining' = TRUE
  /\ wait' = [e \in Entry |-> IF wait[e] > Interval THEN wait[e] - Interval ELSE 0]
  /\ slice' = SubSeq(queue, 1, Lesser(Limit - 1, Len(queue)))
  /\ UNCHANGED <<remote, queue, attempts, fresh>>

\* asyncio.sleep(interval)
Sleep ==
  /\ ~draining /\ draining' = TRUE
  /\ wait' = [e \in Entry |-> IF wait[e] > Interval THEN wait[e] - Interval ELSE 0]
  /\ slice' = SubSeq(queue, 1, Lesser(Limit, Len(queue)))
  /\ UNCHANGED <<remote, queue, attempts, fresh>>

DrainSkip ==
  /\ awaiting = NoEntry
  /\ slice # <<>> /\ wait[Head(slice)] > 0
  /\ slice' = Tail(slice)
  /\ UNCHANGED <<remote, queue, draining, delays, fresh>>

\* A due entry, which stays at the head of the slice while its call lasts.
Due(e) == slice # <<>> /\ e = Head(slice) /\ wait[e] = 0
DrainSubmit(e) ==
  /\ Due(e) /\ awaiting = NoEntry /\ reachable /\ Send(e)
  /\ UNCHANGED <<reachable, queue, slice, draining, delays, fresh>>

\* _pending.pop: the entry is taken from where it stands.
Popped(e) == RemoveAt(queue, CHOOSE i \in DOMAIN queue : queue[i] = e)

\* _complete, and _park of a permanent failure: the entry leaves the queue.
Leaves(e) ==
  /\ queue' = Popped(e) /\ slice' = Tail(slice)
  /\ UNCHANGED <<reachable, draining, delays, fresh>>
DrainSent(e) == Due(e) /\ Read("ok") /\ Leaves(e)
DrainPark(e) ==
  /\ Due(e) /\ Leaves(e)
  /\ \/ Read("revert")
     \/ Raises(e, "permanent") /\ UNCHANGED <<chain, call>>

Delay(n) == Lesser(Base * 2^(n - 1), MaxBackoff)

\* _backoff, and the _park inside it, when the call could not send, or its receipt
\* did not come.
DrainBackoff(e) ==
  LET n == Lesser(attempts[e] + 1, AttemptBound) IN
  /\ Due(e)
  /\ \/ Raises(e, "transient") /\ UNCHANGED <<chain, call>>
     \/ awaiting = e /\ ~reachable /\ Hang
  /\ attempts' = [attempts EXCEPT ![e] = n]
  /\ wait' = [wait EXCEPT ![e] = Delay(n)]
  /\ queue' = IF MaxAttempts > 0 /\ n >= MaxAttempts THEN Popped(e) ELSE queue
  /\ slice' = Tail(slice)
  /\ UNCHANGED <<reachable, draining, fresh>>

DrainEnd ==
  /\ draining /\ slice = <<>> /\ draining' = FALSE
  /\ UNCHANGED <<remote, queue, slice, delays, fresh>>

Loop ==
  \/ Sleep \/ DrainSkip \/ DrainEnd
  \/ \E e \in Entry : DrainSubmit(e) \/ DrainSent(e) \/ DrainPark(e) \/ DrainBackoff(e)

\* The process restarts: the replayed entries carry the attempts and the
\* next_attempt_at they were enqueued with.
Restart ==
  /\ slice' = <<>> /\ draining' = FALSE
  /\ attempts' = [e \in Entry |-> 0] /\ wait' = [e \in Entry |-> 0]
  /\ Hang /\ UNCHANGED <<queue, reachable, fresh>>

World == (Mine \/ ChainChanges) /\ UNCHANGED <<queue, slice, draining, delays, fresh>>

Next == (\E e \in Entry : Enqueue(e)) \/ Loop \/ Restart \/ World

\* The loop never stops (_drain_outbox catches everything), and the chain mines
\* what it has taken.
Spec == Init /\ [][Next]_vars /\ WF_vars(Loop) /\ WF_vars(Mine /\ World)

-----------------------------------------------------------------------------
(* Properties.                                                              *)

Settles(e) == (e \in ToSet(queue)) ~> (e \notin ToSet(queue))

\* outbox.py: "they sit on disk until the chain comes back".  Once the chain
\* stays back and the process stays up, every entry but those the node never has a
\* known answer to is sent or parked, whatever backoff the outage left it in and
\* whatever transactions it left underway.
SentOnceChainIsBack ==
  (<>[]reachable /\ <>[][~Restart]_vars)
    => \A e \in Entry \ Unanswered : Settles(e)
=============================================================================
