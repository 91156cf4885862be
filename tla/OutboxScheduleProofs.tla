------------------------- MODULE OutboxScheduleProofs -------------------------
(***************************************************************************)
(* Theorems about OutboxSchedule and the account of Nvnm, for any entries,   *)
(* limits, delays and interval.                                              *)
(*                                                                           *)
(* That a retry costs nothing is a matter of both: one nonce, so that one     *)
(* transaction is underway at most (Underway), and one slice of a queue in    *)
(* which no entry stands twice (Queued), so that what was heard to be on the  *)
(* chain is not called for again (Settled).                                   *)
(***************************************************************************)
EXTENDS OutboxSchedule, SequenceTheorems, TLAPS

\* Whose transaction is underway, and what its call knows.
Underway ==
  /\ waiting \in Seq(Entry) /\ Len(waiting) <= 1
  /\ awaiting \in Entry \union {NoEntry} /\ receipt \in {"none", "ok", "revert"}
  /\ awaiting = NoEntry => receipt = "none"
  /\ awaiting # NoEntry => waiting = IF receipt = "none" THEN <<awaiting>> ELSE <<>>

Queued ==
  /\ queue \in Seq(Entry) /\ IsInjective(queue) /\ ToSet(queue) \intersect fresh = {}
  /\ slice \in Seq(Entry) /\ IsInjective(slice) /\ ToSet(slice) \subseteq ToSet(queue)
  /\ fresh \subseteq Entry /\ (slice # <<>> => draining)
  /\ awaiting # NoEntry => slice # <<>> /\ Head(slice) = awaiting

\* Nothing more comes of an entry.
Over(e) == e \notin ToSet(queue) \union fresh \union ToSet(waiting)

\* An entry on the chain of which every mined transaction was heard.
Heard(e) == copies[e] # 0 /\ e \notin unheard

Settled ==
  /\ copies \in [Entry -> 0..2]
  /\ \A e \in Entry : Heard(e) => copies[e] = 1 /\ ((awaiting = e /\ receipt = "ok") \/ Over(e))

Inv == Underway /\ Queued /\ Settled

-----------------------------------------------------------------------------
(* Sequences in which nothing stands twice.                                 *)

LEMMA Appended ==
  ASSUME NEW S, NEW s \in Seq(S), IsInjective(s), NEW e \in S, e \notin ToSet(s)
  PROVE  /\ Append(s, e) \in Seq(S) /\ IsInjective(Append(s, e))
         /\ ToSet(Append(s, e)) = ToSet(s) \union {e}
<1>. DEFINE t == Append(s, e)
<1>1. /\ t \in Seq(S) /\ DOMAIN t = 1..(Len(s) + 1) /\ Len(s) \in Nat /\ DOMAIN s = 1..Len(s)
      /\ \A i \in 1..Len(s) : t[i] = s[i]
      /\ t[Len(s) + 1] = e
  OBVIOUS
<1>. HIDE DEF t
<1>2. \A i \in DOMAIN s : s[i] # e
  BY DEF ToSet
<1>3. IsInjective(t)
  BY <1>1, <1>2 DEF IsInjective
<1>4. ToSet(t) = ToSet(s) \union {e}
  BY <1>1 DEF ToSet
<1>. QED BY <1>1, <1>3, <1>4 DEF t

LEMMA Begun ==
  ASSUME NEW S, NEW s \in Seq(S), IsInjective(s), NEW n \in 0..Len(s)
  PROVE  /\ SubSeq(s, 1, n) \in Seq(S) /\ IsInjective(SubSeq(s, 1, n))
         /\ ToSet(SubSeq(s, 1, n)) \subseteq ToSet(s)
<1>. DEFINE t == SubSeq(s, 1, n)
<1>1. /\ t \in Seq(S) /\ DOMAIN t = 1..n /\ DOMAIN s = 1..Len(s) /\ Len(s) \in Nat
      /\ \A i \in 1..n : t[i] = s[i]
  OBVIOUS
<1>. HIDE DEF t
<1>. QED BY <1>1 DEF IsInjective, ToSet, t

LEMMA Headless ==
  ASSUME NEW S, NEW s \in Seq(S), IsInjective(s), s # <<>>
  PROVE  /\ Tail(s) \in Seq(S) /\ IsInjective(Tail(s)) /\ Head(s) \in ToSet(s)
         /\ ToSet(Tail(s)) = ToSet(s) \ {Head(s)}
<1>. DEFINE t == Tail(s)
<1>1. /\ t \in Seq(S) /\ DOMAIN t = 1..(Len(s) - 1) /\ Len(s) \in Nat \ {0}
      /\ DOMAIN s = 1..Len(s) /\ Head(s) = s[1]
      /\ \A i \in 1..(Len(s) - 1) : t[i] = s[i + 1]
  BY HeadTailProperties, EmptySeq
<1>. HIDE DEF t
<1>2. IsInjective(t)
  <2>1. ASSUME NEW i \in DOMAIN t, NEW j \in DOMAIN t, t[i] = t[j] PROVE i = j
    <3>1. i + 1 \in DOMAIN s /\ j + 1 \in DOMAIN s /\ s[i + 1] = s[j + 1]
      BY <1>1, <2>1
    <3>2. i + 1 = j + 1
      BY <3>1 DEF IsInjective
    <3>. QED BY <1>1, <3>2
  <2>. QED BY <2>1 DEF IsInjective
<1>3. \A i \in DOMAIN s : i = 1 \/ (i - 1 \in DOMAIN t /\ s[i] = t[i - 1])
  BY <1>1
<1>4. \A i \in DOMAIN t : t[i] \in ToSet(s) /\ t[i] # s[1]
  BY <1>1 DEF ToSet, IsInjective
<1>5. ToSet(t) = ToSet(s) \ {s[1]}
  BY <1>3, <1>4 DEF ToSet
<1>6. Head(s) \in ToSet(s)
  <2>1. 1 \in DOMAIN s /\ s[1] = Head(s)
    BY <1>1
  <2>. QED BY <2>1 DEF ToSet
<1>. QED BY <1>1, <1>2, <1>5, <1>6 DEF t

LEMMA Removed ==
  ASSUME NEW S, NEW s \in Seq(S), IsInjective(s), NEW i \in DOMAIN s
  PROVE  /\ RemoveAt(s, i) \in Seq(S) /\ IsInjective(RemoveAt(s, i))
         /\ ToSet(RemoveAt(s, i)) = ToSet(s) \ {s[i]}
<1>. DEFINE a == SubSeq(s, 1, i - 1)
            b == SubSeq(s, i + 1, Len(s))
            t == RemoveAt(s, i)
<1>1. Len(s) \in Nat /\ DOMAIN s = 1..Len(s) /\ i \in 1..Len(s)
  OBVIOUS
<1>2. /\ a \in Seq(S) /\ Len(a) = i - 1 /\ \A j \in 1..(i - 1) : a[j] = s[j]
  BY <1>1
<1>3. /\ b \in Seq(S) /\ Len(b) = Len(s) - i /\ \A j \in 1..(Len(s) - i) : b[j] = s[i + j]
  <2>1. \A j \in (i + 1)..Len(s) : s[j] \in S
    BY <1>1
  <2>. QED BY <1>1, <2>1, SubSeqProperties
<1>4. t = a \o b
  BY DEF RemoveAt
<1>. HIDE DEF a, b, t
<1>5. t \in Seq(S) /\ Len(t) = Len(s) - 1
  <2>1. a \o b \in Seq(S) /\ Len(a \o b) = Len(a) + Len(b)
    BY <1>2, <1>3, ConcatProperties
  <2>. QED BY <1>1, <1>2, <1>3, <1>4, <2>1
<1>6. \A j \in 1..(Len(s) - 1) : t[j] = IF j < i THEN s[j] ELSE s[j + 1]
  <2>. SUFFICES ASSUME NEW j \in 1..(Len(s) - 1) PROVE t[j] = IF j < i THEN s[j] ELSE s[j + 1]
    OBVIOUS
  <2>1. t[j] = IF j <= Len(a) THEN a[j] ELSE b[j - Len(a)]
    BY <1>1, <1>2, <1>3, <1>4, ConcatProperties
  <2>2. CASE j < i
    BY <1>1, <1>2, <2>1, <2>2
  <2>3. CASE j >= i
    <3>1. j - (i - 1) \in 1..(Len(s) - i) /\ i + (j - (i - 1)) = j + 1
      BY <1>1, <2>3
    <3>. QED BY <1>1, <1>2, <1>3, <2>1, <2>3, <3>1
  <2>. QED BY <1>1, <2>2, <2>3
<1>7. DOMAIN t = 1..(Len(s) - 1)
  BY <1>5
<1>8. \A j \in DOMAIN t : \E k \in DOMAIN s : k # i /\ t[j] = s[k] /\ k = IF j < i THEN j ELSE j + 1
  BY <1>1, <1>6, <1>7
<1>9. \A k \in DOMAIN s \ {i} : \E j \in DOMAIN t : t[j] = s[k]
  <2>. SUFFICES ASSUME NEW k \in DOMAIN s \ {i} PROVE \E j \in DOMAIN t : t[j] = s[k]
    OBVIOUS
  <2>1. CASE k < i
    BY <1>1, <1>6, <1>7, <2>1
  <2>2. CASE k > i
    <3>1. k - 1 \in DOMAIN t /\ t[k - 1] = s[k]
      BY <1>1, <1>6, <1>7, <2>2
    <3>. QED BY <3>1
  <2>. QED BY <1>1, <2>1, <2>2
<1>10. IsInjective(t)
  <2>. SUFFICES ASSUME NEW j \in DOMAIN t, NEW m \in DOMAIN t, t[j] = t[m] PROVE j = m
    BY DEF IsInjective
  <2>1. PICK k \in DOMAIN s : t[j] = s[k] /\ k = IF j < i THEN j ELSE j + 1
    BY <1>8
  <2>2. PICK l \in DOMAIN s : t[m] = s[l] /\ l = IF m < i THEN m ELSE m + 1
    BY <1>8
  <2>3. k = l
    BY <2>1, <2>2 DEF IsInjective
  <2>. QED BY <1>1, <1>7, <2>1, <2>2, <2>3
<1>11. ToSet(t) = ToSet(s) \ {s[i]}
  BY <1>8, <1>9 DEF ToSet, IsInjective
<1>. QED BY <1>5, <1>10, <1>11 DEF t

\* An entry leaves the queue.
LEMMA PoppedFrom ==
  ASSUME Queued, NEW e \in ToSet(queue)
  PROVE  /\ Popped(e) \in Seq(Entry) /\ IsInjective(Popped(e))
         /\ ToSet(Popped(e)) = ToSet(queue) \ {e}
<1>. DEFINE i == CHOOSE i \in DOMAIN queue : queue[i] = e
<1>1. i \in DOMAIN queue /\ queue[i] = e
  BY DEF ToSet
<1>. HIDE DEF i
<1>2. Popped(e) = RemoveAt(queue, i)
  BY DEF Popped, i
<1>. QED BY <1>1, <1>2, Removed DEF Queued

-----------------------------------------------------------------------------
(* The account: at most one transaction is underway.                        *)

LEMMA Sent ==
  ASSUME Underway, NEW e \in Entry, Send(e)
  PROVE  /\ Underway' /\ waiting' = <<e>> /\ awaiting' = e /\ receipt' = "none"
         /\ UNCHANGED <<copies, unheard>>
<1>1. waiting' = <<e>>
  <2>1. CASE Len(waiting) = 0
    <3>1. waiting = <<>>
      BY <2>1 DEF Underway
    <3>. QED BY <2>1, <3>1 DEF Send, Nonce
  <2>2. CASE Len(waiting) = 1
    BY <2>2 DEF Send, Nonce, Underway
  <2>3. PICK n \in Nat : n = Len(waiting)
    BY DEF Underway
  <2>4. n <= 1
    BY <2>3 DEF Underway
  <2>5. n = 0 \/ n = 1
    BY <2>4
  <2>. QED BY <2>1, <2>2, <2>3, <2>5
<1>2. awaiting' = e /\ receipt' = "none" /\ UNCHANGED <<copies, unheard>>
  BY DEF Send
<1>. QED BY <1>1, <1>2, NoEntryAssumption DEF Underway

LEMMA Ended ==
  ASSUME Underway, Hang \/ \E status \in {"ok", "revert"} : Read(status)
  PROVE  /\ Underway' /\ UNCHANGED <<waiting, copies>> /\ awaiting' = NoEntry
         /\ unheard' \in {unheard, unheard \union {awaiting}}
BY DEF Hang, Read, Underway, chain

LEMMA Mined ==
  ASSUME Underway, Mine
  PROVE  \E e \in Entry :
           /\ waiting = <<e>> /\ waiting' = <<>> /\ Underway'
           /\ awaiting' = awaiting /\ awaiting \in {e, NoEntry}
           /\ copies' = IF e \notin Refused /\ copies[e] < 2 THEN [copies EXCEPT ![e] = @ + 1]
                        ELSE copies
           /\ receipt' = IF awaiting # e THEN receipt
                         ELSE IF e \notin Refused THEN "ok" ELSE "revert"
           /\ unheard' = IF e \notin Refused /\ awaiting # e THEN unheard \union {e} ELSE unheard
<1>1. waiting # <<>> /\ Len(waiting) = 1
  <2>1. waiting # <<>> /\ waiting \in Seq(Entry) /\ Len(waiting) <= 1
    BY DEF Mine, Underway
  <2>2. PICK n \in Nat : n = Len(waiting)
    BY <2>1
  <2>3. n # 0 /\ n <= 1
    BY <2>1, <2>2, EmptySeq
  <2>4. n = 1
    BY <2>3
  <2>. QED BY <2>1, <2>2, <2>4
<1>2. PICK e \in Entry : waiting = <<e>>
  BY <1>1 DEF Underway
<1>3. Head(waiting) = e /\ Tail(waiting) = <<>>
  BY <1>2
<1>4. awaiting \in {e, NoEntry} /\ (awaiting = e => receipt = "none")
  <2>1. <<e>> # <<>> /\ \A f : <<f>> = <<e>> => f = e
    OBVIOUS
  <2>. QED BY <1>2, <2>1 DEF Underway
<1>5. /\ waiting' = <<>> /\ awaiting' = awaiting
      /\ copies' = IF e \notin Refused /\ copies[e] < 2 THEN [copies EXCEPT ![e] = @ + 1] ELSE copies
      /\ receipt' = IF awaiting # e THEN receipt
                    ELSE IF e \notin Refused THEN "ok" ELSE "revert"
      /\ unheard' = IF e \notin Refused /\ awaiting # e THEN unheard \union {e} ELSE unheard
  BY <1>1, <1>3 DEF Mine
<1>6. Underway'
  BY <1>4, <1>5, NoEntryAssumption DEF Underway
<1>. QED BY <1>2, <1>4, <1>5, <1>6

-----------------------------------------------------------------------------
(* The invariant.                                                           *)

LEMMA InitInv == Init => Inv
<1>. SUFFICES ASSUME Init PROVE Inv
  OBVIOUS
<1>1. Underway
  BY DEF Init, ChainInit, Underway
<1>2. Queued
  BY DEF Init, ChainInit, Queued, ToSet, IsInjective
<1>3. Settled
  BY DEF Init, ChainInit, Settled, Heard
<1>. QED BY <1>1, <1>2, <1>3 DEF Inv

\* The queue when an entry is enqueued.
LEMMA QueuedMore ==
  ASSUME Queued, NEW e \in Entry, Enqueue(e), UNCHANGED awaiting
  PROVE  Queued' /\ ToSet(queue') \union fresh' = ToSet(queue) \union fresh
<1>1. /\ e \in fresh /\ fresh' = fresh \ {e} /\ queue' = Append(queue, e)
      /\ UNCHANGED <<slice, draining>>
  BY DEF Enqueue
<1>2. e \notin ToSet(queue)
  BY <1>1 DEF Queued
<1>3. /\ queue' \in Seq(Entry) /\ IsInjective(queue') /\ ToSet(queue') = ToSet(queue) \union {e}
  BY <1>1, <1>2, Appended DEF Queued
<1>. QED BY <1>1, <1>3 DEF Queued

\* The queue when the entry at the head of the slice has had its turn, whether or
\* not it leaves.
LEMMA QueuedLess ==
  ASSUME Queued, slice # <<>>, slice' = Tail(slice), UNCHANGED <<draining, fresh>>,
         awaiting' = NoEntry, queue' = queue \/ queue' = Popped(Head(slice))
  PROVE  /\ Queued' /\ ToSet(queue') \subseteq ToSet(queue)
         /\ queue' # queue => Head(slice) \notin ToSet(queue')
<1>. DEFINE e == Head(slice)
<1>1. /\ slice' \in Seq(Entry) /\ IsInjective(slice') /\ e \in ToSet(slice)
      /\ ToSet(slice') = ToSet(slice) \ {e}
  BY Headless DEF Queued
<1>2. e \in ToSet(queue)
  BY <1>1 DEF Queued
<1>. HIDE DEF e
<1>3. queue' = Popped(e) => /\ queue' \in Seq(Entry) /\ IsInjective(queue')
                           /\ ToSet(queue') = ToSet(queue) \ {e}
  BY <1>2, PoppedFrom
<1>4. queue' = queue \/ queue' = Popped(e)
  BY DEF e
<1>5. Queued'
  BY <1>1, <1>3, <1>4 DEF Queued
<1>. QED BY <1>3, <1>4, <1>5 DEF e

\* A step that puts nothing on the chain.
LEMMA SettledStill ==
  ASSUME Inv, UNCHANGED copies, unheard \subseteq unheard',
         ToSet(queue') \union fresh' \subseteq ToSet(queue) \union fresh,
         ToSet(waiting') \subseteq ToSet(waiting) \union ToSet(queue),
         \A e \in Entry : awaiting = e /\ receipt = "ok" =>
           (awaiting' = e /\ receipt' = "ok") \/ e \in unheard' \/ Over(e)'
  PROVE  Settled'
<1>. SUFFICES ASSUME NEW e \in Entry, Heard(e)'
              PROVE  copies'[e] = 1 /\ ((awaiting' = e /\ receipt' = "ok") \/ Over(e)')
  BY DEF Inv, Settled
<1>1. copies'[e] = 1 /\ ((awaiting = e /\ receipt = "ok") \/ Over(e))
  BY DEF Inv, Settled, Heard
<1>2. CASE awaiting = e /\ receipt = "ok"
  BY <1>1, <1>2 DEF Heard
<1>3. CASE Over(e)
  BY <1>1, <1>3 DEF Over
<1>. QED BY <1>1, <1>2, <1>3

\* A transaction is mined: the entry's first, or nobody hears of it.
LEMMA SettledMined ==
  ASSUME Inv, Mine, UNCHANGED <<queue, fresh>>
  PROVE  Underway' /\ Settled' /\ UNCHANGED awaiting
<1>1. PICK e \in Entry :
           /\ waiting = <<e>> /\ waiting' = <<>> /\ Underway'
           /\ awaiting' = awaiting /\ awaiting \in {e, NoEntry}
           /\ copies' = IF e \notin Refused /\ copies[e] < 2 THEN [copies EXCEPT ![e] = @ + 1]
                        ELSE copies
           /\ receipt' = IF awaiting # e THEN receipt
                         ELSE IF e \notin Refused THEN "ok" ELSE "revert"
           /\ unheard' = IF e \notin Refused /\ awaiting # e THEN unheard \union {e} ELSE unheard
  BY Mined DEF Inv
<1>2. e \in ToSet(waiting) /\ ToSet(waiting') = {}
  <2>1. 1 \in DOMAIN waiting /\ waiting[1] = e /\ DOMAIN waiting' = {}
    BY <1>1
  <2>. QED BY <2>1 DEF ToSet
<1>3. receipt = "none"
  <2>1. <<e>> # <<>>
    OBVIOUS
  <2>. QED BY <1>1, <2>1 DEF Inv, Underway
<1>4. ~Heard(e)
  BY <1>2, <1>3 DEF Inv, Settled, Over
<1>5. copies \in [Entry -> 0..2] /\ copies' \in [Entry -> 0..2]
  BY <1>1 DEF Inv, Settled
<1>6. ASSUME NEW f \in Entry, Heard(f)'
      PROVE  copies'[f] = 1 /\ ((awaiting' = f /\ receipt' = "ok") \/ Over(f)')
  <2>1. CASE f = e
    <3>1. e \notin unheard' /\ e \notin unheard /\ copies'[e] # 0
      BY <1>1, <1>6, <2>1 DEF Heard
    <3>2. copies[e] = 0
      BY <1>4, <3>1 DEF Heard
    <3>. QED BY <1>1, <1>5, <2>1, <3>1, <3>2
  <2>2. CASE f # e
    <3>1. Heard(f) /\ copies'[f] = copies[f]
      BY <1>1, <1>5, <1>6, <2>2 DEF Heard
    <3>2. copies[f] = 1 /\ Over(f)
      BY <1>3, <3>1 DEF Inv, Settled
    <3>. QED BY <1>2, <3>1, <3>2 DEF Over
  <2>. QED BY <2>1, <2>2
<1>. QED BY <1>1, <1>5, <1>6 DEF Settled

LEMMA DrainInv ==
  ASSUME Inv, NEW e \in Entry,
         DrainSubmit(e) \/ DrainSent(e) \/ DrainPark(e) \/ DrainBackoff(e)
  PROVE  Inv'
<1>. Underway /\ Queued /\ Settled
  BY DEF Inv
<1>1. slice # <<>> /\ e = Head(slice) /\ e \in ToSet(queue)
  <2>1. slice # <<>> /\ e = Head(slice)
    BY DEF DrainSubmit, DrainSent, DrainPark, DrainBackoff, Due
  <2>2. e \in ToSet(slice)
    BY <2>1, Headless DEF Queued
  <2>. QED BY <2>1, <2>2 DEF Queued
<1>2. CASE DrainSubmit(e)
  <2>1. /\ Underway' /\ waiting' = <<e>> /\ awaiting' = e /\ UNCHANGED <<copies, unheard>>
        /\ awaiting = NoEntry /\ UNCHANGED <<queue, slice, draining, fresh>>
    BY <1>2, Sent DEF DrainSubmit
  <2>2. Queued'
    BY <1>1, <2>1 DEF Queued
  <2>3. ToSet(waiting') = {e}
    <3>1. DOMAIN waiting' = {1} /\ waiting'[1] = e
      BY <2>1
    <3>. QED BY <3>1 DEF ToSet
  <2>. QED BY <1>1, <2>1, <2>2, <2>3, SettledStill, NoEntryAssumption DEF Inv
\* The call is over: its receipt was read, or nobody will, or it sent nothing.
<1>3. ASSUME slice' = Tail(slice), UNCHANGED <<draining, fresh>>,
             queue' = queue \/ queue' = Popped(e),
             \/ awaiting = e /\ Hang
             \/ awaiting = e /\ receipt = "ok" /\ Read("ok") /\ queue' = Popped(e)
             \/ Read("revert")
             \/ awaiting = NoEntry /\ UNCHANGED <<chain, call>>
      PROVE  Inv'
  <2>1. /\ Underway' /\ UNCHANGED <<waiting, copies>> /\ awaiting' = NoEntry
        /\ unheard \subseteq unheard'
    <3>1. CASE UNCHANGED <<chain, call>> /\ awaiting = NoEntry
      BY <3>1 DEF chain, call, Underway
    <3>2. CASE Hang \/ Read("ok") \/ Read("revert")
      BY <3>2, Ended
    <3>. QED BY <1>3, <3>1, <3>2
  <2>2. /\ Queued' /\ ToSet(queue') \subseteq ToSet(queue)
        /\ queue' # queue => e \notin ToSet(queue')
    BY <1>1, <1>3, <2>1, QueuedLess
  <2>3. ASSUME NEW f \in Entry, awaiting = f, receipt = "ok" PROVE f \in unheard' \/ Over(f)'
    <3>1. CASE Hang
      BY <2>3, <3>1 DEF Hang
    <3>2. CASE awaiting = e /\ queue' = Popped(e)
      <4>1. ToSet(waiting') = {}
        <5>1. waiting' = <<>>
          BY <2>1, <2>3, NoEntryAssumption DEF Underway
        <5>. QED BY <5>1 DEF ToSet
      <4>2. e \notin ToSet(queue') /\ e \notin fresh'
        BY <1>1, <1>3, <3>2, PoppedFrom DEF Queued
      <4>. QED BY <2>3, <3>2, <4>1, <4>2 DEF Over
    <3>3. ~Read("revert")
      BY <2>3 DEF Read
    <3>. QED BY <1>3, <2>3, <3>1, <3>2, <3>3, NoEntryAssumption
  <2>. QED BY <1>3, <2>1, <2>2, <2>3, SettledStill DEF Inv
<1>4. CASE DrainSent(e)
  <2>1. awaiting = e /\ receipt = "ok"
    BY <1>1, <1>4 DEF DrainSent, Read, Queued
  <2>. QED BY <1>3, <1>4, <2>1 DEF DrainSent, Leaves
<1>5. CASE DrainPark(e)
  BY <1>3, <1>5 DEF DrainPark, Leaves, Raises
<1>6. CASE DrainBackoff(e)
  BY <1>3, <1>6 DEF DrainBackoff, Raises
<1>. QED BY <1>2, <1>4, <1>5, <1>6

LEMMA NextInv == Inv /\ [Next]_vars => Inv'
<1>. SUFFICES ASSUME Inv, [Next]_vars PROVE Inv'
  OBVIOUS
<1>. Underway /\ Queued /\ Settled
  BY DEF Inv
\* Where the account and the entries stay as they are.
<1>1. ASSUME UNCHANGED <<chain, call, queue, fresh>>, Queued' PROVE Inv'
  <2>1. Underway' /\ Settled'
    BY <1>1 DEF chain, call, Underway, Settled, Heard, Over
  <2>. QED BY <1>1, <2>1 DEF Inv
<1>2. ASSUME NEW e \in Entry, Enqueue(e) PROVE Inv'
  <2>1. UNCHANGED <<waiting, copies, unheard, awaiting, receipt>> /\ Underway'
    BY <1>2 DEF Enqueue, remote, chain, call, Underway
  <2>2. Queued' /\ ToSet(queue') \union fresh' = ToSet(queue) \union fresh
    BY <1>2, <2>1, QueuedMore
  <2>. QED BY <2>1, <2>2, SettledStill DEF Inv
<1>3. CASE Sleep
  <2>1. Lesser(Limit, Len(queue)) \in 0..Len(queue)
    <3>1. Limit \in Nat /\ Len(queue) \in Nat
      BY ScheduleAssumption DEF Queued
    <3>. QED BY <3>1 DEF Lesser
  <2>2. /\ UNCHANGED <<chain, call, queue, fresh>> /\ draining' /\ ~draining
        /\ slice' = SubSeq(queue, 1, Lesser(Limit, Len(queue)))
    BY <1>3 DEF Sleep, remote
  <2>3. /\ slice' \in Seq(Entry) /\ IsInjective(slice') /\ ToSet(slice') \subseteq ToSet(queue)
    BY <2>1, <2>2, Begun DEF Queued
  <2>4. Queued'
    BY <2>2, <2>3 DEF Queued, call
  <2>. QED BY <1>1, <2>2, <2>4
<1>4. CASE DrainSkip
  <2>1. /\ slice # <<>> /\ slice' = Tail(slice) /\ UNCHANGED <<draining, fresh, queue>>
        /\ awaiting' = NoEntry /\ UNCHANGED <<chain, call>>
    BY <1>4 DEF DrainSkip, remote, call
  <2>. QED BY <1>1, <2>1, QueuedLess
<1>5. CASE DrainEnd
  <2>1. /\ slice = <<>> /\ UNCHANGED <<chain, call, queue, fresh, slice>>
    BY <1>5 DEF DrainEnd, remote
  <2>2. Queued'
    BY <2>1 DEF Queued, call
  <2>. QED BY <1>1, <2>1, <2>2
<1>6. CASE Restart
  <2>1. /\ slice' = <<>> /\ Hang /\ UNCHANGED <<queue, fresh>>
    BY <1>6 DEF Restart
  <2>2. Underway' /\ UNCHANGED <<waiting, copies>> /\ awaiting' = NoEntry
        /\ unheard \subseteq unheard'
    BY <2>1, Ended
  <2>3. Queued'
    BY <2>1, <2>2 DEF Queued, ToSet, IsInjective
  <2>4. \A e \in Entry : awaiting = e /\ receipt = "ok" => e \in unheard'
    BY <2>1 DEF Hang
  <2>. QED BY <2>1, <2>2, <2>3, <2>4, SettledStill DEF Inv
<1>7. CASE World
  <2>1. UNCHANGED <<queue, slice, draining, fresh>>
    BY <1>7 DEF World
  <2>2. CASE Mine
    <3>1. Underway' /\ Settled' /\ UNCHANGED awaiting
      BY <2>1, <2>2, SettledMined
    <3>2. Queued'
      BY <2>1, <3>1 DEF Queued
    <3>. QED BY <3>1, <3>2 DEF Inv
  <2>3. CASE ChainChanges
    <3>1. UNCHANGED <<chain, call>>
      BY <2>3 DEF ChainChanges
    <3>2. Queued'
      BY <2>1, <3>1 DEF Queued, call
    <3>. QED BY <1>1, <2>1, <3>1, <3>2
  <2>. QED BY <1>7, <2>2, <2>3 DEF World
<1>8. CASE UNCHANGED vars
  <2>1. UNCHANGED <<chain, call, queue, fresh, slice, draining>>
    BY <1>8 DEF vars, remote
  <2>2. Queued'
    BY <2>1 DEF Queued, call
  <2>. QED BY <1>1, <2>1, <2>2
<1>. QED BY <1>2, <1>3, <1>4, <1>5, <1>6, <1>7, <1>8, DrainInv DEF Next, Loop

\* However often a call is retried and whenever the process restarts, no two
\* transactions of a record are underway at once, and a second copy of it is on the
\* chain only if one was mined with nobody to hear of it.
THEOREM NoRetryCosts == Spec => []RetriesCostNothing
<1>1. Inv => RetriesCostNothing
  <2>. SUFFICES ASSUME Inv PROVE RetriesCostNothing
    OBVIOUS
  <2>1. IsInjective(waiting)
    <3>1. DOMAIN waiting = 1..Len(waiting) /\ Len(waiting) \in Nat /\ Len(waiting) <= 1
      BY DEF Inv, Underway
    <3>. QED BY <3>1 DEF IsInjective
  <2>2. \A e \in Entry : copies[e] > 1 => e \in unheard
    BY DEF Inv, Settled, Heard
  <2>. QED BY <2>1, <2>2 DEF RetriesCostNothing
<1>. QED BY <1>1, InitInv, NextInv, PTL DEF Spec
=============================================================================
