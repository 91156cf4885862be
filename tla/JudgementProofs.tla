--------------------------- MODULE JudgementProofs ---------------------------
(***************************************************************************)
(* What classify says is the worst that a trade could have come to, for any  *)
(* bars, prices and spreads; and so is all that the resolver ever writes.    *)
(***************************************************************************)
EXTENDS Measuring, WellFoundedInduction, TLAPS

Sound(bars) ==
  /\ bars \in Seq(Bar)
  /\ \A i \in DOMAIN bars : bars[i].low <= bars[i].high

(***************************************************************************)
(* Of the numbers that have a property, one is the first.                   *)
(***************************************************************************)
LessThan == {ss \in Nat \X Nat : ss[1] < ss[2]}

LEMMA First ==
  ASSUME NEW T \in SUBSET Nat, T # {}
  PROVE  \E i \in T : \A j \in T : i <= j
<1>1. IsWellFoundedOn(LessThan, Nat)
  BY NatLessThanWellFounded DEF OpToRel, LessThan
<1>2. \E i \in T : \A j \in T : ~ (<<j, i>> \in LessThan)
  BY <1>1, WFMin
<1>3. ASSUME NEW i \in T, NEW j \in T, ~ (<<j, i>> \in LessThan)
      PROVE  i <= j
  <2>1. i \in Nat /\ j \in Nat /\ ~ (j < i)
    BY <1>3 DEF LessThan
  <2> QED BY <2>1
<1> QED BY <1>2, <1>3

(***************************************************************************)
(* A bar touches the stop when one of its ends does, seen from the side of  *)
(* the spread that the position is closed on; and so for the target.        *)
(***************************************************************************)
LEMMA Touch ==
  ASSUME NEW bar \in Bar, bar.low <= bar.high, NEW buy \in BOOLEAN,
         NEW ref \in Int, NEW spread \in Int, NEW sl \in Int, NEW tp \in Int
  PROVE  /\ StopAt(bar, buy, ref, spread, sl)
              <=> Gain(buy, ref, spread, IF buy THEN bar.low ELSE bar.high) <= -sl
         /\ TargetAt(bar, buy, ref, spread, tp)
              <=> Gain(buy, ref, spread, IF buy THEN bar.high ELSE bar.low) >= tp
         /\ Gain(buy, ref, spread, IF buy THEN bar.low ELSE bar.high)
              <= Gain(buy, ref, spread, IF buy THEN bar.high ELSE bar.low)
         /\ Gain(buy, ref, spread, bar.low) \in Int
         /\ Gain(buy, ref, spread, bar.high) \in Int
<1>1. bar.low \in Int /\ bar.high \in Int
  BY DEF Bar
<1>2. CASE buy
  BY <1>1, <1>2 DEF StopAt, TargetAt, Gain, Entry
<1>3. CASE ~buy
  BY <1>1, <1>3 DEF StopAt, TargetAt, Gain, Entry
<1> QED BY <1>2, <1>3

\* What IsWorst says, of a stop and a target that are there.
ScansTheWorst(bars, buy, ref, spread, sl, tp) ==
  LET verdict == Scan(bars, buy, ref, spread, sl, tp)
      held == {Held(bars, lowFirst, buy, ref, spread, sl, tp) : lowFirst \in Walks(bars)}
  IN CASE verdict = "sl" -> "sl" \in held
       [] verdict = "tp" -> held = {"tp"}
       [] verdict = "timeout" -> held = {"timeout"}

(***************************************************************************)
(* On every walk, the first bar to touch something decides.                 *)
(***************************************************************************)
LEMMA Worst ==
  ASSUME NEW bars, Sound(bars), NEW buy \in BOOLEAN, NEW ref \in Int, NEW spread \in Int,
         NEW sl \in Int, NEW tp \in Int, sl > 0, tp > 0
  PROVE  ScansTheWorst(bars, buy, ref, spread, sl, tp)
<1> DEFINE S(i) == StopAt(bars[i], buy, ref, spread, sl)
           G(i) == TargetAt(bars[i], buy, ref, spread, tp)
           Q(i) == \A j \in 1..i : ~S(j) /\ ~G(j)
           A(w, t) == Gain(buy, ref, spread, Bid(bars, w, t))
           U(w, t) == \A u \in HalfBars(bars) : Earlier(u, t) => -sl < A(w, u) /\ A(w, u) < tp
           H(w) == Held(bars, w, buy, ref, spread, sl, tp)
           V == Scan(bars, buy, ref, spread, sl, tp)
           Half(i, h) == [bar |-> i, half |-> h]
<1>1. DOMAIN bars \subseteq Nat /\ DOMAIN bars = 1..Len(bars) /\ Len(bars) \in Nat
      /\ \A i \in DOMAIN bars : bars[i] \in Bar /\ bars[i].low <= bars[i].high
  BY DEF Sound
<1>2. ASSUME NEW i \in DOMAIN bars, NEW w \in Walks(bars)
      PROVE  /\ Half(i, 1) \in HalfBars(bars) /\ Half(i, 2) \in HalfBars(bars)
             /\ \A t \in HalfBars(bars) : t.bar = i => A(w, t) \in Int
             /\ S(i) <=> A(w, Half(i, 1)) <= -sl \/ A(w, Half(i, 2)) <= -sl
             /\ G(i) <=> A(w, Half(i, 1)) >= tp \/ A(w, Half(i, 2)) >= tp
             /\ \A t \in HalfBars(bars) : t.bar = i /\ A(w, t) <= -sl => S(i)
             /\ \A t \in HalfBars(bars) : t.bar = i /\ A(w, t) >= tp => G(i)
  <2>1. /\ S(i) <=> Gain(buy, ref, spread, IF buy THEN bars[i].low ELSE bars[i].high) <= -sl
        /\ G(i) <=> Gain(buy, ref, spread, IF buy THEN bars[i].high ELSE bars[i].low) >= tp
        /\ Gain(buy, ref, spread, IF buy THEN bars[i].low ELSE bars[i].high)
             <= Gain(buy, ref, spread, IF buy THEN bars[i].high ELSE bars[i].low)
        /\ Gain(buy, ref, spread, bars[i].low) \in Int
        /\ Gain(buy, ref, spread, bars[i].high) \in Int
    BY <1>1, Touch
  <2>2. Half(i, 1) \in HalfBars(bars) /\ Half(i, 2) \in HalfBars(bars)
    BY DEF HalfBars
  <2>3. \A t \in HalfBars(bars) : t.bar = i => t = Half(i, 1) \/ t = Half(i, 2)
    BY DEF HalfBars
  <2>4. w[i] \in BOOLEAN
    BY DEF Walks
  <2>5. A(w, Half(i, 1)) = Gain(buy, ref, spread, IF w[i] THEN bars[i].low ELSE bars[i].high)
    BY <2>4 DEF Bid
  <2>6. A(w, Half(i, 2)) = Gain(buy, ref, spread, IF w[i] THEN bars[i].high ELSE bars[i].low)
    BY <2>4 DEF Bid
  <2> HIDE DEF S, G, A, Half
  <2> QED BY <2>1, <2>2, <2>3, <2>4, <2>5, <2>6
<1>3. V = IF \E i \in DOMAIN bars : Q(i - 1) /\ S(i) THEN "sl"
          ELSE IF \E i \in DOMAIN bars : Q(i - 1) /\ G(i) THEN "tp" ELSE "timeout"
  BY DEF Scan
<1>4. ASSUME NEW w
      PROVE  H(w) = IF \E t \in HalfBars(bars) : U(w, t) /\ A(w, t) <= -sl THEN "sl"
                    ELSE IF \E t \in HalfBars(bars) : U(w, t) /\ A(w, t) >= tp THEN "tp"
                    ELSE "timeout"
  BY DEF Held
<1>5. \E w : w \in Walks(bars)
  <2>1. [i \in DOMAIN bars |-> buy] \in Walks(bars)
    BY DEF Walks
  <2> QED BY <2>1
\* Nothing that a quiet stretch of bars holds ends the trade.
<1>6. ASSUME NEW i \in DOMAIN bars, Q(i - 1), NEW w \in Walks(bars),
             NEW u \in HalfBars(bars), u.bar < i
      PROVE  -sl < A(w, u) /\ A(w, u) < tp
  <2>1. u.bar \in DOMAIN bars
    BY DEF HalfBars
  <2>2. ~S(u.bar) /\ ~G(u.bar)
    BY <1>1, <1>6, <2>1
  <2>3. A(w, u) \in Int /\ ~(A(w, u) <= -sl) /\ ~(A(w, u) >= tp)
    BY <1>2, <2>1, <2>2
  <2> QED BY <2>3
\* A stop: the adverse end of each bar comes first.
<1>7. CASE \E i \in DOMAIN bars : Q(i - 1) /\ S(i)
  <2>1. PICK i \in DOMAIN bars : Q(i - 1) /\ S(i)
    BY <1>7
  <2> DEFINE w == [j \in DOMAIN bars |-> buy]
  <2>2. w \in Walks(bars)
    BY DEF Walks
  <2>3. A(w, Half(i, 1)) <= -sl
    <3>1. A(w, Half(i, 1)) = Gain(buy, ref, spread, IF buy THEN bars[i].low ELSE bars[i].high)
      BY DEF Bid
    <3> QED BY <1>1, <2>1, <3>1, Touch
  <2>4. U(w, Half(i, 1))
    <3> SUFFICES ASSUME NEW u \in HalfBars(bars), Earlier(u, Half(i, 1))
                 PROVE  -sl < A(w, u) /\ A(w, u) < tp
      OBVIOUS
    <3>1. u.bar < i
      BY <1>1 DEF Earlier, HalfBars
    <3> HIDE DEF A, Q, w
    <3> QED BY <1>6, <2>1, <2>2, <3>1
  <2>5. Half(i, 1) \in HalfBars(bars)
    BY DEF HalfBars
  <2>6. H(w) = "sl"
    <3> HIDE DEF A, U, H, w, Half
    <3> QED BY <1>4, <2>3, <2>4, <2>5
  <2>7. V = "sl"
    BY <1>3, <1>7
  <2> QED BY <2>2, <2>6, <2>7 DEF ScansTheWorst
\* A target: whatever the order, the bar that reaches it touches no stop.
<1>8. CASE ~(\E i \in DOMAIN bars : Q(i - 1) /\ S(i)) /\ \E i \in DOMAIN bars : Q(i - 1) /\ G(i)
  <2>1. PICK i \in DOMAIN bars : Q(i - 1) /\ G(i) /\ ~S(i)
    BY <1>8
  <2>2. ASSUME NEW w \in Walks(bars)
        PROVE  H(w) = "tp"
    <3> DEFINE t1 == Half(i, 1)
               t2 == Half(i, 2)
    <3>1. /\ t1 \in HalfBars(bars) /\ t2 \in HalfBars(bars)
          /\ A(w, t1) \in Int /\ A(w, t2) \in Int
          /\ A(w, t1) > -sl /\ A(w, t2) > -sl /\ (A(w, t1) >= tp \/ A(w, t2) >= tp)
      <4> HIDE DEF A, S, G
      <4> QED BY <1>2, <2>1
    <3>2. \A u \in HalfBars(bars) : Earlier(u, t1) => u.bar < i
      BY <1>1 DEF Earlier, HalfBars
    <3>3. \A u \in HalfBars(bars) : Earlier(u, t2) => u.bar < i \/ u = t1
      BY <1>1 DEF Earlier, HalfBars
    <3>4. \A u \in HalfBars(bars) : u.bar < i => -sl < A(w, u) /\ A(w, u) < tp
      <4> HIDE DEF A, Q
      <4> QED BY <1>6, <2>1
    <3>5. U(w, t1) /\ (A(w, t1) < tp => U(w, t2))
      <4> HIDE DEF A, t1, t2
      <4> QED BY <3>1, <3>2, <3>3, <3>4
    <3>6. \E t \in HalfBars(bars) : U(w, t) /\ A(w, t) >= tp
      <4> HIDE DEF A, U, t1, t2
      <4> QED BY <3>1, <3>5
    <3>7. ASSUME NEW t \in HalfBars(bars), U(w, t), A(w, t) <= -sl
          PROVE  FALSE
      <4>1. t.bar \in DOMAIN bars /\ A(w, t) \in Int /\ ~(-sl < A(w, t))
        <5>1. t.bar \in DOMAIN bars
          BY DEF HalfBars
        <5> HIDE DEF A
        <5>2. A(w, t) \in Int
          BY <1>2, <5>1
        <5> QED BY <3>7, <5>1, <5>2
      <4>2. ~(t.bar < i)
        BY <3>4, <4>1
      <4>3. t # t1 /\ t # t2
        <5> HIDE DEF A, t1, t2
        <5> QED BY <3>1, <4>1
      <4>4. t.bar # i
        BY <4>3 DEF HalfBars
      <4>5. Earlier(t1, t) /\ Earlier(t2, t)
        BY <1>1, <4>1, <4>2, <4>4 DEF Earlier
      <4>6. A(w, t1) < tp /\ A(w, t2) < tp
        <5> HIDE DEF A, t1, t2
        <5> QED BY <3>1, <3>7, <4>5
      <4> HIDE DEF A, t1, t2
      <4> QED BY <3>1, <4>6
    <3>8. ~ \E t \in HalfBars(bars) : U(w, t) /\ A(w, t) <= -sl
      <4> HIDE DEF A, U
      <4> QED BY <3>7
    <3> HIDE DEF A, U, H
    <3> QED BY <1>4, <3>6, <3>8
  <2>3. V = "tp"
    BY <1>3, <1>8
  <2> QED BY <1>5, <2>2, <2>3 DEF ScansTheWorst
\* Neither: there is no first bar that touches something, and so there is none.
<1>9. CASE ~(\E i \in DOMAIN bars : Q(i - 1) /\ (S(i) \/ G(i)))
  <2>1. \A i \in DOMAIN bars : ~S(i) /\ ~G(i)
    <3> DEFINE T == {i \in DOMAIN bars : S(i) \/ G(i)}
    <3> SUFFICES ASSUME T # {} PROVE FALSE
      OBVIOUS
    <3>1. PICK i \in T : \A j \in T : i <= j
      <4> T \in SUBSET Nat
        BY <1>1
      <4> HIDE DEF T
      <4> QED BY First
    <3>2. Q(i - 1)
      <4> SUFFICES ASSUME NEW j \in 1..(i - 1) PROVE ~S(j) /\ ~G(j)
        OBVIOUS
      <4>1. j \in DOMAIN bars /\ ~(i <= j)
        BY <1>1
      <4> HIDE DEF S, G
      <4> QED BY <3>1, <4>1
    <3> QED BY <1>9, <3>2
  <2>2. ASSUME NEW w \in Walks(bars)
        PROVE  H(w) = "timeout"
    <3>1. \A t \in HalfBars(bars) : ~(A(w, t) <= -sl) /\ ~(A(w, t) >= tp)
      <4>1. \A t \in HalfBars(bars) : t.bar \in DOMAIN bars
        BY DEF HalfBars
      <4> HIDE DEF A, S, G
      <4> QED BY <1>2, <2>1, <4>1
    <3> HIDE DEF A, U, H
    <3> QED BY <1>4, <3>1
  <2>3. V = "timeout"
    BY <1>3, <1>9
  <2> QED BY <1>5, <2>2, <2>3 DEF ScansTheWorst
<1> QED BY <1>7, <1>8, <1>9

(***************************************************************************)
(* Every verdict is the worst of what the bars allow.                       *)
(***************************************************************************)
THEOREM WorstOfAll == VerdictIsWorst
<1> SUFFICES ASSUME NEW bars \in Charts, NEW buy \in BOOLEAN, NEW ref \in RefPrices,
                    NEW spread \in Spreads, NEW sl \in Distances, NEW tp \in Distances
             PROVE  IsWorst(bars, buy, ref, spread, sl, tp)
  BY DEF VerdictIsWorst
<1> SUFFICES ASSUME sl > 0, Target(sl, tp) > 0
             PROVE  ScansTheWorst(bars, buy, ref, spread, sl, Target(sl, tp))
  BY DEF IsWorst, OutcomeOf, ScansTheWorst
<1>1. /\ ref \in Int /\ spread \in Int /\ sl \in Int /\ tp \in Int /\ DefaultRR \in Int
      /\ bars \in Seq({b \in Bar : b.low <= b.close /\ b.close <= b.high})
  BY ChartsAssumption
<1>2. Target(sl, tp) \in Int
  BY <1>1 DEF Target
<1>3. Sound(bars)
  <2>1. \A i \in DOMAIN bars :
          bars[i] \in Bar /\ bars[i].low <= bars[i].close /\ bars[i].close <= bars[i].high
    BY <1>1
  <2>2. \A i \in DOMAIN bars : bars[i].low <= bars[i].high
    BY <2>1 DEF Bar
  <2>3. bars \in Seq(Bar)
    BY <1>1, <2>1
  <2> QED BY <2>2, <2>3 DEF Sound
<1> QED BY <1>1, <1>2, <1>3, Worst

(***************************************************************************)
(* And so is every verdict the resolver has written down.                   *)
(***************************************************************************)
THEOREM WritesTheWorst == Spec => []SpokenIsWorst
<1>1. SpokenIsWorst
  BY WorstOfAll DEF SpokenIsWorst
<1> QED BY <1>1, PTL
=============================================================================
