---------------------------- MODULE BookingProofs ----------------------------
(***************************************************************************)
(* Theorems about Booking, for any signals, in any directions and            *)
(* timeframes, any limits, and any number of failures and restarts.          *)
(***************************************************************************)
EXTENDS Booking, FiniteSetTheorems, TLAPS

SignalStep == {"new", "stackLook", "stackKeep", "stack", "zone", "spentLook", "spentKeep",
               "spent", "order", "armed", "journal", "remember", "done"}
PollStep == {"idle", "diffLook", "diffKeep", "diff", "book", "edge"}

Types ==
  /\ position \in [Signal -> {"none", "open", "part", "closed"}]
  /\ journal \in [Signal -> {"absent", "open", "closed"}]
  /\ booked \in [Signal -> {"none", "part", "whole"}]
  /\ cache \in {{}} \union {{answer} : answer \in Answer}
  /\ pc \in [Threads -> SignalStep \union PollStep]
  /\ \A s \in Signal : pc[s] \in SignalStep
  /\ pc["poll"] \in PollStep
  /\ got \in [Threads -> Answer]
  /\ verdict \in [Signal -> {"allow", "route", "suppress", "reject"}]
  /\ before \in [Signal -> SUBSET Signal]
  /\ left \subseteq Signal /\ cur \in Signal \union {NoTicket}

-----------------------------------------------------------------------------
(* Types.                                                                   *)

LEMMA Names ==
  /\ "poll" \notin Signal /\ NoTicket \notin Signal
  /\ Threads = Signal \union {"poll"}
  /\ \A s \in Signal : s \in Threads /\ s # "poll"
  /\ NoList \in Answer /\ Alive \subseteq Signal /\ Opened \subseteq Signal
BY BookingAssumption DEF Threads, NoTicket, NoList, Answer, Alive, Opened

\* The step names of get_open_positions.
LEMMA UseNames ==
  ASSUME NEW use \in Uses
  PROVE  \/ use = "stack" /\ Look[use] = "stackLook" /\ Keep[use] = "stackKeep"
         \/ use = "spent" /\ Look[use] = "spentLook" /\ Keep[use] = "spentKeep"
         \/ use = "diff" /\ Look[use] = "diffLook" /\ Keep[use] = "diffKeep"
BY DEF Uses, Look, Keep

\* A thread looks for its own use of the list.
LEMMA PositionsType ==
  ASSUME Types, NEW t \in Threads, Positions(t)
  PROVE  /\ got' \in [Threads -> Answer]
         /\ cache' \in {{}} \union {{answer} : answer \in Answer}
         /\ \E step \in SignalStep \union PollStep : pc' = [pc EXCEPT ![t] = step]
         /\ t \in Signal => pc'[t] \in {"stackKeep", "stack", "spentKeep", "spent"}
         /\ t = "poll" => pc'[t] \in {"diffKeep", "diff"}
         /\ UNCHANGED <<position, journal, booked, ledger, verdict, before, left, cur,
                        misread, lost>>
<1> USE Names DEF broker, books, memory, poller, history
<1>1. PICK use \in Uses : Hit(t, use) \/ Ask(t, use) \/ Store(t, use)
  BY DEF Positions
<1>2. pc[t] \in {Look[use], Keep[use]} /\ pc'[t] \in {Keep[use], use}
      /\ (\E step \in SignalStep \union PollStep : pc' = [pc EXCEPT ![t] = step])
  BY <1>1, UseNames DEF Hit, Ask, Store, At, Types, SignalStep, PollStep
<1>3. /\ t \in Signal => use \in {"stack", "spent"}
      /\ t = "poll" => use = "diff"
  BY <1>2, UseNames DEF Types, SignalStep, PollStep
<1>4. UNCHANGED <<position, journal, booked, ledger, verdict, before, left, cur, misread, lost>>
  BY <1>1 DEF Hit, Ask, Store
<1>5. /\ t \in Signal => pc'[t] \in {"stackKeep", "stack", "spentKeep", "spent"}
      /\ t = "poll" => pc'[t] \in {"diffKeep", "diff"}
  BY <1>2, <1>3, UseNames
<1>6. CASE Hit(t, use)
  <2>1. PICK answer \in Answer : cache = {answer}
    BY <1>6 DEF Hit, Types
  <2>2. (CHOOSE a \in cache : TRUE) = answer
    BY <2>1
  <2>3. got' = [got EXCEPT ![t] = answer] /\ cache' = cache
    BY <1>6, <2>2 DEF Hit
  <2>4. got' \in [Threads -> Answer]
    BY <2>3 DEF Types
  <2> QED BY <1>2, <1>4, <1>5, <2>3, <2>4, Zenon DEF Types
<1>7. CASE Ask(t, use)
  <2>1. PICK answer \in Answer : got' = [got EXCEPT ![t] = answer]
    <3>1. [tickets |-> Alive, blind |-> FALSE] \in Answer /\ [tickets |-> {}, blind |-> TRUE] \in Answer
      BY DEF Answer
    <3> QED BY <1>7, <3>1 DEF Ask
  <2>2. got' \in [Threads -> Answer]
    BY <2>1 DEF Types
  <2>3. cache' = cache
    BY <1>7 DEF Ask
  <2> QED BY <1>2, <1>4, <1>5, <2>2, <2>3, Zenon DEF Types
<1>8. CASE Store(t, use)
  <2>1. cache' = {got[t]} /\ got' = got
    BY <1>8 DEF Store
  <2>2. got[t] \in Answer /\ got' \in [Threads -> Answer]
    BY <2>1 DEF Types
  <2>3. cache' \in {{}} \union {{answer} : answer \in Answer}
    BY <2>1, <2>2
  <2> QED BY <1>2, <1>4, <1>5, <2>2, <2>3, Zenon
<1> QED BY <1>1, <1>6, <1>7, <1>8

\* A step of one thread among its own steps keeps pc's type.
LEMMA StepType ==
  ASSUME Types, NEW t \in Threads, NEW step, pc' = [pc EXCEPT ![t] = step],
         t \in Signal => step \in SignalStep, t = "poll" => step \in PollStep
  PROVE  /\ pc' \in [Threads -> SignalStep \union PollStep]
         /\ \A s \in Signal : pc'[s] \in SignalStep
         /\ pc'["poll"] \in PollStep
         /\ pc'[t] = step /\ \A u \in Threads \ {t} : pc'[u] = pc[u]
BY Names DEF Types

LEMMA ActsType == \A v : Acts(v) \in {"order", "armed", "done"}
BY DEF Acts

LEMMA LocalsType ==
  ASSUME Types, NEW s \in Signal, NEW v \in {"allow", "route", "suppress", "reject"},
         Locals(s, v)
  PROVE  /\ verdict' \in [Signal -> {"allow", "route", "suppress", "reject"}]
         /\ got' \in [Threads -> Answer]
         /\ before' \in [Signal -> SUBSET Signal]
<1> DEFINE over == pc'[s] = "done"
<1>1. verdict' = [verdict EXCEPT ![s] = IF over THEN "allow" ELSE v]
  BY DEF Locals
<1>2. got' = [got EXCEPT ![s] = IF over THEN NoList ELSE @]
  BY DEF Locals
<1>3. before' = [before EXCEPT ![s] = IF over THEN {} ELSE @]
  BY DEF Locals
<1> HIDE DEF over
<1>4. verdict' \in [Signal -> {"allow", "route", "suppress", "reject"}]
  BY <1>1 DEF Types
<1>5. got' \in [Threads -> Answer]
  BY <1>2, Names DEF Types
<1>6. before' \in [Signal -> SUBSET Signal]
  BY <1>3 DEF Types
<1> QED BY <1>4, <1>5, <1>6

LEMMA AgedType ==
  ASSUME Types
  PROVE  /\ Aged \in [Threads -> Answer]
         /\ \A t \in Threads : /\ Aged[t].tickets = got[t].tickets
                               /\ Aged[t].blind = (got[t].blind \/ pc[t] \in {Keep[use] : use \in Uses})
<1>1. \A t \in Threads : got[t] \in [tickets : SUBSET Signal, blind : BOOLEAN]
  BY DEF Types, Answer
<1>2. \A t \in Threads : [got[t] EXCEPT !.blind = TRUE] \in Answer
  BY <1>1 DEF Answer
<1>3. \A t \in Threads : Aged[t] \in Answer
  BY <1>1, <1>2 DEF Aged, Answer
<1>4. \A t \in Threads :
        /\ Aged[t].tickets = got[t].tickets
        /\ Aged[t].blind = (got[t].blind \/ pc[t] \in {Keep[use] : use \in Uses})
  BY <1>1 DEF Aged
<1> QED BY <1>3, <1>4 DEF Aged

LEMMA InitTypes == Init => Types
BY Names DEF Init, Types, SignalStep, PollStep

LEMMA NextTypes == Types /\ [Next]_vars => Types'
<1> SUFFICES ASSUME Types, [Next]_vars PROVE Types'
  OBVIOUS
<1> USE Names DEF broker, books, memory, poller, history, At, Forget
<1>1. ASSUME NEW s \in Signal, Begin(s) PROVE Types'
  <2>1. PICK step \in {"zone", "stackLook"} : pc' = [pc EXCEPT ![s] = step]
    BY <1>1 DEF Begin, Look
  <2>2. got' \in [Threads -> Answer]
    BY <1>1, AgedType DEF Begin
  <2>3. /\ pc' \in [Threads -> SignalStep \union PollStep]
        /\ (\A u \in Signal : pc'[u] \in SignalStep) /\ pc'["poll"] \in PollStep
    BY <2>1, StepType DEF SignalStep
  <2>4. verdict' \in [Signal -> {"allow", "route", "suppress", "reject"}]
    BY <1>1 DEF Begin, Types
  <2>5. before' \in [Signal -> SUBSET Signal]
    BY <1>1 DEF Begin, Types
  <2>6. cache' = {} /\ UNCHANGED <<position, journal, booked, left, cur>>
    BY <1>1 DEF Begin
  <2> QED BY <2>2, <2>3, <2>4, <2>5, <2>6 DEF Types
<1>2. CASE BeginElsewhere
  BY <1>2, AgedType DEF BeginElsewhere, Types
<1>3. ASSUME NEW t \in Threads, Positions(t) PROVE Types'
  <2>1. PICK step \in SignalStep \union PollStep : pc' = [pc EXCEPT ![t] = step]
    BY <1>3, PositionsType
  <2>2. pc'[t] = step
    BY <2>1 DEF Types
  <2>3. (t \in Signal => step \in SignalStep) /\ (t = "poll" => step \in PollStep)
    BY <1>3, <2>2, PositionsType DEF SignalStep, PollStep
  <2> QED BY <1>3, <2>1, <2>3, PositionsType, StepType DEF Types
<1>4. ASSUME NEW s \in Signal, StackAndCooldown(s) PROVE Types'
  BY <1>4, StepType DEF StackAndCooldown, Types, SignalStep
<1>5. ASSUME NEW s \in Signal, ZoneGate(s) PROVE Types'
  <2>1. PICK v \in {"allow", "route", "suppress", "reject"} : Locals(s, v)
    BY <1>5 DEF ZoneGate, Types
  <2>2. PICK step \in SignalStep : pc' = [pc EXCEPT ![s] = step]
    BY <1>5, ActsType DEF ZoneGate, Look, SignalStep
  <2> QED BY <1>5, <2>1, <2>2, StepType, LocalsType DEF ZoneGate, Types
<1>6. ASSUME NEW s \in Signal, NEW t \in Signal, CloseSpent(s, t) PROVE Types'
  <2>1. got' \in [Threads -> Answer]
    <3>1. [got[s] EXCEPT !.tickets = @ \ {t}] \in Answer
      BY DEF Types, Answer
    <3> QED BY <1>6, <3>1 DEF CloseSpent, Types
  <2>2. position' \in [Signal -> {"none", "open", "part", "closed"}]
    BY <1>6 DEF CloseSpent, Types
  <2> QED BY <1>6, <2>1, <2>2 DEF CloseSpent, Types
<1>7. ASSUME NEW s \in Signal, Spent(s) PROVE Types'
  <2>1. pc' = [pc EXCEPT ![s] = Acts(verdict[s])] /\ Acts(verdict[s]) \in SignalStep
    BY <1>7, ActsType DEF Spent, SignalStep
  <2>2. verdict[s] \in {"allow", "route", "suppress", "reject"} /\ Locals(s, verdict[s])
    BY <1>7 DEF Spent, Types
  <2> QED BY <1>7, <2>1, <2>2, StepType, LocalsType DEF Spent, Types
<1>8. ASSUME NEW s \in Signal, Order(s) PROVE Types'
  <2>1. /\ position' = [position EXCEPT ![s] = "open"] /\ before' = [before EXCEPT ![s] = {}]
        /\ got' = [got EXCEPT ![s] = NoList] /\ pc' = [pc EXCEPT ![s] = "journal"]
    BY <1>8 DEF Order
  <2>2. /\ position' \in [Signal -> {"none", "open", "part", "closed"}]
        /\ before' \in [Signal -> SUBSET Signal] /\ got' \in [Threads -> Answer]
    BY <2>1 DEF Types
  <2> QED BY <1>8, <2>1, <2>2, StepType DEF Order, Types, SignalStep
<1>9. ASSUME NEW s \in Signal, NoOrder(s) PROVE Types'
  <2>1. position' \in [Signal -> {"none", "open", "part", "closed"}]
    BY <1>9 DEF NoOrder, Types
  <2>2. pc' = [pc EXCEPT ![s] = "done"] /\ Locals(s, "allow")
    BY <1>9 DEF NoOrder
  <2> QED BY <1>9, <2>1, <2>2, StepType, LocalsType DEF NoOrder, Types, SignalStep
<1>10. ASSUME NEW s \in Signal, OpenTrade(s) PROVE Types'
  <2>1. journal' \in [Signal -> {"absent", "open", "closed"}]
    BY <1>10 DEF OpenTrade, Types
  <2> QED BY <1>10, <2>1, StepType DEF OpenTrade, Types, SignalStep
<1>11. ASSUME NEW s \in Signal, OpenTradeRaises(s) PROVE Types'
  BY <1>11, StepType, LocalsType DEF OpenTradeRaises, Types, SignalStep
<1>12. ASSUME NEW s \in Signal, Remember(s) PROVE Types'
  BY <1>12, StepType, LocalsType DEF Remember, Types, SignalStep
<1>13. CASE PollBegin
  BY <1>13, StepType DEF PollBegin, Types, PollStep, Look
<1>14. CASE Diff
  <2>1. got' \in [Threads -> Answer]
    BY <1>14 DEF Diff, Types
  <2> QED BY <1>14, <2>1, StepType DEF Diff, Types, PollStep
<1>15. CASE PollEnd
  BY <1>15, StepType DEF PollEnd, Types, PollStep
<1>16. ASSUME NEW t \in Signal, NotClosed(t) PROVE Types'
  BY <1>16 DEF NotClosed, Types
<1>17. ASSUME NEW t \in Signal, CloseTrade(t) PROVE Types'
  <2>1. DealOf(t) \in {"part", "whole"}
    BY <1>17 DEF CloseTrade, DealOf, Types
  <2>2. /\ journal' \in [Signal -> {"absent", "open", "closed"}]
        /\ booked' \in [Signal -> {"none", "part", "whole"}]
    BY <1>17, <2>1 DEF CloseTrade, Types
  <2> QED BY <1>17, <2>2, StepType DEF CloseTrade, Types, PollStep
<1>18. CASE CloseTradeRaises
  BY <1>18, StepType DEF CloseTradeRaises, Types, PollStep
<1>19. CASE RecordEdge
  BY <1>19, StepType DEF RecordEdge, Types, PollStep
<1>20. ASSUME NEW t \in Signal, Ends(t) PROVE Types'
  <2>1. position' \in [Signal -> {"none", "open", "part", "closed"}]
    BY <1>20 DEF Ends, Types
  <2> QED BY <1>20, <2>1 DEF Ends, Types
<1>21. CASE Restart
  <2>1. /\ pc' \in [Threads -> SignalStep \union PollStep]
        /\ \A s \in Signal : pc'[s] \in SignalStep
        /\ pc'["poll"] \in PollStep
    BY <1>21 DEF Restart, SignalStep, PollStep
  <2>2. got' \in [Threads -> Answer]
    BY <1>21 DEF Restart
  <2> QED BY <1>21, <2>1, <2>2 DEF Restart, Types
<1>22. CASE UNCHANGED vars
  BY <1>22 DEF vars, Types
<1> QED BY <1>1, <1>2, <1>3, <1>4, <1>5, <1>6, <1>7, <1>8, <1>9, <1>10, <1>11, <1>12, <1>13,
  <1>14, <1>15, <1>16, <1>17, <1>18, <1>19, <1>20, <1>21, <1>22 DEF Next, Process, Decide, Poll

-----------------------------------------------------------------------------
(* The books.                                                               *)

\* The order precedes the position, and the position the journal: a position
\* or a trade is not made twice.  What the poll is about to book was open in
\* the journal, and is closed unless its list was wrong.
Traded == {"remember", "done"}
BookInv ==
  /\ \A t \in Signal : (journal[t] = "closed") <=> (booked[t] # "none")
  /\ left \subseteq Opened
  /\ cur # NoTicket => journal[cur] = "closed"
  /\ pc["poll"] = "edge" <=> cur # NoTicket
  /\ \A t \in Signal : journal[t] # "absent" => pc[t] \in Traded
  /\ \A t \in Signal : position[t] # "none" => pc[t] \in {"journal"} \union Traded
  /\ pc["poll"] \in {"book", "edge"} => left \intersect Alive \subseteq misread
  /\ BookedWhole /\ AccountedFor

LEMMA InitBooks == Init => BookInv
BY Names DEF Init, BookInv, Opened, Alive, BookedWhole, AccountedFor

\* A step that opens no position and writes neither to the books nor about them.
LEMMA QuietBooks ==
  ASSUME Types, BookInv,
         UNCHANGED <<journal, booked, ledger, cur>>,
         misread \subseteq misread', lost \subseteq lost',
         left' \subseteq Opened,
         pc'["poll"] \in {"book", "edge"} => left' \intersect Alive' \subseteq misread',
         pc'["poll"] = "edge" <=> pc["poll"] = "edge",
         \A t \in Signal : position'[t] = "none" <=> position[t] = "none",
         \A s \in Signal :
           \/ pc'[s] = pc[s] \/ pc[s] \notin {"journal"} \union Traded
           \/ pc[s] = "remember" /\ pc'[s] = "done"
           \/ pc[s] = "journal" /\ pc'[s] = "done" /\ s \in lost'
  PROVE  BookInv'
<1>1. Opened' = Opened
  BY DEF Opened
<1>2. \A t \in Signal : /\ journal[t] # "absent" => pc'[t] \in Traded
                        /\ position'[t] # "none" => pc'[t] \in {"journal"} \union Traded
  BY DEF BookInv, Traded
<1>3. BookedWhole'
  BY DEF BookInv, BookedWhole
<1>4. AccountedFor'
  <2> SUFFICES ASSUME NEW t \in Signal
               PROVE  /\ position'[t] # "none" /\ journal[t] = "absent" => t \in lost' \/ pc'[t] = "journal"
                      /\ journal[t] = "closed" /\ t \notin ledger
                           => t \in lost' \/ (cur = t /\ pc'["poll"] = "edge")
    BY DEF AccountedFor
  <2> QED BY DEF BookInv, AccountedFor, Traded
<1> QED BY <1>1, <1>2, <1>3, <1>4 DEF BookInv

\* What a list that is none too many leaves to book.
LEMMA AliveShrinks ==
  ASSUME BookInv, \A t \in Signal : t \in Alive' => t \in Alive
  PROVE  pc["poll"] \in {"book", "edge"} => \A rest \in SUBSET left : rest \intersect Alive' \subseteq misread
BY Names DEF BookInv, Alive

\* A step of a signal that opens nothing, from before its order.
LEMMA SignalBooks ==
  ASSUME Types, BookInv, NEW s \in Signal, NEW step \in SignalStep,
         pc[s] \notin {"journal"} \union Traded, pc' = [pc EXCEPT ![s] = step],
         UNCHANGED <<position, journal, booked, ledger, left, cur, misread, lost>>
  PROVE  BookInv'
<1>1. /\ pc'["poll"] = pc["poll"]
      /\ \A u \in Signal : pc'[u] = pc[u] \/ pc[u] \notin {"journal"} \union Traded
  BY Names DEF Types
<1>2. Alive' = Alive
  BY DEF Alive
<1> QED BY <1>1, <1>2, QuietBooks DEF BookInv

LEMMA NextBooks == Types /\ BookInv /\ [Next]_vars => BookInv'
<1> SUFFICES ASSUME Types, BookInv, [Next]_vars PROVE BookInv'
  OBVIOUS
<1> USE Names DEF broker, books, memory, poller, history, At
<1>0. left \subseteq Opened /\ (pc["poll"] \in {"book", "edge"} => left \intersect Alive \subseteq misread)
  BY DEF BookInv
<1>1. ASSUME NEW s \in Signal, Begin(s) PROVE BookInv'
  <2>1. PICK step \in SignalStep : pc' = [pc EXCEPT ![s] = step]
    BY <1>1 DEF Begin, Look, SignalStep
  <2> QED BY <1>1, <2>1, SignalBooks DEF Begin, Traded
<1>2. CASE BeginElsewhere
  <2>1. Alive' = Alive
    BY <1>2 DEF BeginElsewhere, Alive
  <2> QED BY <1>0, <1>2, <2>1, QuietBooks DEF BeginElsewhere
<1>3. ASSUME NEW t \in Threads, Positions(t) PROVE BookInv'
  <2>1. PICK step \in SignalStep \union PollStep : pc' = [pc EXCEPT ![t] = step]
    BY <1>3, PositionsType
  <2>2. pc'[t] = step /\ \A u \in Threads \ {t} : pc'[u] = pc[u]
    BY <2>1 DEF Types
  <2>3. PICK use \in Uses : pc[t] \in {Look[use], Keep[use]}
    BY <1>3 DEF Positions, Hit, Ask, Store
  <2>4. pc[t] \notin {"journal", "edge", "book"} \union Traded
    BY <2>3, UseNames DEF Traded
  <2>5. CASE t \in Signal
    <3>1. step \in SignalStep
      BY <1>3, <2>2, <2>5, PositionsType DEF SignalStep
    <3> QED BY <1>3, <2>1, <2>4, <2>5, <3>1, PositionsType, SignalBooks
  <2>6. CASE t = "poll"
    <3>1. pc'["poll"] \notin {"book", "edge"}
      BY <1>3, <2>6, PositionsType
    <3> QED BY <1>0, <1>3, <2>2, <2>4, <2>6, <3>1, PositionsType, QuietBooks
  <2> QED BY <1>3, <2>5, <2>6
<1>4. ASSUME NEW s \in Signal, StackAndCooldown(s) PROVE BookInv'
  BY <1>4, SignalBooks DEF StackAndCooldown, Traded, SignalStep
<1>5. ASSUME NEW s \in Signal, ZoneGate(s) PROVE BookInv'
  <2>1. PICK step \in SignalStep : pc' = [pc EXCEPT ![s] = step]
    BY <1>5, ActsType DEF ZoneGate, Look, SignalStep
  <2> QED BY <1>5, <2>1, SignalBooks DEF ZoneGate, Traded
<1>6. ASSUME NEW s \in Signal, NEW t \in Signal, CloseSpent(s, t) PROVE BookInv'
  <2>1. \A u \in Signal : /\ position'[u] = "none" <=> position[u] = "none"
                          /\ u \in Alive' => u \in Alive
    BY <1>6 DEF CloseSpent, Types, Alive
  <2>2. pc["poll"] \in {"book", "edge"} => left \intersect Alive' \subseteq misread
    BY <2>1, AliveShrinks
  <2> QED BY <1>0, <1>6, <2>1, <2>2, QuietBooks DEF CloseSpent
<1>7. ASSUME NEW s \in Signal, Spent(s) PROVE BookInv'
  <2>1. Acts(verdict[s]) \in SignalStep
    BY ActsType DEF SignalStep
  <2> QED BY <1>7, <2>1, SignalBooks DEF Spent, Traded
<1>8. ASSUME NEW s \in Signal, Order(s) PROVE BookInv'
  <2>1. /\ position' = [position EXCEPT ![s] = "open"] /\ pc' = [pc EXCEPT ![s] = "journal"]
        /\ pc[s] \in {"order", "armed"}
        /\ UNCHANGED <<journal, booked, ledger, left, cur, misread, lost>>
    BY <1>8 DEF Order
  <2>2. position[s] = "none" /\ journal[s] = "absent" /\ s \notin left
    BY <2>1 DEF BookInv, Traded, Types, Opened
  <2>3. /\ Alive' = Alive \union {s} /\ Opened' = Opened
        /\ pc'["poll"] = pc["poll"]
        /\ \A t \in Signal : t # s => pc'[t] = pc[t] /\ position'[t] = position[t]
        /\ pc'[s] = "journal"
    BY <2>1 DEF Alive, Opened, Types
  <2>4. AccountedFor'
    BY <2>1, <2>2, <2>3 DEF AccountedFor, BookInv
  <2>5. BookedWhole'
    BY <2>1 DEF BookedWhole, BookInv
  <2> QED BY <2>1, <2>2, <2>3, <2>4, <2>5 DEF BookInv
<1>9. ASSUME NEW s \in Signal, NoOrder(s) PROVE BookInv'
  <2>1. /\ pc' = [pc EXCEPT ![s] = "done"] /\ pc[s] \in {"order", "armed"}
        /\ UNCHANGED <<journal, booked, ledger, left, cur, misread>>
    BY <1>9 DEF NoOrder
  <2>2. CASE UNCHANGED <<position, lost>>
    BY <2>1, <2>2, SignalBooks DEF Traded, SignalStep
  <2>3. CASE position' = [position EXCEPT ![s] = "open"] /\ lost' = lost \union {s}
    <3>1. position[s] = "none" /\ journal[s] = "absent" /\ s \notin left
      BY <2>1 DEF BookInv, Traded, Types, Opened
    <3>2. /\ Alive' = Alive \union {s} /\ Opened' = Opened
          /\ pc'["poll"] = pc["poll"]
          /\ \A t \in Signal : t # s => pc'[t] = pc[t] /\ position'[t] = position[t]
          /\ pc'[s] \in Traded
      BY <2>1, <2>3 DEF Alive, Opened, Types, Traded
    <3>3. AccountedFor'
      BY <2>1, <2>3, <3>1, <3>2 DEF AccountedFor, BookInv
    <3>4. BookedWhole'
      BY <2>1 DEF BookedWhole, BookInv
    <3> QED BY <2>1, <2>3, <3>1, <3>2, <3>3, <3>4 DEF BookInv
  <2> QED BY <1>9, <2>2, <2>3 DEF NoOrder
<1>10. ASSUME NEW s \in Signal, OpenTrade(s) PROVE BookInv'
  <2>1. /\ journal' = [journal EXCEPT ![s] = "open"] /\ pc' = [pc EXCEPT ![s] = "remember"]
        /\ pc[s] = "journal"
        /\ UNCHANGED <<position, booked, ledger, left, cur, misread, lost>>
    BY <1>10 DEF OpenTrade
  <2>2. journal[s] = "absent" /\ booked[s] = "none"
    BY <2>1 DEF BookInv, Traded, Types
  <2>3. /\ Alive' = Alive /\ Opened' = Opened \union {s}
        /\ pc'["poll"] = pc["poll"]
        /\ \A t \in Signal : t # s => pc'[t] = pc[t] /\ journal'[t] = journal[t]
        /\ pc'[s] = "remember" /\ journal'[s] = "open"
    BY <2>1 DEF Alive, Opened, Types
  <2>4. AccountedFor'
    BY <2>1, <2>2, <2>3 DEF AccountedFor, BookInv
  <2>5. BookedWhole'
    BY <2>1 DEF BookedWhole, BookInv
  <2>6. /\ cur # NoTicket => journal'[cur] = "closed"
        /\ \A t \in Signal : (journal'[t] = "closed") <=> (booked[t] # "none")
    BY <2>2, <2>3 DEF BookInv, Types
  <2>7. \A t \in Signal : /\ journal'[t] # "absent" => pc'[t] \in Traded
                          /\ position[t] # "none" => pc'[t] \in {"journal"} \union Traded
    BY <2>3 DEF BookInv, Traded
  <2> QED BY <2>1, <2>3, <2>4, <2>5, <2>6, <2>7 DEF BookInv
<1>11. ASSUME NEW s \in Signal, OpenTradeRaises(s) PROVE BookInv'
  <2>1. /\ pc' = [pc EXCEPT ![s] = "done"] /\ pc[s] = "journal"
        /\ s \in lost' /\ lost \subseteq lost'
        /\ UNCHANGED <<position, journal, booked, ledger, left, cur, misread>>
    BY <1>11 DEF OpenTradeRaises
  <2>2. Alive' = Alive /\ pc'["poll"] = pc["poll"] /\ pc'[s] = "done"
        /\ \A u \in Signal : u # s => pc'[u] = pc[u]
    BY <2>1 DEF Alive, Types
  <2> QED BY <1>0, <2>1, <2>2, QuietBooks
<1>12. ASSUME NEW s \in Signal, Remember(s) PROVE BookInv'
  <2>1. /\ pc' = [pc EXCEPT ![s] = "done"] /\ pc[s] = "remember"
        /\ UNCHANGED <<position, journal, booked, ledger, left, cur, misread, lost>>
    BY <1>12 DEF Remember
  <2>2. Alive' = Alive /\ pc'["poll"] = pc["poll"] /\ pc'[s] = "done"
        /\ \A u \in Signal : u # s => pc'[u] = pc[u]
    BY <2>1 DEF Alive, Types
  <2> QED BY <1>0, <2>1, <2>2, QuietBooks
<1>13. CASE PollBegin
  <2>1. /\ pc' = [pc EXCEPT !["poll"] = "diffLook"] /\ pc["poll"] = "idle" /\ left' = Opened
        /\ UNCHANGED <<position, journal, booked, ledger, cur, misread, lost>>
    BY <1>13 DEF PollBegin, Look
  <2>2. pc'["poll"] = "diffLook" /\ \A u \in Signal : pc'[u] = pc[u]
    BY <2>1 DEF Types
  <2> QED BY <2>1, <2>2, QuietBooks
<1>14. CASE Diff
  <2>1. /\ pc' = [pc EXCEPT !["poll"] = "book"] /\ pc["poll"] = "diff" /\ left' \subseteq left
        /\ misread' = misread \union (left' \intersect Alive)
        /\ UNCHANGED <<position, journal, booked, ledger, cur, lost>>
    BY <1>14 DEF Diff
  <2>2. pc'["poll"] = "book" /\ (\A u \in Signal : pc'[u] = pc[u]) /\ Alive' = Alive
    BY <2>1 DEF Types, Alive
  <2> QED BY <1>0, <2>1, <2>2, QuietBooks
<1>15. CASE PollEnd
  <2>1. /\ pc' = [pc EXCEPT !["poll"] = "idle"] /\ pc["poll"] = "book"
        /\ UNCHANGED <<position, journal, booked, ledger, left, cur, misread, lost>>
    BY <1>15 DEF PollEnd
  <2>2. pc'["poll"] = "idle" /\ \A u \in Signal : pc'[u] = pc[u]
    BY <2>1 DEF Types
  <2> QED BY <1>0, <2>1, <2>2, QuietBooks
<1>16. ASSUME NEW t \in Signal, NotClosed(t) PROVE BookInv'
  <2>1. /\ left' \subseteq left
        /\ UNCHANGED <<pc, position, journal, booked, ledger, cur, misread, lost>>
    BY <1>16 DEF NotClosed
  <2>2. Alive' = Alive
    BY <2>1 DEF Alive
  <2> QED BY <1>0, <2>1, <2>2, QuietBooks
<1>17. ASSUME NEW t \in Signal, CloseTrade(t) PROVE BookInv'
  <2>1. /\ journal' = [journal EXCEPT ![t] = "closed"]
        /\ booked' = [booked EXCEPT ![t] = DealOf(t)]
        /\ cur' = t /\ left' = left \ {t} /\ t \in left
        /\ pc["poll"] = "book" /\ pc' = [pc EXCEPT !["poll"] = "edge"]
        /\ DealOf(t) # "none"
        /\ UNCHANGED <<position, ledger, misread, lost>>
    BY <1>17 DEF CloseTrade
  <2>2. /\ journal[t] = "open" /\ cur = NoTicket /\ t # NoTicket
        /\ \A u \in Signal : journal[u] = "closed" /\ u \notin ledger => u \in lost
    BY <2>1 DEF BookInv, Opened, AccountedFor
  <2>3. /\ Alive' = Alive /\ Opened' = Opened \ {t}
        /\ pc'["poll"] = "edge" /\ (\A u \in Signal : pc'[u] = pc[u])
        /\ \A u \in Signal : u # t => journal'[u] = journal[u] /\ booked'[u] = booked[u]
        /\ journal'[t] = "closed" /\ booked'[t] = DealOf(t)
    BY <2>1 DEF Alive, Opened, Types
  <2>4. AccountedFor'
    BY <2>1, <2>2, <2>3 DEF AccountedFor, BookInv
  <2>5. BookedWhole'
    <3>1. DealOf(t) = "part" => t \in Alive
      BY DEF DealOf, Alive, Types
    <3> QED BY <1>0, <2>1, <2>3, <3>1 DEF BookedWhole, BookInv
  <2>6. \A u \in Signal : /\ journal'[u] = "closed" <=> booked'[u] # "none"
                          /\ journal'[u] # "absent" => pc'[u] \in Traded
                          /\ position'[u] # "none" => pc'[u] \in {"journal"} \union Traded
    BY <2>1, <2>2, <2>3 DEF BookInv
  <2>7. left' \subseteq Opened' /\ left' \intersect Alive' \subseteq misread'
    BY <1>0, <2>1, <2>3
  <2> QED BY <2>1, <2>2, <2>3, <2>4, <2>5, <2>6, <2>7 DEF BookInv
<1>18. CASE CloseTradeRaises
  <2>1. /\ pc' = [pc EXCEPT !["poll"] = "idle"] /\ pc["poll"] = "book" /\ left' = {}
        /\ UNCHANGED <<position, journal, booked, ledger, cur, misread, lost>>
    BY <1>18 DEF CloseTradeRaises
  <2>2. pc'["poll"] = "idle" /\ \A u \in Signal : pc'[u] = pc[u]
    BY <2>1 DEF Types
  <2> QED BY <2>1, <2>2, QuietBooks
<1>19. CASE RecordEdge
  <2>1. /\ pc["poll"] = "edge" /\ pc' = [pc EXCEPT !["poll"] = "book"] /\ cur' = NoTicket
        /\ \/ ledger' = ledger \union {cur} /\ lost' = lost
           \/ ledger' = ledger /\ lost' = lost \union {cur}
        /\ UNCHANGED <<position, journal, booked, left, misread>>
    BY <1>19 DEF RecordEdge
  <2>2. pc'["poll"] = "book" /\ (\A u \in Signal : pc'[u] = pc[u])
        /\ Alive' = Alive /\ Opened' = Opened
    BY <2>1 DEF Types, Alive, Opened
  <2>3. AccountedFor' /\ BookedWhole'
    BY <2>1, <2>2 DEF AccountedFor, BookedWhole, BookInv
  <2> QED BY <1>0, <2>1, <2>2, <2>3 DEF BookInv
<1>20. ASSUME NEW t \in Signal, Ends(t) PROVE BookInv'
  <2>1. UNCHANGED <<pc, journal, booked, ledger, left, cur, misread, lost>>
    BY <1>20 DEF Ends
  <2>2. \A u \in Signal : /\ position'[u] = "none" <=> position[u] = "none"
                          /\ u \in Alive' => u \in Alive
    BY <1>20 DEF Ends, Types, Alive
  <2>3. pc["poll"] \in {"book", "edge"} => left \intersect Alive' \subseteq misread
    BY <2>2, AliveShrinks
  <2> QED BY <1>0, <2>1, <2>2, <2>3, QuietBooks
<1>21. CASE Restart
  <2>1. /\ pc'["poll"] = "idle" /\ left' = {} /\ cur' = NoTicket
        /\ \A s \in Signal : pc'[s] = IF pc[s] = "new" THEN "new" ELSE "done"
        /\ lost' = lost \union {s \in Signal : pc[s] = "journal"}
                       \union (IF pc["poll"] = "edge" THEN {cur} ELSE {})
        /\ UNCHANGED <<position, journal, booked, ledger, misread>>
    BY <1>21 DEF Restart
  <2>2. AccountedFor'
    BY <2>1 DEF AccountedFor, BookInv
  <2>3. BookedWhole'
    BY <2>1 DEF BookedWhole, BookInv
  <2>4. \A t \in Signal : /\ journal[t] # "absent" => pc'[t] \in Traded
                          /\ position[t] # "none" => pc'[t] \in {"journal"} \union Traded
    BY <2>1 DEF BookInv, Traded
  <2> QED BY <2>1, <2>2, <2>3, <2>4 DEF BookInv
<1>22. CASE UNCHANGED vars
  <2>1. UNCHANGED <<pc, position, journal, booked, ledger, left, cur, misread, lost>>
    BY <1>22 DEF vars
  <2>2. Alive' = Alive
    BY <2>1 DEF Alive
  <2> QED BY <1>0, <2>1, <2>2, QuietBooks
<1> QED BY <1>1, <1>2, <1>3, <1>4, <1>5, <1>6, <1>7, <1>8, <1>9, <1>10, <1>11, <1>12, <1>13,
  <1>14, <1>15, <1>16, <1>17, <1>18, <1>19, <1>20, <1>21, <1>22 DEF Next, Process, Decide, Poll

-----------------------------------------------------------------------------
(* The stack.                                                               *)

\* A list covers what was open when a signal began, and still is.
Covers(answer, s) == answer.blind \/ before[s] \intersect Alive \subseteq answer.tickets
Keeping == {Keep[use] : use \in Uses}
Judged(s) ==
  /\ before[s] \subseteq {t \in Signal : position[t] # "none"}
  /\ pc[s] \in {"stackLook", "stackKeep", "stack", "zone"} => verdict[s] \in {"allow", "suppress"}
  /\ pc[s] \in {"spentLook", "spentKeep", "spent"} => verdict[s] # "allow"
  /\ pc[s] = "stackLook" =>
       /\ \A answer \in cache : Covers(answer, s)
       /\ \A t \in Threads : pc[t] \in Keeping => Covers(got[t], s)
  /\ pc[s] \in {"stackKeep", "stack"} => Covers(got[s], s)
Fits(s) ==
  pc[s] \in {"zone", "order"} /\ verdict[s] = "allow" =>
    got[s].blind \/ Cardinality(before[s] \intersect Alive) < Limit
StackInv == \A s \in Signal : Judged(s) /\ Fits(s)

LEMMA InitStack == Init => StackInv
BY Names DEF Init, StackInv, Judged, Fits

LEMMA KeepNames == Keeping = {"stackKeep", "spentKeep", "diffKeep"}
<1>1. Uses = {"stack", "spent", "diff"} /\ Keep["stack"] = "stackKeep"
      /\ Keep["spent"] = "spentKeep" /\ Keep["diff"] = "diffKeep"
  BY DEF Uses, Keep
<1> QED BY <1>1 DEF Keeping

\* No step opens a position that was open before: an order is for a new one.
LEMMA NoReopening ==
  ASSUME Types, BookInv, [Next]_vars
  PROVE  \A t \in Signal : position[t] # "none" =>
           /\ position'[t] # "none"
           /\ t \in Alive' => t \in Alive
<1> USE Names DEF broker, books, memory, poller, history, Alive
<1>1. CASE UNCHANGED position
  BY <1>1
<1>2. ASSUME NEW s \in Signal, Order(s) \/ NoOrder(s), position' = [position EXCEPT ![s] = "open"]
      PROVE  \A t \in Signal : position[t] # "none" => position'[t] = position[t]
  <2>1. position[s] = "none"
    BY <1>2 DEF Order, NoOrder, BookInv, Traded
  <2> QED BY <1>2, <2>1 DEF Types
<1>3. ASSUME NEW s \in Signal, NEW t \in Signal, CloseSpent(s, t), position' # position
      PROVE  position' = [position EXCEPT ![t] = "closed"] /\ position[t] # "none"
  BY <1>3 DEF CloseSpent, Types
<1>4. ASSUME NEW t \in Signal, Ends(t)
      PROVE  /\ position[t] # "none" /\ t \in Alive
             /\ \E end \in {"part", "closed"} : position' = [position EXCEPT ![t] = end]
  BY <1>4 DEF Ends
<1>5. \/ UNCHANGED position
      \/ \E s \in Signal : (Order(s) \/ NoOrder(s)) /\ position' = [position EXCEPT ![s] = "open"]
      \/ \E s, t \in Signal : CloseSpent(s, t) /\ position' # position
      \/ \E t \in Signal : Ends(t)
  BY DEF Next, Process, Decide, Poll, Positions, Hit, Ask, Store, Begin, BeginElsewhere,
    StackAndCooldown, ZoneGate, Spent, Order, NoOrder, OpenTrade, OpenTradeRaises, Remember,
    PollBegin, Diff, PollEnd, NotClosed, CloseTrade, CloseTradeRaises, RecordEdge, Restart, vars
<1> QED BY <1>1, <1>2, <1>3, <1>4, <1>5 DEF Types

\* What a step leaves of the positions that were open when a signal began.
LEMMA CoversKept ==
  ASSUME Types, BookInv, [Next]_vars, NEW s \in Signal, Judged(s), before'[s] = before[s]
  PROVE  /\ before'[s] \subseteq {t \in Signal : position'[t] # "none"}
         /\ before'[s] \intersect Alive' \subseteq before[s] \intersect Alive
         /\ \A a : Covers(a, s) => a.blind \/ before'[s] \intersect Alive' \subseteq a.tickets
         /\ Cardinality(before[s] \intersect Alive) < Limit
              => Cardinality(before'[s] \intersect Alive') < Limit
<1>1. before'[s] \subseteq {t \in Signal : position'[t] # "none"}
  BY NoReopening DEF Judged
<1>2. before'[s] \intersect Alive' \subseteq before[s] \intersect Alive
  BY NoReopening, <1>1 DEF Judged, Types
<1>3. /\ Cardinality(before'[s] \intersect Alive') \in Int
      /\ Cardinality(before[s] \intersect Alive) \in Int
      /\ Cardinality(before'[s] \intersect Alive') <= Cardinality(before[s] \intersect Alive)
  <2>1. IsFiniteSet(before[s] \intersect Alive)
    BY Names, BookingAssumption, FS_Subset
  <2>2. IsFiniteSet(before'[s] \intersect Alive')
    BY <1>2, <2>1, FS_Subset
  <2> QED BY <1>2, <2>1, <2>2, FS_Subset, FS_CardinalityType
<1>4. Limit \in Int
  BY BookingAssumption
<1> QED BY <1>1, <1>2, <1>3, <1>4 DEF Covers

\* A signal that does not move, while answers old or new cover it still.
LEMMA Unmoved ==
  ASSUME Types, BookInv, [Next]_vars, NEW s \in Signal, Judged(s), Fits(s),
         pc'[s] = pc[s], verdict'[s] = verdict[s], before'[s] = before[s],
         pc[s] \in {"stackKeep", "stack", "zone", "order"} => got'[s] = got[s] \/ got'[s].blind,
         pc[s] = "stackLook" =>
           /\ \A answer \in cache' : Covers(answer, s)
           /\ \A t \in Threads : pc'[t] \in Keeping => Covers(got'[t], s)
  PROVE  Judged(s)' /\ Fits(s)'
<1>1. Judged(s)'
  BY CoversKept DEF Judged, Covers, Keeping
<1>2. Fits(s)'
  BY CoversKept DEF Fits
<1> QED BY <1>1, <1>2

\* What a step of one thread leaves the others.
LEMMA Others ==
  ASSUME Types, BookInv, StackInv, [Next]_vars, NEW m \in Threads,
         \A t \in Threads \ {m} : pc'[t] = pc[t] /\ got'[t] = got[t],
         \A s \in Signal \ {m} : verdict'[s] = verdict[s] /\ before'[s] = before[s],
         cache' \subseteq cache \/ (cache' = {got[m]} /\ pc[m] \in Keeping),
         pc'[m] \in Keeping => got'[m].blind \/ got'[m].tickets = Alive
  PROVE  \A s \in Signal \ {m} : Judged(s)' /\ Fits(s)'
<1> SUFFICES ASSUME NEW s \in Signal \ {m} PROVE Judged(s)' /\ Fits(s)'
  OBVIOUS
<1>1. s \in Threads \ {m} /\ Judged(s) /\ Fits(s)
  BY Names DEF StackInv
<1>2. pc[s] = "stackLook" => \A answer \in cache' : Covers(answer, s)
  BY <1>1 DEF Judged
<1>3. pc[s] = "stackLook" => \A t \in Threads : pc'[t] \in Keeping => Covers(got'[t], s)
  BY <1>1 DEF Judged, Covers
<1> QED BY <1>1, <1>2, <1>3, Unmoved

\* A signal past the gates, or before them, is judged no more.
LEMMA Over ==
  ASSUME Types, BookInv, [Next]_vars, NEW s \in Signal, Judged(s),
         before'[s] \in {{}, before[s]}, pc'[s] \in {"armed", "journal", "remember", "done"}
  PROVE  Judged(s)' /\ Fits(s)'
<1>1. before'[s] \subseteq {t \in Signal : position'[t] # "none"}
  BY CoversKept
<1> QED BY <1>1 DEF Judged, Fits

\* A call's locals are of its signal alone.
LEMMA LocalsFrame ==
  ASSUME Types, NEW s \in Signal, NEW v, Locals(s, v)
  PROVE  /\ \A t \in Threads \ {s} : got'[t] = got[t]
         /\ \A u \in Signal \ {s} : verdict'[u] = verdict[u] /\ before'[u] = before[u]
         /\ before'[s] \in {{}, before[s]}
         /\ pc'[s] # "done" => verdict'[s] = v /\ got'[s] = got[s] /\ before'[s] = before[s]
BY Names DEF Locals, Types

\* The list a signal looks for, asks for and keeps.
LEMMA PositionsStack ==
  ASSUME Types, BookInv, StackInv, [Next]_vars, NEW t \in Threads, Positions(t)
  PROVE  StackInv'
<1> USE Names DEF broker, books, memory, poller, history, At
<1>1. PICK use \in Uses : Hit(t, use) \/ Ask(t, use) \/ Store(t, use)
  BY DEF Positions
<1>2. /\ \A u \in Threads \ {t} : pc'[u] = pc[u] /\ got'[u] = got[u]
      /\ UNCHANGED <<verdict, before>>
  BY <1>1 DEF Hit, Ask, Store, Types
<1>3. CASE Hit(t, use)
  <2>1. PICK answer \in Answer : cache = {answer}
    BY <1>3 DEF Hit, Types
  <2>2. (CHOOSE a \in cache : TRUE) = answer
    BY <2>1
  <2>3. /\ got'[t] = answer /\ cache' = cache
        /\ pc[t] = Look[use] /\ pc'[t] = use
    BY <1>3, <2>2 DEF Hit, Types
  <2>4. pc'[t] \notin Keeping
    BY <2>3, KeepNames, UseNames
  <2>5. \A s \in Signal \ {t} : Judged(s)' /\ Fits(s)'
    BY <1>2, <2>3, <2>4, Others
  <2>6. ASSUME t \in Signal PROVE Judged(t)' /\ Fits(t)'
    <3>1. Judged(t) /\ before'[t] = before[t] /\ verdict'[t] = verdict[t]
      BY <1>2, <2>6 DEF StackInv
    <3>2. pc[t] = "stackLook" => Covers(answer, t)
      BY <2>1, <3>1 DEF Judged
    <3>3. /\ before'[t] \subseteq {u \in Signal : position'[u] # "none"}
          /\ pc[t] = "stackLook" => got'[t].blind \/ before'[t] \intersect Alive' \subseteq got'[t].tickets
      BY <2>3, <2>6, <3>1, <3>2, CoversKept
    <3>4. \/ pc[t] = "stackLook" /\ pc'[t] = "stack"
          \/ pc[t] = "spentLook" /\ pc'[t] = "spent"
          \/ pc'[t] = "diff"
      BY <2>3, UseNames
    <3> QED BY <3>1, <3>3, <3>4 DEF Judged, Fits, Covers
  <2> QED BY <2>5, <2>6 DEF StackInv
<1>4. CASE Ask(t, use)
  <2>1. /\ got'[t] \in {[tickets |-> Alive, blind |-> FALSE], [tickets |-> {}, blind |-> TRUE]}
        /\ cache' = cache /\ Alive' = Alive
        /\ pc[t] = Look[use] /\ pc'[t] = Keep[use]
    BY <1>4 DEF Ask, Types, Alive
  <2>2. got'[t].blind \/ got'[t].tickets = Alive
    BY <2>1
  <2>3. \A s \in Signal \ {t} : Judged(s)' /\ Fits(s)'
    BY <1>2, <2>1, <2>2, Others
  <2>4. ASSUME t \in Signal PROVE Judged(t)' /\ Fits(t)'
    <3>1. Judged(t) /\ before'[t] = before[t] /\ verdict'[t] = verdict[t]
      BY <1>2, <2>4 DEF StackInv
    <3>2. before'[t] \subseteq {u \in Signal : position'[u] # "none"}
      BY <2>4, <3>1, CoversKept
    <3>3. \/ pc[t] = "stackLook" /\ pc'[t] = "stackKeep"
          \/ pc[t] = "spentLook" /\ pc'[t] = "spentKeep"
          \/ pc'[t] = "diffKeep"
      BY <2>1, UseNames
    <3> QED BY <2>1, <2>2, <3>1, <3>2, <3>3 DEF Judged, Fits, Covers
  <2> QED BY <2>3, <2>4 DEF StackInv
<1>5. CASE Store(t, use)
  <2>1. cache' = {got[t]} /\ got' = got /\ pc[t] = Keep[use] /\ pc'[t] = use
    BY <1>5 DEF Store, Types
  <2>2. pc'[t] \notin Keeping /\ pc[t] \in Keeping
    BY <2>1, KeepNames, UseNames
  <2>3. \A s \in Signal \ {t} : Judged(s)' /\ Fits(s)'
    BY <1>2, <2>1, <2>2, Others
  <2>4. ASSUME t \in Signal PROVE Judged(t)' /\ Fits(t)'
    <3>1. Judged(t) /\ before'[t] = before[t] /\ verdict'[t] = verdict[t]
      BY <1>2, <2>4 DEF StackInv
    <3>2. pc[t] = "stackKeep" => Covers(got[t], t)
      BY <3>1 DEF Judged
    <3>3. /\ before'[t] \subseteq {u \in Signal : position'[u] # "none"}
          /\ pc[t] = "stackKeep" => got'[t].blind \/ before'[t] \intersect Alive' \subseteq got'[t].tickets
      BY <2>1, <2>4, <3>1, <3>2, CoversKept
    <3>4. \/ pc[t] = "stackKeep" /\ pc'[t] = "stack"
          \/ pc[t] = "spentKeep" /\ pc'[t] = "spent"
          \/ pc'[t] = "diff"
      BY <2>1, UseNames
    <3> QED BY <3>1, <3>3, <3>4 DEF Judged, Fits, Covers
  <2> QED BY <2>3, <2>4 DEF StackInv
<1> QED BY <1>1, <1>3, <1>4, <1>5

\* A decision begins, and no list is fresh any more.
LEMMA BeginStack ==
  ASSUME Types, BookInv, StackInv, [Next]_vars, cache' = {}, got' = Aged,
         \A t \in Threads : pc'[t] \in Keeping => pc[t] \in Keeping
  PROVE  /\ \A t \in Threads : pc'[t] \in Keeping => got'[t].blind
         /\ \A s \in Signal : pc'[s] = pc[s] /\ verdict'[s] = verdict[s] /\ before'[s] = before[s]
              => Judged(s)' /\ Fits(s)'
<1>1. \A t \in Threads : pc[t] \in Keeping => got'[t].blind
  BY AgedType DEF Keeping
<1>2. \A t \in Threads : pc[t] \notin Keeping => got'[t] = got[t]
  BY DEF Aged, Keeping
<1>3. ASSUME NEW s \in Signal, pc'[s] = pc[s], verdict'[s] = verdict[s], before'[s] = before[s]
      PROVE  Judged(s)' /\ Fits(s)'
  <2>1. s \in Threads /\ Judged(s) /\ Fits(s)
    BY Names DEF StackInv
  <2>2. got'[s] = got[s] \/ got'[s].blind
    BY <1>1, <1>2, <2>1
  <2>3. /\ \A answer \in cache' : Covers(answer, s)
        /\ \A t \in Threads : pc'[t] \in Keeping => Covers(got'[t], s)
    BY <1>1 DEF Covers
  <2> QED BY <1>3, <2>1, <2>2, <2>3, Unmoved
<1> QED BY <1>1, <1>3

LEMMA NextStack == Types /\ BookInv /\ StackInv /\ [Next]_vars => StackInv'
<1> SUFFICES ASSUME Types, BookInv, StackInv, [Next]_vars PROVE StackInv'
  OBVIOUS
<1> USE Names DEF broker, books, memory, poller, history, At, Forget
\* A step of the poll after its list, or of the world.
<1>0. ASSUME \A s \in Signal : pc'[s] = pc[s] /\ got'[s] = got[s],
             pc'["poll"] \notin Keeping \/ (pc'["poll"] = pc["poll"] /\ got'["poll"] = got["poll"]),
             UNCHANGED <<verdict, before, cache>>
      PROVE  StackInv'
  <2> SUFFICES ASSUME NEW s \in Signal PROVE Judged(s)' /\ Fits(s)'
    BY DEF StackInv
  <2>1. Judged(s) /\ Fits(s)
    BY DEF StackInv
  <2>2. pc[s] = "stackLook" =>
          /\ \A answer \in cache' : Covers(answer, s)
          /\ \A t \in Threads : pc'[t] \in Keeping => Covers(got'[t], s)
    BY <1>0, <2>1 DEF Judged
  <2> QED BY <1>0, <2>1, <2>2, Unmoved
\* A step of a signal that leaves the cache and does not keep a list.
<1>00. ASSUME NEW s \in Signal, cache' = cache, pc'[s] \notin Keeping,
              \A t \in Threads \ {s} : pc'[t] = pc[t] /\ got'[t] = got[t],
              \A u \in Signal \ {s} : verdict'[u] = verdict[u] /\ before'[u] = before[u],
              Judged(s)' /\ Fits(s)'
       PROVE  StackInv'
  <2>1. \A u \in Signal \ {s} : Judged(u)' /\ Fits(u)'
    BY <1>00, Others
  <2> QED BY <1>00, <2>1 DEF StackInv
<1>1. ASSUME NEW s \in Signal, Begin(s) PROVE StackInv'
  <2>1. /\ \/ pc'[s] = "zone" /\ verdict'[s] = "suppress"
           \/ pc'[s] = "stackLook" /\ verdict'[s] = "allow"
        /\ \A u \in Threads \ {s} : pc'[u] = pc[u]
        /\ \A u \in Signal \ {s} : verdict'[u] = verdict[u] /\ before'[u] = before[u]
        /\ before'[s] = Alive /\ cache' = {} /\ got' = Aged /\ position' = position
    BY <1>1 DEF Begin, Look, Types
  <2>2. \A t \in Threads : pc'[t] \in Keeping => pc[t] \in Keeping
    BY <2>1, KeepNames
  <2>3. /\ \A t \in Threads : pc'[t] \in Keeping => got'[t].blind
        /\ \A u \in Signal \ {s} : Judged(u)' /\ Fits(u)'
    BY <2>1, <2>2, BeginStack
  <2>4. before'[s] \subseteq {t \in Signal : position'[t] # "none"}
    BY <2>1 DEF Alive
  <2>5. Judged(s)' /\ Fits(s)'
    BY <2>1, <2>3, <2>4 DEF Judged, Fits, Covers, Keeping
  <2> QED BY <2>3, <2>5 DEF StackInv
<1>2. CASE BeginElsewhere
  BY <1>2, BeginStack DEF BeginElsewhere, StackInv
<1>3. ASSUME NEW t \in Threads, Positions(t) PROVE StackInv'
  BY <1>3, PositionsStack
<1>4. ASSUME NEW s \in Signal, StackAndCooldown(s) PROVE StackInv'
  <2>1. /\ pc[s] = "stack" /\ pc'[s] = "zone" /\ cache' = cache /\ got' = got /\ before' = before
        /\ verdict'[s] = IF Full(s) \/ Cooling(s) THEN "suppress" ELSE verdict[s]
        /\ \A t \in Threads \ {s} : pc'[t] = pc[t]
        /\ \A u \in Signal \ {s} : verdict'[u] = verdict[u]
        /\ position' = position
    BY <1>4 DEF StackAndCooldown, Types
  <2>2. Judged(s)
    BY DEF StackInv
  <2>3. Judged(s)'
    BY <2>1, <2>2 DEF Judged
  <2>4. ASSUME verdict'[s] = "allow", ~got[s].blind
        PROVE  Cardinality(before[s] \intersect Alive) < Limit
    <3>1. ~(Cardinality(got[s].tickets) >= Limit)
      BY <2>1, <2>4 DEF Full
    <3>2. before[s] \intersect Alive \subseteq got[s].tickets
      BY <2>1, <2>2, <2>4 DEF Judged, Covers
    <3>3. IsFiniteSet(got[s].tickets)
      BY BookingAssumption, FS_Subset DEF Types, Answer
    <3>4. /\ Cardinality(before[s] \intersect Alive) <= Cardinality(got[s].tickets)
          /\ Cardinality(got[s].tickets) \in Int
          /\ Cardinality(before[s] \intersect Alive) \in Int
      BY <3>2, <3>3, FS_Subset, FS_CardinalityType
    <3> QED BY <3>1, <3>4, BookingAssumption
  <2>5. Fits(s)'
    BY <2>1, <2>2, <2>4, CoversKept DEF Fits
  <2> QED BY <2>1, <2>3, <2>5, <1>00, KeepNames
<1>5. ASSUME NEW s \in Signal, ZoneGate(s) PROVE StackInv'
  <2>1. PICK spent \in BOOLEAN, says \in {"allow", "route", "suppress", "reject"} :
          LET v == IF "suppress" \in {verdict[s], says} THEN "suppress"
                   ELSE IF spent THEN "route" ELSE says
          IN /\ pc' = [pc EXCEPT ![s] = IF says = "reject" THEN "done"
                                        ELSE IF spent THEN Look.spent ELSE Acts(v)]
             /\ Locals(s, v)
    BY <1>5 DEF ZoneGate, Blocked
  <2> DEFINE v == IF "suppress" \in {verdict[s], says} THEN "suppress"
                  ELSE IF spent THEN "route" ELSE says
  <2>2. /\ pc'[s] = IF says = "reject" THEN "done" ELSE IF spent THEN "spentLook" ELSE Acts(v)
        /\ (\A t \in Threads \ {s} : pc'[t] = pc[t]) /\ Locals(s, v)
        /\ pc[s] = "zone" /\ cache' = cache
    BY <1>5, <2>1 DEF ZoneGate, Look, Types
  <2>3. Judged(s) /\ Fits(s)
    BY DEF StackInv
  <2>4. verdict[s] \in {"allow", "suppress"}
    BY <2>2, <2>3 DEF Judged
  <2>5. spent => v # "allow"
    OBVIOUS
  <2>6. pc'[s] = "order" => v = "allow" /\ verdict[s] = "allow"
    BY <2>2, <2>4 DEF Acts
  <2> HIDE DEF v
  <2>7. pc'[s] \in {"order", "armed", "done", "spentLook"}
    BY <2>2, ActsType
  <2>8. CASE pc'[s] \in {"armed", "done"}
    <3>1. Judged(s)' /\ Fits(s)'
      BY <2>2, <2>3, <2>8, LocalsFrame, Over
    <3> QED BY <2>2, <2>8, <3>1, <1>00, LocalsFrame, KeepNames
  <2>9. CASE pc'[s] = "spentLook"
    <3>1. spent
      BY <2>2, <2>9, ActsType
    <3>2. verdict'[s] # "allow" /\ before'[s] = before[s]
      BY <2>2, <2>5, <2>9, <3>1, LocalsFrame
    <3>3. Judged(s)' /\ Fits(s)'
      BY <2>3, <2>9, <3>2, CoversKept DEF Judged, Fits
    <3> QED BY <2>2, <2>9, <3>3, <1>00, LocalsFrame, KeepNames
  <2>10. CASE pc'[s] = "order"
    <3>1. before'[s] = before[s] /\ got'[s] = got[s]
      BY <2>2, <2>10, LocalsFrame
    <3>2. Judged(s)'
      BY <2>3, <2>10, <3>1, CoversKept DEF Judged
    <3>3. Fits(s)'
      BY <2>2, <2>3, <2>6, <2>10, <3>1, CoversKept DEF Fits
    <3> QED BY <2>2, <2>10, <3>2, <3>3, <1>00, LocalsFrame, KeepNames
  <2> QED BY <2>7, <2>8, <2>9, <2>10
<1>6. ASSUME NEW s \in Signal, NEW t \in Signal, CloseSpent(s, t) PROVE StackInv'
  <2>1. /\ pc[s] = "spent" /\ pc' = pc /\ cache' = cache /\ verdict' = verdict /\ before' = before
        /\ \A u \in Threads \ {s} : got'[u] = got[u]
    BY <1>6 DEF CloseSpent, Types
  <2>2. Judged(s)
    BY DEF StackInv
  <2>3. Judged(s)' /\ Fits(s)'
    BY <2>1, <2>2, CoversKept DEF Judged, Fits
  <2> QED BY <2>1, <2>3, <1>00, KeepNames
<1>7. ASSUME NEW s \in Signal, Spent(s) PROVE StackInv'
  <2>1. /\ pc[s] = "spent" /\ pc'[s] = Acts(verdict[s]) /\ Locals(s, verdict[s]) /\ cache' = cache
        /\ \A t \in Threads \ {s} : pc'[t] = pc[t]
    BY <1>7, ActsType DEF Spent, Types
  <2>2. Judged(s)
    BY DEF StackInv
  <2>3. verdict[s] # "allow" /\ pc'[s] \in {"armed", "done"}
    BY <2>1, <2>2 DEF Judged, Acts
  <2>4. Judged(s)' /\ Fits(s)'
    BY <2>1, <2>2, <2>3, LocalsFrame, Over
  <2> QED BY <2>1, <2>3, <2>4, <1>00, LocalsFrame, KeepNames
<1>8. ASSUME NEW s \in Signal, Order(s) PROVE StackInv'
  <2>1. /\ pc'[s] = "journal" /\ before'[s] = {} /\ cache' = cache /\ verdict' = verdict
        /\ \A t \in Threads \ {s} : pc'[t] = pc[t] /\ got'[t] = got[t]
        /\ \A u \in Signal \ {s} : before'[u] = before[u]
    BY <1>8 DEF Order, Types
  <2>2. Judged(s)' /\ Fits(s)'
    BY <2>1, Over DEF StackInv
  <2> QED BY <2>1, <2>2, <1>00, KeepNames
<1>9. ASSUME NEW s \in Signal, \/ NoOrder(s) \/ OpenTradeRaises(s) \/ Remember(s)
      PROVE  StackInv'
  <2>1. /\ pc'[s] = "done" /\ Locals(s, "allow") /\ cache' = cache
        /\ \A t \in Threads \ {s} : pc'[t] = pc[t]
    BY <1>9 DEF NoOrder, OpenTradeRaises, Remember, Types
  <2>2. Judged(s)' /\ Fits(s)'
    BY <2>1, LocalsFrame, Over DEF StackInv
  <2> QED BY <2>1, <2>2, <1>00, LocalsFrame, KeepNames
<1>10. ASSUME NEW s \in Signal, OpenTrade(s) PROVE StackInv'
  <2>1. /\ pc'[s] = "remember" /\ cache' = cache /\ verdict' = verdict /\ got' = got
        /\ before' = before
        /\ \A t \in Threads \ {s} : pc'[t] = pc[t]
    BY <1>10 DEF OpenTrade, Types
  <2>2. Judged(s)' /\ Fits(s)'
    BY <2>1, Over DEF StackInv
  <2> QED BY <2>1, <2>2, <1>00, KeepNames
<1>11. CASE PollBegin \/ PollEnd \/ CloseTradeRaises \/ RecordEdge
            \/ \E t \in Signal : CloseTrade(t)
  <2>1. /\ pc'["poll"] \in {"diffLook", "idle", "book", "edge"}
        /\ \A s \in Signal : pc'[s] = pc[s]
        /\ UNCHANGED <<got, verdict, before, cache>>
    BY <1>11 DEF PollBegin, PollEnd, CloseTradeRaises, RecordEdge, CloseTrade, Types, Look
  <2> QED BY <2>1, <1>0, KeepNames
<1>12. CASE Diff
  <2>1. /\ pc'["poll"] = "book"
        /\ \A s \in Signal : pc'[s] = pc[s] /\ got'[s] = got[s]
        /\ UNCHANGED <<verdict, before, cache>>
    BY <1>12 DEF Diff, Types
  <2> QED BY <2>1, <1>0, KeepNames
<1>13. CASE UNCHANGED vars \/ \E t \in Signal : NotClosed(t) \/ Ends(t)
  <2>1. UNCHANGED <<pc, got, verdict, before, cache>>
    BY <1>13 DEF NotClosed, Ends, vars
  <2> QED BY <2>1, <1>0
<1>14. CASE Restart
  <2>1. /\ \A s \in Signal : pc'[s] \in {"new", "done"} /\ before'[s] = {}
    BY <1>14 DEF Restart
  <2> QED BY <2>1 DEF StackInv, Judged, Fits
<1> QED BY <1>1, <1>2, <1>3, <1>4, <1>5, <1>6, <1>7, <1>8, <1>9, <1>10, <1>11, <1>12, <1>13,
  <1>14 DEF Next, Process, Decide, Poll

-----------------------------------------------------------------------------
(* The theorems.                                                            *)

LEMMA Invariant == Spec => [](Types /\ BookInv /\ StackInv)
<1>1. Init => Types /\ BookInv /\ StackInv
  BY InitTypes, InitBooks, InitStack
<1>2. Types /\ BookInv /\ StackInv /\ [Next]_vars => Types' /\ BookInv' /\ StackInv'
  BY NextTypes, NextBooks, NextStack
<1> QED BY <1>1, <1>2, PTL DEF Spec

\* The poll books only what the journal has open, once, and with a result.
THEOREM TypeCorrect == Spec => []TypeOK
<1>1. Types /\ BookInv => TypeOK
  BY Names DEF Types, BookInv, TypeOK
<1> QED BY <1>1, Invariant, PTL

\* Whatever the threads do between each other's steps, only a failed call or a crash
\* leaves a position out of the journal, or a result out of the ledger.
THEOREM PositionsAccountedFor == Spec => []AccountedFor
<1>1. BookInv => AccountedFor
  BY DEF BookInv
<1> QED BY <1>1, Invariant, PTL

\* A partial result is booked only from a list that lacked an open position.
THEOREM PartsNeedMisreading == Spec => []BookedWhole
<1>1. BookInv => BookedWhole
  BY DEF BookInv
<1> QED BY <1>1, Invariant, PTL

\* For any number of signals and any limit, whoever fills the cache and whenever a
\* decision empties it, a signal that may trade has the limit kept of the positions
\* open when it began, unless its list was old or none.
THEOREM LimitKept == Spec => []StackHolds
<1>1. StackInv => StackHolds
  BY DEF StackInv, Fits, StackHolds
<1> QED BY <1>1, Invariant, PTL
=============================================================================
