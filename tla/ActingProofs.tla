----------------------------- MODULE ActingProofs -----------------------------
(***************************************************************************)
(* Theorems about the gate pipeline, for every stack of gates (Inv, GivenInv);*)
(* about where entries, stops and targets are put, for any policy within its *)
(* assumptions, any signals and any bars; and that the engine acts on nothing*)
(* else (PutInv).                                                           *)
(***************************************************************************)
EXTENDS Acting, TLAPS

Inner == SkipRouted \/ SkipExpensive \/ Advise \/ Object \/ Pass

\* Every step but Return judges the next gate and appends its result.
LEMMA Judged ==
  ASSUME TypeOK, NEW status \in Status, NEW verdict \in Verdict,
         Running, Result(status, verdict)
  PROVE  /\ results' \in Seq([status : Status, verdict : Verdict])
         /\ Len(results') = Here
         /\ DOMAIN results' = 1..Here
         /\ \A p \in 1..Len(results) : results'[p] = results[p]
         /\ results'[Here] = [status |-> status, verdict |-> verdict]
         /\ Here \in 1..Len(stack)
         /\ gate \in Gate
BY DEF TypeOK, Running, Result, Here, gate

-----------------------------------------------------------------------------
(* Type correctness.                                                        *)

\* What every evaluation keeps.
LEMMA EvaluatesType ==
  ASSUME TypeOK, NEW verdict \in Verdict, Evaluates(verdict)
  PROVE  /\ Running /\ stack' = stack /\ derived' \subseteq Value
         /\ raised' \subseteq raised \union {Here}
         /\ verdict # "suppress" => raised' = raised
<1>1. Running
  BY DEF Evaluates
<1>2. gate \in Gate
  BY <1>1 DEF TypeOK, Running, Here, gate
<1> QED
  BY <1>1, <1>2 DEF Evaluates, TypeOK, Gate

LEMMA InitType == Init => TypeOK
<1> SUFFICES ASSUME Init PROVE TypeOK
  OBVIOUS
<1>1. stack \in Seq(Gate) /\ Len(stack) \in Nat
  BY StacksAssumption DEF Init
<1>2. results \in Seq([status : Status, verdict : Verdict]) /\ Len(results) = 0
  BY DEF Init
<1>3. /\ derived = {} /\ routed = FALSE /\ bound = 0 /\ action = "allow"
      /\ reason = 0 /\ routeKind = 0 /\ returned = FALSE /\ raised = {}
  BY DEF Init
<1>4. /\ Len(results) <= Len(stack) /\ raised \subseteq 1..Len(results)
      /\ bound \in 0..Len(results) /\ reason \in 0..Len(results)
      /\ routeKind \in 0..Len(results)
  BY <1>1, <1>2, <1>3
<1> QED
  BY <1>1, <1>2, <1>3, <1>4, Zenon DEF TypeOK, Verdict

LEMMA NextType == TypeOK /\ [Next]_vars => TypeOK'
<1> SUFFICES ASSUME TypeOK, [Next]_vars PROVE TypeOK'
  OBVIOUS
<1>1. ASSUME NEW status \in Status, NEW verdict \in Verdict,
             Running, Result(status, verdict), stack' = stack,
             derived' \subseteq Value, raised' \subseteq raised \union {Here},
             routed' \in BOOLEAN, returned' \in BOOLEAN, action' \in Verdict,
             bound' \in {bound, Here}, reason' \in {reason, Here},
             routeKind' \in {routeKind, Here, 0}
      PROVE  TypeOK'
  <2>1. /\ results' \in Seq([status : Status, verdict : Verdict])
        /\ Len(results') = Here /\ Here \in 1..Len(stack)
    BY <1>1, Judged
  <2>2. Len(results) \in Nat /\ Here = Len(results) + 1
    BY DEF TypeOK, Here
  <2>3. stack' \in Seq(Gate) /\ Len(results') <= Len(stack')
    BY <1>1, <2>1 DEF TypeOK
  <2>4. raised' \subseteq 1..Len(results')
    <3>1. raised \subseteq 1..Len(results) /\ 1..Len(results) \subseteq 1..Here /\ Here \in 1..Here
      BY <2>2 DEF TypeOK
    <3>. QED BY <1>1, <2>1, <3>1
  <2>5. /\ bound' \in 0..Len(results') /\ reason' \in 0..Len(results')
        /\ routeKind' \in 0..Len(results')
    <3>1. /\ {bound, reason, routeKind} \subseteq 0..Len(results)
          /\ 0..Len(results) \subseteq 0..Here /\ {0, Here} \subseteq 0..Here
      BY <2>2 DEF TypeOK
    <3>. QED BY <1>1, <2>1, <3>1
  <2> QED
    BY <1>1, <2>1, <2>3, <2>4, <2>5 DEF TypeOK
<1>2. CASE SkipRouted
  BY <1>1, <1>2 DEF SkipRouted, TypeOK, Status, Verdict, outcome
<1>3. CASE SkipExpensive
  BY <1>1, <1>3 DEF SkipExpensive, TypeOK, Status, Verdict, outcome
<1>4. CASE Advise
  BY <1>1, <1>4, EvaluatesType DEF Advise, TypeOK, Status, outcome
<1>5. CASE Reject
  BY <1>1, <1>5, EvaluatesType DEF Reject, TypeOK, Status, Verdict
<1>6. CASE Suppress
  BY <1>1, <1>6, EvaluatesType DEF Suppress, TypeOK, Status, Verdict
<1>7. CASE Route
  BY <1>1, <1>7, EvaluatesType DEF Route, TypeOK, Status, Verdict
<1>8. CASE Object
  BY <1>1, <1>8, EvaluatesType DEF Object, TypeOK, Status, Verdict, outcome
<1>9. CASE Pass
  BY <1>1, <1>9, EvaluatesType DEF Pass, TypeOK, Status, Verdict, outcome
<1>10. CASE Return
  BY <1>10 DEF Return, TypeOK, outcome
<1>11. CASE UNCHANGED vars
  BY <1>11 DEF vars, TypeOK, outcome
<1> QED
  BY <1>2, <1>3, <1>4, <1>5, <1>6, <1>7, <1>8, <1>9, <1>10, <1>11 DEF Next

\* Every variable of a run holds a value of its type, whatever the stack.
THEOREM TypeCorrect == Spec => []TypeOK
BY InitType, NextType, PTL DEF Spec

-----------------------------------------------------------------------------
(* The outcome says what has bound, and the results say so too.             *)

BoundBy(verdict) == \E p \in DOMAIN results :
  results[p] = [status |-> "binding", verdict |-> verdict]

OutcomeInv ==
  /\ action = "allow" => bound = 0 /\ ~routed
  /\ action = "route" => bound = 0 /\ routed
  /\ action = "suppress" => bound # 0
  /\ bound # 0 => ~routed
  /\ ~returned => action # "reject"
  /\ returned /\ action # "reject" => Len(results) = Len(stack)

ResultsInv ==
  /\ ~returned => (bound # 0 <=> BoundBy("suppress"))
  /\ ~returned => (routed <=> BoundBy("route") /\ ~BoundBy("suppress"))
  /\ action = "allow" =>
       \A p \in DOMAIN results :
         results[p].status = IF stack[p].advisory THEN "advisory" ELSE "passed"
  /\ (\E p \in raised : ~stack[p].advisory) => action \in {"suppress", "reject"}
  /\ SkipsAreDeclared

Inv == TypeOK /\ OutcomeInv /\ ResultsInv

LEMMA NextOutcome == TypeOK /\ OutcomeInv /\ [Next]_vars => OutcomeInv'
<1> SUFFICES ASSUME TypeOK, OutcomeInv, [Next]_vars PROVE OutcomeInv'
  OBVIOUS
<1> USE DEF OutcomeInv, outcome
<1>0. Len(results) \in Nat /\ Len(stack) \in Nat /\ Here # 0
  BY DEF TypeOK, Here
<1>1. CASE Inner
  BY <1>0, <1>1, EvaluatesType DEF Inner, SkipRouted, SkipExpensive, Advise, Object, Pass,
    Running, Verdict
<1>2. CASE Reject
  BY <1>2 DEF Reject
<1>3. CASE Suppress
  BY <1>0, <1>3, EvaluatesType DEF Suppress, Running, Verdict
<1>4. CASE Route
  BY <1>0, <1>4, EvaluatesType DEF Route, Running, Verdict
<1>5. CASE Return
  BY <1>0, <1>5 DEF Return, Here, TypeOK
<1>6. CASE UNCHANGED vars
  BY <1>6 DEF vars
<1> QED
  BY <1>1, <1>2, <1>3, <1>4, <1>5, <1>6 DEF Next, Inner

\* The results so far, and the one just appended.
LEMMA NextResults == Inv /\ [Next]_vars => ResultsInv'
<1> SUFFICES ASSUME Inv, [Next]_vars PROVE ResultsInv'
  OBVIOUS
<1>0. /\ TypeOK /\ OutcomeInv /\ ResultsInv
      /\ Len(results) \in Nat /\ DOMAIN results = 1..Len(results)
      /\ Here = Len(results) + 1 /\ Here \in Nat
  BY DEF Inv, TypeOK, Here
\* An appended result, as the properties see it.
<1>1. ASSUME NEW status \in Status, NEW verdict \in Verdict,
             Running, Result(status, verdict), stack' = stack
      PROVE  /\ DOMAIN results' = 1..Here
             /\ \A p \in 1..Len(results) : results'[p] = results[p]
             /\ results'[Here] = [status |-> status, verdict |-> verdict]
             /\ \A v \in Verdict : BoundBy(v)' <=>
                  BoundBy(v) \/ (status = "binding" /\ verdict = v)
             /\ \A p \in 1..Here : InForce(p)' <=> InForce(p)
             /\ \A p \in 1..Here : Refused(p)' <=> Refused(p)
             /\ InForce(Here) <=> routed
             /\ Refused(Here) <=> bound # 0
  <2>1. /\ DOMAIN results' = 1..Here
        /\ \A p \in 1..Len(results) : results'[p] = results[p]
        /\ results'[Here] = [status |-> status, verdict |-> verdict]
    BY <1>0, <1>1, Judged
  <2>2. \A v \in Verdict : BoundBy(v)' <=>
          BoundBy(v) \/ (status = "binding" /\ verdict = v)
    BY <1>0, <2>1 DEF BoundBy
  <2>3. \A p \in 1..Here : 1..(p - 1) \subseteq 1..Len(results)
    BY <1>0
  <2>4. \A p \in 1..Here : InForce(p)' <=> InForce(p)
    BY <2>1, <2>3 DEF InForce
  <2>5. \A p \in 1..Here : Refused(p)' <=> Refused(p)
    BY <2>1, <2>3 DEF Refused
  <2>6. 1..(Here - 1) = DOMAIN results
    BY <1>0
  <2>7. ~returned
    BY <1>1 DEF Running
  <2>8. (InForce(Here) <=> routed) /\ (Refused(Here) <=> bound # 0)
    BY <1>0, <2>6, <2>7 DEF InForce, Refused, ResultsInv, BoundBy
  <2> QED
    BY <2>1, <2>2, <2>4, <2>5, <2>8
<1>2. ASSUME NEW status \in Status, NEW verdict \in Verdict,
             Running, Result(status, verdict), stack' = stack,
             status = "skipped" <=> (PassedOver \/ TooLate)
      PROVE  SkipsAreDeclared'
  <2>1. gate = stack[Here]
    BY DEF gate
  <2>2. PassedOver \/ TooLate <=>
          \/ InForce(Here) /\ ~stack[Here].runsWhenRouted
          \/ Refused(Here) /\ stack[Here].expensive
    BY <1>1, <1>2, <2>1 DEF PassedOver, TooLate
  <2>3. \A p \in 1..Here : p = Here \/ p \in 1..Len(results)
    BY <1>0
  <2>4. \A p \in 1..Len(results) :
          results[p].status = "skipped" <=>
            \/ InForce(p) /\ ~stack[p].runsWhenRouted
            \/ Refused(p) /\ stack[p].expensive
    BY <1>0 DEF ResultsInv, SkipsAreDeclared
  <2>5. /\ DOMAIN results' = 1..Here
        /\ \A p \in 1..Len(results) : results'[p] = results[p]
        /\ results'[Here] = [status |-> status, verdict |-> verdict]
    BY <1>1, <1>2
  <2>6. \A p \in 1..Here : (InForce(p)' <=> InForce(p)) /\ (Refused(p)' <=> Refused(p))
    BY <1>1, <1>2, Zenon
  <2> SUFFICES ASSUME NEW p \in 1..Here
      PROVE  results'[p].status = "skipped" <=>
               \/ InForce(p) /\ ~stack[p].runsWhenRouted
               \/ Refused(p) /\ stack[p].expensive
    BY <1>2, <2>5, <2>6 DEF SkipsAreDeclared
  <2> QED
    BY <1>2, <2>2, <2>3, <2>4, <2>5
<1>3. ASSUME UNCHANGED <<stack, results, bound, routed, raised>>,
             returned' \/ returned' = returned, action' = action
      PROVE  ResultsInv'
  BY <1>0, <1>3 DEF ResultsInv, SkipsAreDeclared, InForce, Refused, BoundBy
<1>4. CASE SkipRouted \/ SkipExpensive
  <2>1. /\ Running /\ Result("skipped", "allow") /\ stack' = stack
        /\ PassedOver \/ TooLate
        /\ "skipped" \in Status /\ "allow" \in Verdict
    BY <1>4 DEF SkipRouted, SkipExpensive, Status, Verdict
  <2>2. action # "allow"
    BY <1>0, <2>1 DEF OutcomeInv, PassedOver, TooLate
  <2>3. /\ SkipsAreDeclared'
        /\ \A v \in Verdict : BoundBy(v)' <=> BoundBy(v)
    BY <1>1, <1>2, <2>1
  <2> QED
    BY <1>0, <1>4, <2>2, <2>3 DEF SkipRouted, SkipExpensive, outcome, ResultsInv, Verdict
<1>5. ASSUME NEW status \in Status \ {"skipped"}, NEW verdict \in Verdict,
             Evaluates(verdict), Result(status, verdict)
      PROVE  /\ SkipsAreDeclared'
             /\ DOMAIN results' = 1..Here
             /\ \A p \in 1..Len(results) : results'[p] = results[p]
             /\ results'[Here].status = status
             /\ \A v \in Verdict : BoundBy(v)' <=>
                  BoundBy(v) \/ (status = "binding" /\ verdict = v)
             /\ stack' = stack /\ raised' \subseteq raised \union {Here}
             /\ verdict # "suppress" => raised' = raised
             /\ gate = stack[Here] /\ Running
  <2>1. /\ Running /\ ~PassedOver /\ ~TooLate /\ stack' = stack /\ status \in Status
        /\ raised' \subseteq raised \union {Here}
        /\ verdict # "suppress" => raised' = raised
    BY <1>0, <1>5, EvaluatesType DEF Evaluates
  <2>2. /\ DOMAIN results' = 1..Here
        /\ \A p \in 1..Len(results) : results'[p] = results[p]
        /\ results'[Here] = [status |-> status, verdict |-> verdict]
    BY <1>1, <1>5, <2>1
  <2>3. \A v \in Verdict : BoundBy(v)' <=>
          BoundBy(v) \/ (status = "binding" /\ verdict = v)
    BY <1>1, <1>5, <2>1, Zenon
  <2>4. SkipsAreDeclared'
    BY <1>2, <1>5, <2>1
  <2>5. gate = stack[Here]
    BY DEF gate
  <2> QED
    BY <2>1, <2>2, <2>3, <2>4, <2>5
<1> USE DEF outcome
<1>6. CASE Advise
  <2>1. PICK verdict \in Verdict : /\ Evaluates(verdict) /\ Result("advisory", verdict)
    BY <1>6 DEF Advise
  <2>2. "advisory" \in Status \ {"skipped"}
    BY DEF Status
  <2>3. /\ SkipsAreDeclared' /\ DOMAIN results' = 1..Here
        /\ \A p \in 1..Len(results) : results'[p] = results[p]
        /\ results'[Here].status = "advisory"
        /\ \A v \in Verdict : BoundBy(v)' <=> BoundBy(v)
        /\ stack' = stack /\ raised' \subseteq raised \union {Here}
        /\ stack[Here].advisory
    BY <1>5, <1>6, <2>1, <2>2 DEF Advise
  <2>4. \A p \in 1..Here : p = Here \/ p \in 1..Len(results)
    BY <1>0
  <2> QED
    BY <1>0, <1>6, <2>3, <2>4 DEF Advise, ResultsInv, Verdict
<1>7. CASE Reject
  <2>1. "binding" \in Status \ {"skipped"} /\ "reject" \in Verdict
    BY DEF Status, Verdict
  <2>2. SkipsAreDeclared'
    BY <1>5, <1>7, <2>1 DEF Reject
  <2> QED
    BY <1>7, <2>2 DEF Reject, ResultsInv
<1>8. CASE Suppress
  <2>1. "binding" \in Status \ {"skipped"} /\ "suppress" \in Verdict
    BY DEF Status, Verdict
  <2>2. SkipsAreDeclared' /\ BoundBy("suppress")'
    BY <1>5, <1>8, <2>1 DEF Suppress
  <2> QED
    BY <1>0, <1>8, <2>2 DEF Suppress, ResultsInv
<1>9. CASE Route
  <2>1. "binding" \in Status \ {"skipped"} /\ {"route", "suppress"} \subseteq Verdict
    BY DEF Status, Verdict
  <2>2. /\ SkipsAreDeclared' /\ BoundBy("route")' /\ Running
        /\ BoundBy("suppress")' <=> BoundBy("suppress")
        /\ stack' = stack /\ raised' = raised
    BY <1>5, <1>9, <2>1 DEF Route
  <2> QED
    BY <1>0, <1>9, <2>2 DEF Route, ResultsInv, OutcomeInv, Running
<1>10. CASE Object
  <2>1. PICK verdict \in Verdict : Evaluates(verdict) /\ Result("shadow", verdict)
    BY <1>10 DEF Object, Verdict
  <2>2. "shadow" \in Status \ {"skipped"}
    BY DEF Status
  <2>3. /\ SkipsAreDeclared' /\ Running /\ stack' = stack
        /\ \A v \in Verdict : BoundBy(v)' <=> BoundBy(v)
    BY <1>5, <2>1, <2>2
  <2>4. action = "suppress"
    BY <1>0, <1>10, <2>3 DEF Object, OutcomeInv, Running, TypeOK, Verdict
  <2> QED
    BY <1>0, <1>10, <2>3, <2>4 DEF Object, ResultsInv, Verdict
<1>11. CASE Pass
  <2>1. "passed" \in Status \ {"skipped"} /\ "allow" \in Verdict
    BY DEF Status, Verdict
  <2>2. /\ SkipsAreDeclared' /\ DOMAIN results' = 1..Here
        /\ \A p \in 1..Len(results) : results'[p] = results[p]
        /\ results'[Here].status = "passed"
        /\ \A v \in Verdict : BoundBy(v)' <=> BoundBy(v)
        /\ stack' = stack /\ raised' = raised /\ ~stack[Here].advisory
    BY <1>5, <1>11, <2>1 DEF Pass
  <2>3. \A p \in 1..Here : p = Here \/ p \in 1..Len(results)
    BY <1>0
  <2> QED
    BY <1>0, <1>11, <2>2, <2>3 DEF Pass, ResultsInv, Verdict
<1>12. CASE Return
  BY <1>3, <1>12 DEF Return
<1>13. CASE UNCHANGED vars
  BY <1>3, <1>13 DEF vars
<1> QED
  BY <1>4, <1>6, <1>7, <1>8, <1>9, <1>10, <1>11, <1>12, <1>13 DEF Next

LEMMA InitInv == Init => Inv
<1> SUFFICES ASSUME Init PROVE Inv
  OBVIOUS
<1>1. TypeOK
  BY InitType
<1>2. results = <<>> /\ DOMAIN results = {}
  BY DEF Init
<1> QED
  BY <1>1, <1>2 DEF Init, Inv, OutcomeInv, ResultsInv, BoundBy, SkipsAreDeclared

LEMMA Invariant == Spec => []Inv
<1>1. Inv /\ [Next]_vars => Inv'
  BY NextType, NextOutcome, NextResults DEF Inv
<1> QED
  BY <1>1, InitInv, PTL DEF Spec

\* Whatever stack of gates is wired, a run that ends in "allow" ran every gate,
\* and none that can bind objected.
THEOREM AllowedOnlyUnanimously == Spec => []AllowedIsUnanimous
<1>1. Inv => AllowedIsUnanimous
  BY DEF Inv, TypeOK, OutcomeInv, ResultsInv, AllowedIsUnanimous
<1> QED
  BY <1>1, Invariant, PTL

\* Whatever gates raise, no run in which a gate that can bind raised ends in an
\* order or an armed entry.
THEOREM RaisingFailsClosed == Spec => []FailsClosed
<1>1. Inv => FailsClosed
  BY DEF Inv, ResultsInv, FailsClosed
<1> QED
  BY <1>1, Invariant, PTL

\* A gate is passed over for a declared reason, and whenever there is one.
THEOREM SkippedAsDeclared == Spec => []SkipsAreDeclared
<1>1. Inv => SkipsAreDeclared
  BY DEF Inv, ResultsInv
<1> QED
  BY <1>1, Invariant, PTL

\* No step but a rejection changes the outcome of a suppressed run.
THEOREM SuppressionBinds == Spec => SuppressionStands
<1>1. Inv /\ [Next]_vars =>
        [action = "suppress" => action' = "reject" \/ UNCHANGED outcome]_vars
  <2> SUFFICES ASSUME Inv, Next, action = "suppress"
      PROVE  action' = "reject" \/ UNCHANGED outcome
    OBVIOUS
  <2>1. bound # 0
    BY DEF Inv, OutcomeInv
  <2> QED
    BY <2>1 DEF Next, SkipRouted, SkipExpensive, Advise, Reject, Suppress, Route,
      Object, Pass, Return
<1> QED
  BY <1>1, Invariant, PTL DEF Spec, SuppressionStands

-----------------------------------------------------------------------------
(* The order of the stages.                                                 *)

\* What a gate has put once it was judged and the run goes on, whatever it said,
\* as long as it did not raise.
Gives(g) == /\ g.runsWhenRouted /\ ~g.advisory
            /\ g.verdicts \subseteq {"allow", "reject", "route"}

\* What a gate needs, a gate before it gives: one that is not skipped for being
\* expensive unless the needing gate is skipped too.
InOrder(s) ==
  \A p \in DOMAIN s : \A v \in s[p].needs :
    \E q \in 1..(p - 1) :
      Gives(s[q]) /\ v \in s[q].puts /\ (s[q].expensive => s[p].expensive)

GivenInv ==
  ~returned /\ raised = {} =>
    \A p \in DOMAIN results :
      Gives(stack[p]) => stack[p].puts \subseteq derived \/ (stack[p].expensive /\ bound # 0)

LEMMA NextGiven == TypeOK /\ GivenInv /\ [Next]_vars => GivenInv'
<1> SUFFICES ASSUME TypeOK, GivenInv, [Next]_vars PROVE GivenInv'
  OBVIOUS
<1>0. /\ DOMAIN results = 1..Len(results) /\ Here = Len(results) + 1 /\ Len(results) \in Nat
      /\ gate = stack[Here] /\ raised \subseteq 1..Len(results)
  BY DEF TypeOK, Here, gate
<1>1. ASSUME NEW status \in Status, NEW verdict \in Verdict,
             Running, Result(status, verdict), stack' = stack, derived \subseteq derived',
             bound # 0 => bound' # 0, raised' = {} => raised = {},
             ~returned' /\ raised' = {} /\ Gives(gate) =>
               gate.puts \subseteq derived' \/ (gate.expensive /\ bound' # 0)
      PROVE  GivenInv'
  <2>. SUFFICES ASSUME ~returned', raised' = {}, NEW p \in 1..Here, Gives(stack[p])
                PROVE  stack[p].puts \subseteq derived' \/ (stack[p].expensive /\ bound' # 0)
    BY <1>1, Judged DEF GivenInv
  <2>1. CASE p = Here
    BY <1>0, <1>1, <2>1
  <2>2. CASE p \in 1..Len(results)
    BY <1>0, <1>1, <2>2 DEF GivenInv, Running
  <2>. QED BY <1>0, <2>1, <2>2
\* A gate that was judged, and did not end the run.
<1>2. ASSUME NEW verdict \in Verdict, Evaluates(verdict)
      PROVE  /\ Running /\ stack' = stack /\ derived \subseteq derived'
             /\ raised' = {} => raised = {}
             /\ raised' = {} /\ Gives(gate) /\ verdict # "reject" => gate.puts \subseteq derived'
  BY <1>2 DEF Evaluates, Gives
<1>. USE DEF outcome, Status, Verdict
<1>3. CASE SkipRouted \/ SkipExpensive
  BY <1>1, <1>3 DEF SkipRouted, SkipExpensive, PassedOver, TooLate, Gives
<1>4. CASE Advise
  <2>1. PICK verdict \in Verdict : Evaluates(verdict) /\ Result("advisory", verdict)
    BY <1>4 DEF Advise
  <2>. QED BY <1>1, <1>2, <1>4, <2>1 DEF Advise, Gives
<1>5. CASE Reject
  BY <1>1, <1>2, <1>5 DEF Reject
<1>6. CASE Suppress
  BY <1>0, <1>1, <1>2, <1>6 DEF Suppress
<1>7. CASE Route
  BY <1>1, <1>2, <1>7 DEF Route
<1>8. CASE Object
  <2>1. PICK verdict \in {"suppress", "route"} :
          Evaluates(verdict) /\ Result("shadow", verdict)
    BY <1>8 DEF Object
  <2>. QED BY <1>1, <1>2, <1>8, <2>1 DEF Object
<1>9. CASE Pass
  BY <1>1, <1>2, <1>9 DEF Pass
<1>10. CASE Return
  BY <1>10 DEF Return, GivenInv
<1>11. CASE UNCHANGED vars
  BY <1>11 DEF vars, GivenInv
<1>. QED BY <1>3, <1>4, <1>5, <1>6, <1>7, <1>8, <1>9, <1>10, <1>11 DEF Next

LEMMA Given == Spec => [](TypeOK /\ GivenInv)
<1>1. Init => GivenInv
  BY DEF Init, GivenInv
<1>. QED BY <1>1, InitType, NextType, NextGiven, PTL DEF Spec

\* In a stack whose stages are in order, no gate misses a value it needs: a judged
\* gate is not too late, and so neither was what gives it the value.
LEMMA OrderMeetsNeeds == TypeOK /\ GivenInv /\ InOrder(stack) => NeedsAreMet
<1>. SUFFICES ASSUME TypeOK, GivenInv, InOrder(stack), Running, ~TooLate, raised = {},
                     NEW v \in gate.needs
              PROVE  v \in derived
  BY DEF NeedsAreMet
<1>1. /\ gate = stack[Here] /\ Here \in DOMAIN stack /\ ~returned
      /\ 1..(Here - 1) = DOMAIN results
  BY DEF TypeOK, Running, Here, gate
<1>2. PICK q \in 1..(Here - 1) :
        Gives(stack[q]) /\ v \in stack[q].puts /\ (stack[q].expensive => stack[Here].expensive)
  BY <1>1 DEF InOrder
<1>. QED BY <1>1, <1>2 DEF GivenInv, TooLate

\* Of any stacks whose stages are in order: as long as no gate raises for a reason
\* of its own, none raises for a value that is not there.
THEOREM StagesInOrder == (\A s \in Stacks : InOrder(s)) => (Spec => []NeedsAreMet)
<1>. SUFFICES ASSUME \A s \in Stacks : InOrder(s) PROVE Spec => []NeedsAreMet
  OBVIOUS
<1>1. Init => InOrder(stack)
  BY DEF Init
<1>2. InOrder(stack) /\ [Next]_vars => InOrder(stack)'
  <2>. SUFFICES ASSUME [Next]_vars PROVE stack' = stack
    OBVIOUS
  <2>. QED BY DEF Next, vars, SkipRouted, SkipExpensive, Advise, Reject, Suppress, Route,
                  Object, Pass, Return, Evaluates
<1>. QED BY <1>1, <1>2, OrderMeetsNeeds, Given, PTL DEF Spec

\* The stages of the stacks that the server wires are in order.
LEMMA WiredInOrder ==
  ASSUME NEW s \in WiredStacks
  PROVE  InOrder(s)
<1>. DEFINE Gate1 == {"direction", "is_buy"}
            Gate3 == {"mid", "execution_price", "spread_pts"}
            Gate15 == {"sl", "tp_pts", "sl_pts"}
<1>1. PICK enforce \in BOOLEAN : s = Wired(enforce)
  BY DEF WiredStacks
<1>2. /\ Len(s) = 21 /\ DOMAIN s = 1..21
      /\ s[1] = DirectionGate /\ s[3] = FeedGate /\ s[15] = TargetStage
  BY <1>1 DEF Wired
<1>3. /\ Gives(DirectionGate) /\ DirectionGate.puts = Gate1 /\ ~DirectionGate.expensive
      /\ Gives(FeedGate) /\ FeedGate.puts = Gate3 /\ ~FeedGate.expensive
      /\ Gives(TargetStage) /\ TargetStage.puts = Gate15 /\ ~TargetStage.expensive
  BY DEF Gives, DirectionGate, FeedGate, TargetStage, Plain
<1>4. /\ DirectionGate.needs = {} /\ ConfidenceGate.needs = {} /\ FeedGate.needs = {"is_buy"}
      /\ SpreadHardGate.needs = {"spread_pts"} /\ DeadmanGate.needs = {}
      /\ StackLimitGate.needs = {}
      /\ EntryCooldownGate.needs = {"direction", "execution_price"}
      /\ ZoneGate.needs = {"mid", "direction"} /\ FlipConfirmGate.needs = {}
      /\ SignalCoherenceGate.needs = {"direction"} /\ ModelCoherenceGate.needs = {}
  BY DEF DirectionGate, ConfidenceGate, FeedGate, SpreadHardGate, DeadmanGate, StackLimitGate,
         EntryCooldownGate, ZoneGate, FlipConfirmGate, SignalCoherenceGate, ModelCoherenceGate,
         MarketOnly, Suppressing, Plain
<1>5. /\ SessionGate.needs = {} /\ RegimeContextGate.needs = {}
      /\ LondonBiasGate.needs = {"direction", "execution_price", "spread_pts"}
      /\ TargetStage.needs = {"execution_price"}
      /\ SpreadViabilityGate.needs = {"spread_pts", "tp_pts"}
      /\ RangeAdequacyGate.needs = {"direction", "sl_pts"}
      /\ RiskRewardGate.needs = {"tp_pts", "sl_pts"}
      /\ SessionExhaustionGate.needs = {"execution_price", "direction"}
      /\ EdgeLedgerGate(enforce).needs = {}
      /\ ViabilityGate.needs = {"sl_pts", "direction", "execution_price"}
  BY DEF SessionGate, RegimeContextGate, LondonBiasGate, TargetStage, SpreadViabilityGate,
         RangeAdequacyGate, RiskRewardGate, SessionExhaustionGate, EdgeLedgerGate,
         ViabilityGate, MarketOnly, Suppressing, Plain
<1>6. \A p \in 1..21 : /\ p \in {1, 2} => s[p].needs = {}
                       /\ p = 3 => s[p].needs \subseteq Gate1
                       /\ p \in 4..15 => s[p].needs \subseteq Gate1 \union Gate3
                       /\ p \in 16..21 => s[p].needs \subseteq Gate1 \union Gate3 \union Gate15
  BY <1>1, <1>4, <1>5 DEF Wired
<1>. SUFFICES ASSUME NEW p \in 1..21, NEW v \in s[p].needs
              PROVE  \E q \in 1..(p - 1) :
                       Gives(s[q]) /\ v \in s[q].puts /\ (s[q].expensive => s[p].expensive)
  BY <1>2 DEF InOrder
<1>7. CASE v \in Gate1
  <2>1. 1 \in 1..(p - 1)
    BY <1>6, <1>7
  <2>. QED BY <1>2, <1>3, <1>7, <2>1
<1>8. CASE v \in Gate3
  <2>1. 3 \in 1..(p - 1)
    BY <1>6, <1>8
  <2>. QED BY <1>2, <1>3, <1>8, <2>1
<1>9. CASE v \in Gate15
  <2>1. 15 \in 1..(p - 1)
    BY <1>6, <1>9
  <2>. QED BY <1>2, <1>3, <1>9, <2>1
<1>10. v \in Gate1 \union Gate3 \union Gate15
  BY <1>6
<1>. QED BY <1>7, <1>8, <1>9, <1>10

\* So in the stacks that the server wires no gate ever finds a value missing before
\* some gate has raised.
THEOREM WiredNeedsAreMet == Spec => [](stack \in WiredStacks => NeedsAreMet)
<1>1. TypeOK /\ GivenInv => (stack \in WiredStacks => NeedsAreMet)
  BY OrderMeetsNeeds, WiredInOrder
<1>. QED BY <1>1, Given, PTL

-----------------------------------------------------------------------------
(* The target stage.                                                        *)

LEMMA PolicyTypes ==
  ASSUME NEW s \in Signal
  PROVE  /\ Low(s) \in Nat /\ Low(s) > 1 /\ High(s) \in Nat /\ Low(s) <= High(s)
         /\ Policy.min_target_rr \in Nat /\ Policy.min_risk_reward \in Nat
         /\ (Policy.min_target_rr - Policy.min_risk_reward) * Low(s) >= 100
         /\ Policy.tf_tp_ceiling_pts[s.timeframe] \in Nat
         /\ Policy.phase_fraction[s.phase] \in 0..100
         /\ Policy.session_rr[s.session] \in Nat
         /\ Policy.regime_atr_bias[s.regime] \in Nat
         /\ Policy.phase_blend \in 0..100 /\ Policy.sr_blend \in 0..100
         /\ Policy.atr_half_weight \in 0..100
         /\ Policy.sr_buffer_pts \in Nat
         /\ s.regime \in Policy.capped => Policy.regime_rr_cap[s.regime] \in Nat
         /\ Ahead(s) \in Nat /\ Behind(s) \in Nat /\ s.atr \in Nat
<1>1. /\ s.timeframe \in Timeframe /\ s.phase \in Phase /\ s.regime \in Regime
      /\ s.session \in Session /\ s.atr \in Nat
      /\ s.support_pts \in Nat /\ s.resistance_pts \in Nat
  BY DEF Signal
<1>2. Ahead(s) \in Nat /\ Behind(s) \in Nat
  BY <1>1 DEF Ahead, Behind
<1>3. /\ Policy.tf_sl_range_pts[s.timeframe] \in [low : Nat \ {0, 1}, high : Nat]
      /\ Policy.tf_sl_range_pts[s.timeframe].low <= Policy.tf_sl_range_pts[s.timeframe].high
      /\ (Policy.min_target_rr - Policy.min_risk_reward)
           * Policy.tf_sl_range_pts[s.timeframe].low >= 100
  BY <1>1, PolicyAssumption, MarginAssumption
<1>4. /\ Low(s) \in Nat /\ Low(s) > 1 /\ High(s) \in Nat /\ Low(s) <= High(s)
      /\ (Policy.min_target_rr - Policy.min_risk_reward) * Low(s) >= 100
  BY <1>3 DEF Low, High
<1> QED BY <1>1, <1>2, <1>4, PolicyAssumption

\* A fraction of a distance is a distance.
LEMMA PartType ==
  ASSUME NEW h \in Nat, NEW x \in Nat
  PROVE  Part(h, x) \in Nat
BY DEF Part

LEMMA ClampType ==
  ASSUME NEW s \in Signal, NEW x \in Int
  PROVE  Clamp(s, x) \in Nat /\ Low(s) <= Clamp(s, x) /\ Clamp(s, x) <= High(s)
BY PolicyTypes DEF Clamp, Most, Least

LEMMA BlendType ==
  ASSUME NEW w \in 0..100, NEW a \in Nat, NEW b \in Nat
  PROVE  Blend(w, a, b) \in Nat
<1>1. w \in Nat /\ 100 - w \in Nat
  OBVIOUS
<1> QED BY <1>1, PartType DEF Blend

\* The stop lands inside its timeframe's bounds.
LEMMA StopInside ==
  ASSUME NEW s \in Signal
  PROVE  SlPts(s) \in Nat /\ Low(s) <= SlPts(s) /\ SlPts(s) <= High(s)
<1>1. PhaseTarget(s) \in Nat
  <2>1. High(s) - Low(s) \in Nat /\ Policy.phase_fraction[s.phase] \in Nat
    BY PolicyTypes
  <2>2. Part(Policy.phase_fraction[s.phase], High(s) - Low(s)) \in Nat
    BY <2>1, PartType
  <2>3. Low(s) \in Nat
    BY PolicyTypes
  <2> QED BY <2>2, <2>3 DEF PhaseTarget
<1>2. AtrScaled(s) \in Nat
  <2> DEFINE atr == IF s.atr = 0 THEN 200 ELSE s.atr
  <2>1. atr \in Nat /\ Policy.atr_half_weight \in Nat /\ Policy.regime_atr_bias[s.regime] \in Nat
    BY PolicyTypes
  <2>2. Part(Policy.regime_atr_bias[s.regime], Part(Policy.atr_half_weight, atr)) \in Nat
    <3> HIDE DEF atr
    <3> QED BY <2>1, PartType
  <2> QED BY <2>2, ClampType DEF AtrScaled
<1> DEFINE stop == Clamp(s, Blend(Policy.phase_blend, PhaseTarget(s), AtrScaled(s)))
           anchored == Behind(s) + Policy.sr_buffer_pts
<1>3. stop \in Nat /\ Low(s) <= stop /\ stop <= High(s)
  <2>1. Policy.phase_blend \in 0..100
    BY PolicyTypes
  <2>2. Blend(Policy.phase_blend, PhaseTarget(s), AtrScaled(s)) \in Nat
    BY <1>1, <1>2, <2>1, BlendType
  <2> QED BY <2>2, ClampType
<1>4. anchored \in Nat
  BY PolicyTypes
<1>5. SlPts(s) = IF Behind(s) > 0 /\ Low(s) <= anchored /\ anchored <= High(s)
                 THEN Clamp(s, Blend(Policy.sr_blend, anchored, stop)) ELSE stop
  BY DEF SlPts
<1>6. LET x == Clamp(s, Blend(Policy.sr_blend, anchored, stop))
      IN x \in Nat /\ Low(s) <= x /\ x <= High(s)
  <2> HIDE DEF anchored, stop
  <2>1. Policy.sr_blend \in 0..100
    BY PolicyTypes
  <2>2. Blend(Policy.sr_blend, anchored, stop) \in Nat
    BY <1>3, <1>4, <2>1, BlendType
  <2> QED BY <2>2, ClampType
<1> HIDE DEF anchored, stop
<1> QED BY <1>3, <1>5, <1>6

\* The floor: one the risk-reward gate passes, and no more than a level that
\* clears it.
LEMMA FloorMargin ==
  ASSUME NEW s \in Signal
  PROVE  /\ Floor(s) \in Nat /\ Floor(s) > 0
         /\ 100 * Floor(s) >= Policy.min_risk_reward * SlPts(s)
         /\ \A x \in Int : 100 * x >= Policy.min_target_rr * SlPts(s) => x >= Floor(s)
<1> DEFINE mt == Policy.min_target_rr
           mr == Policy.min_risk_reward
           sl == SlPts(s)
           product == mt * sl
<1>1. /\ mt \in Nat /\ mr \in Nat /\ sl \in Nat /\ Low(s) \in Nat /\ Low(s) <= sl
      /\ (mt - mr) * Low(s) >= 100
  BY PolicyTypes, StopInside
<1> HIDE DEF mt, mr, sl
<1>2. mt - mr > 0
  BY <1>1
<1>3. (mt - mr) * sl >= (mt - mr) * Low(s)
  BY <1>1, <1>2
<1>4. product \in Nat /\ mr * sl \in Nat /\ product >= mr * sl + 100
  <2>1. (mt - mr) * sl = mt * sl - mr * sl
    BY <1>1
  <2> QED BY <1>1, <1>3, <2>1
<1>5. Floor(s) = product \div 100
  BY DEF Floor, Part, mt, sl
<1> HIDE DEF product
<1>6. Floor(s) \in Nat /\ 100 * Floor(s) > product - 100 /\ 100 * Floor(s) <= product
  BY <1>4, <1>5
<1>7. Floor(s) > 0 /\ 100 * Floor(s) >= mr * sl
  BY <1>4, <1>6
<1>8. \A x \in Int : 100 * x >= product => x >= Floor(s)
  BY <1>4, <1>6
<1> QED BY <1>6, <1>7, <1>8 DEF mt, mr, sl, product

\* The target: no nearer than the floor, no further than the ceiling unless the
\* floor is, and past a level only when that is nearer than the floor.
LEMMA TargetInside ==
  ASSUME NEW s \in Signal
  PROVE  /\ TpPts(s) \in Nat /\ TpPts(s) >= Floor(s)
         /\ TpPts(s) <= Most(Policy.tf_tp_ceiling_pts[s.timeframe], Floor(s))
         /\ Ahead(s) > 0 /\ TpPts(s) > Structure(s)
              => 100 * Structure(s) < Policy.min_target_rr * SlPts(s)
<1> DEFINE ceiling == Policy.tf_tp_ceiling_pts[s.timeframe]
           cap == Part(Policy.regime_rr_cap[s.regime], SlPts(s))
           aim == Most(Least(Aim(s), ceiling), Floor(s))
<1>1. /\ Floor(s) \in Nat
      /\ \A x \in Int : 100 * x >= Policy.min_target_rr * SlPts(s) => x >= Floor(s)
  BY FloorMargin
<1>2. ceiling \in Nat /\ SlPts(s) \in Nat /\ Ahead(s) \in Nat /\ Policy.sr_buffer_pts \in Nat
      /\ Policy.min_target_rr \in Nat /\ Policy.session_rr[s.session] \in Nat
  BY PolicyTypes, StopInside
<1>3. Structure(s) \in Int /\ Policy.min_target_rr * SlPts(s) \in Int
  BY <1>2 DEF Structure
<1>4. Aim(s) \in Int
  <2>1. Most(Policy.session_rr[s.session], Policy.min_target_rr) \in Nat
    BY <1>2 DEF Most
  <2>2. Part(Most(Policy.session_rr[s.session], Policy.min_target_rr), SlPts(s)) \in Nat
    BY <1>2, <2>1, PartType
  <2> QED BY <1>3, <2>2 DEF Aim
<1>5. TpPts(s) = aim \/ (cap \in Nat /\ TpPts(s) = Most(Least(aim, cap), Floor(s)))
  <2>1. s.regime \in Policy.capped => Policy.regime_rr_cap[s.regime] \in Nat
    BY PolicyTypes
  <2>2. s.regime \in Policy.capped => cap \in Nat
    BY <1>2, <2>1, PartType
  <2> QED BY <2>2 DEF TpPts
<1>6. /\ TpPts(s) \in Nat /\ TpPts(s) >= Floor(s) /\ TpPts(s) <= Most(ceiling, Floor(s))
      /\ TpPts(s) > Aim(s) => TpPts(s) = Floor(s)
  <2> HIDE DEF ceiling, cap
  <2> QED BY <1>1, <1>2, <1>4, <1>5 DEF Most, Least
<1>7. ASSUME Ahead(s) > 0, TpPts(s) > Structure(s),
             100 * Structure(s) >= Policy.min_target_rr * SlPts(s)
      PROVE  FALSE
  <2>1. Aim(s) = Structure(s)
    BY <1>7 DEF Aim, Clears
  <2>2. Structure(s) >= Floor(s)
    BY <1>1, <1>3, <1>7
  <2> QED BY <1>1, <1>3, <1>6, <1>7, <2>1, <2>2
<1> QED BY <1>3, <1>6, <1>7

\* Whatever the target stage allows is where the optimiser says, and passes the
\* risk-reward gate.
THEOREM MarketEntriesInPlace == MarketEntriesHold
<1> SUFFICES ASSUME NEW s \in Signals, NEW price \in Prices, EvaluateTargets(s, price).verdict = "allow"
             PROVE  LET t == EvaluateTargets(s, price) IN
                    /\ Low(s) <= t.sl_pts /\ t.sl_pts <= High(s)
                    /\ IF s.direction = "UP" THEN t.sl < price /\ price < t.tp
                                             ELSE t.tp < price /\ price < t.sl
                    /\ Floor(s) <= t.tp_pts
                    /\ t.tp_pts <= Most(Policy.tf_tp_ceiling_pts[s.timeframe], Floor(s))
                    /\ Ahead(s) > 0 /\ t.tp_pts > Structure(s)
                         => 100 * Structure(s) < Policy.min_target_rr * t.sl_pts
                    /\ RiskReward(t) = "allow"
  BY DEF MarketEntriesHold, MarketEntryHolds
<1>1. s \in Signal /\ price \in Int /\ s.direction \in {"UP", "DOWN"}
  BY InputsAssumption DEF Signal
<1>2. /\ SlPts(s) \in Nat /\ Low(s) <= SlPts(s) /\ SlPts(s) <= High(s) /\ SlPts(s) > 0
  BY <1>1, StopInside, PolicyTypes
<1>3. TpPts(s) \in Nat /\ TpPts(s) > 0
  BY <1>1, TargetInside, FloorMargin
<1> DEFINE t == EvaluateTargets(s, price)
<1>4. t = [verdict |-> "allow",
           sl |-> ComputeSl(s, price), sl_pts |-> Abs(price - ComputeSl(s, price)),
           tp |-> ComputeTp(s, price), tp_pts |-> Abs(ComputeTp(s, price) - price)]
  BY DEF EvaluateTargets
<1>5. /\ t.sl = ComputeSl(s, price) /\ t.tp = ComputeTp(s, price)
      /\ t.sl_pts = SlPts(s) /\ t.tp_pts = TpPts(s)
      /\ IF s.direction = "UP" THEN t.sl < price /\ price < t.tp
                               ELSE t.tp < price /\ price < t.sl
  BY <1>1, <1>2, <1>3, <1>4 DEF ComputeSl, ComputeTp, Toward, Abs
<1>6. RiskReward(t) = "allow"
  <2>1. 100 * TpPts(s) >= Policy.min_risk_reward * SlPts(s)
    <3>1. Policy.min_risk_reward * SlPts(s) \in Int /\ Floor(s) \in Int
      BY <1>1, <1>2, PolicyTypes, FloorMargin
    <3>2. 100 * Floor(s) >= Policy.min_risk_reward * SlPts(s) /\ TpPts(s) >= Floor(s)
      BY <1>1, FloorMargin, TargetInside
    <3> QED BY <1>3, <3>1, <3>2
  <2>2. Policy.min_risk_reward * SlPts(s) \in Int
    BY <1>1, <1>2, PolicyTypes
  <2> HIDE DEF t
  <2> QED BY <1>3, <1>5, <2>1, <2>2 DEF RiskReward
<1> HIDE DEF t
<1>7. /\ Floor(s) <= t.tp_pts
      /\ t.tp_pts <= Most(Policy.tf_tp_ceiling_pts[s.timeframe], Floor(s))
      /\ Ahead(s) > 0 /\ t.tp_pts > Structure(s)
           => 100 * Structure(s) < Policy.min_target_rr * t.sl_pts
  BY <1>1, <1>5, TargetInside, FloorMargin
<1> QED BY <1>2, <1>5, <1>6, <1>7 DEF t

-----------------------------------------------------------------------------
(* The zones.                                                               *)

\* An armed entry lies between its stop and the price, and no other swing
\* between it and the price.
THEOREM ZoneEntriesInPlace == ZoneEntriesHold
<1> SUFFICES ASSUME NEW price \in Prices, NEW isBuy \in BOOLEAN, NEW absolute \in Levels,
                    NEW distance \in Distances, NEW hours \in Markets, NEW k \in 1..2
             PROVE  ZoneEntryHolds(price, isBuy, absolute, distance, hours, k)
  BY DEF ZoneEntriesHold
<1> DEFINE swings == Swings(hours, k, isBuy)
<1>1. /\ price \in Int /\ absolute \in Nat /\ distance \in Nat
      /\ hours \in Seq(Hour) /\ Policy.stop_buffer_pts \in Nat \ {0}
  BY InputsAssumption, PolicyAssumption
<1>2. \A v \in swings : \E i \in DOMAIN hours : v = hours[i].low \/ v = hours[i].high
  <2>1. Interior(hours, k) \subseteq DOMAIN hours
    BY <1>1 DEF Interior
  <2> QED BY <2>1 DEF Swings, SwingLows, SwingHighs
<1>3. swings \subseteq Int
  <2>1. \A i \in DOMAIN hours : hours[i].low \in Int /\ hours[i].high \in Int
    <3>1. \A i \in DOMAIN hours : hours[i] \in Hour
      BY <1>1
    <3> QED BY <3>1 DEF Hour
  <2> HIDE DEF swings
  <2> QED BY <1>2, <2>1
<1> HIDE DEF swings
<1> SUFFICES ASSUME NEW zone \in ZoneOf(price, isBuy, absolute, distance, swings),
                    IF isBuy THEN zone < price ELSE zone > price
             PROVE  LET e == [zone_price |-> zone,
                              stop_price |-> IF isBuy THEN zone - Policy.stop_buffer_pts
                                             ELSE zone + Policy.stop_buffer_pts] IN
                    /\ IF isBuy THEN e.stop_price < e.zone_price /\ e.zone_price < price
                                ELSE price < e.zone_price /\ e.zone_price < e.stop_price
                    /\ absolute = 0 /\ distance = 0 =>
                         /\ \E i \in DOMAIN hours : e.zone_price \in {hours[i].low, hours[i].high}
                         /\ \A v \in swings : ~Between(e.zone_price, v, price)
  BY DEF ZoneEntryHolds, Derive, swings
<1>4. zone \in Int
  BY <1>1, <1>3 DEF ZoneOf, Nearest
<1>5. ASSUME absolute = 0, distance = 0
      PROVE  /\ zone \in swings
             /\ \A v \in swings : (IF isBuy THEN v < price ELSE v > price)
                                  => IF isBuy THEN v <= zone ELSE zone <= v
  BY <1>5 DEF ZoneOf, Nearest
<1>6. absolute = 0 /\ distance = 0 => \A v \in swings : ~Between(zone, v, price)
  BY <1>1, <1>3, <1>4, <1>5 DEF Between
<1> QED BY <1>1, <1>2, <1>4, <1>5, <1>6

-----------------------------------------------------------------------------
(* What the engine acts on.                                                 *)

\* A gate that passed has put what it puts; until something objects, a gate has
\* passed, was passed over, only advised, or has routed, as it may.
Consented(p) ==
  \/ results[p].status \in {"passed", "skipped", "advisory"}
  \/ /\ results[p] = [status |-> "binding", verdict |-> "route"]
     /\ "route" \in stack[p].verdicts
PutInv ==
  \A p \in DOMAIN results :
    /\ results[p].status = "passed" => stack[p].puts \subseteq derived
    /\ results[p].status = "advisory" => stack[p].advisory
    /\ action \in {"allow", "route"} => Consented(p)

\* What an evaluation does to the values put.
LEMMA EvaluatesPuts ==
  ASSUME TypeOK, NEW verdict \in Verdict, Evaluates(verdict)
  PROVE  /\ derived \subseteq derived'
         /\ verdict = "allow" => gate.puts \subseteq derived'
         /\ verdict = "route" => "route" \in gate.verdicts
BY DEF Evaluates

LEMMA NextPuts == TypeOK /\ OutcomeInv /\ PutInv /\ [Next]_vars => PutInv'
<1> SUFFICES ASSUME TypeOK, OutcomeInv, PutInv, [Next]_vars PROVE PutInv'
  OBVIOUS
<1>0. /\ DOMAIN results = 1..Len(results) /\ Here = Len(results) + 1 /\ Len(results) \in Nat
      /\ gate = stack[Here]
  BY DEF TypeOK, Here, gate
<1>1. ASSUME NEW status \in Status, NEW verdict \in Verdict,
             Running, Result(status, verdict), stack' = stack, derived \subseteq derived',
             status = "passed" => gate.puts \subseteq derived',
             status = "advisory" => gate.advisory,
             action' \in {"allow", "route"} =>
               /\ action \in {"allow", "route"}
               /\ \/ status \in {"passed", "skipped", "advisory"}
                  \/ status = "binding" /\ verdict = "route" /\ "route" \in gate.verdicts
      PROVE  PutInv'
  <2>1. /\ DOMAIN results' = 1..Here
        /\ \A p \in 1..Len(results) : results'[p] = results[p]
        /\ results'[Here] = [status |-> status, verdict |-> verdict]
    BY <1>1, Judged
  <2>2. \A p \in 1..Here : p = Here \/ p \in 1..Len(results)
    BY <1>0
  <2>3. \A p \in 1..Len(results) :
          /\ results'[p].status = "passed" => stack[p].puts \subseteq derived'
          /\ results'[p].status = "advisory" => stack[p].advisory
          /\ action' \in {"allow", "route"} => Consented(p)'
    BY <1>0, <1>1, <2>1 DEF PutInv, Consented
  <2>4. \A p \in {Here} :
          /\ results'[p].status = "passed" => stack[p].puts \subseteq derived'
          /\ results'[p].status = "advisory" => stack[p].advisory
          /\ action' \in {"allow", "route"} => Consented(p)'
    BY <1>0, <1>1, <2>1 DEF Consented
  <2> QED BY <1>1, <2>1, <2>2, <2>3, <2>4 DEF PutInv
<1> USE DEF outcome, Status, Verdict
<1>2. CASE SkipRouted \/ SkipExpensive
  BY <1>1, <1>2 DEF SkipRouted, SkipExpensive
<1>3. CASE Advise
  <2>1. PICK verdict \in Verdict :
          Evaluates(verdict) /\ Result("advisory", verdict)
    BY <1>3 DEF Advise
  <2> QED BY <1>1, <1>3, <2>1, EvaluatesPuts, EvaluatesType DEF Advise
<1>4. CASE Reject
  BY <1>1, <1>4, EvaluatesPuts, EvaluatesType DEF Reject
<1>5. CASE Suppress
  BY <1>1, <1>5, EvaluatesPuts, EvaluatesType DEF Suppress
<1>6. CASE Route
  <2>1. Running /\ bound = 0 /\ action \in {"allow", "route"}
    BY <1>6, EvaluatesType DEF Route, Running, OutcomeInv, TypeOK
  <2> QED BY <1>1, <1>6, <2>1, EvaluatesPuts, EvaluatesType DEF Route
<1>7. CASE Object
  <2>1. PICK verdict \in {"suppress", "route"} :
          Evaluates(verdict) /\ Result("shadow", verdict)
    BY <1>7 DEF Object
  <2>2. action' \notin {"allow", "route"}
    BY <1>7 DEF Object, OutcomeInv
  <2> QED BY <1>1, <2>1, <2>2, EvaluatesPuts, EvaluatesType DEF Object
<1>8. CASE Pass
  BY <1>1, <1>8, EvaluatesPuts, EvaluatesType DEF Pass
<1>9. CASE Return
  BY <1>9 DEF Return, PutInv, Consented
<1>10. CASE UNCHANGED vars
  BY <1>10 DEF vars, PutInv, Consented
<1> QED BY <1>2, <1>3, <1>4, <1>5, <1>6, <1>7, <1>8, <1>9, <1>10 DEF Next

LEMMA PutsKept == Spec => [](Inv /\ PutInv)
<1>1. Init => PutInv
  BY DEF Init, PutInv
<1>2. Inv /\ PutInv /\ [Next]_vars => Inv' /\ PutInv'
  BY NextType, NextOutcome, NextResults, NextPuts DEF Inv
<1> QED BY <1>1, <1>2, InitInv, PTL DEF Spec

\* The gates of the wired stacks whose values the engine acts on: the direction
\* and feed gates, which are always judged and never route, and the target stage.
LEMMA WiredPuts ==
  ASSUME stack \in WiredStacks
  PROVE  /\ Len(stack) = 21
         /\ stack[1] = DirectionGate /\ stack[3] = FeedGate /\ stack[15] = TargetStage
BY DEF WiredStacks, Wired

LEMMA AlwaysJudged ==
  ASSUME NEW g \in {DirectionGate, FeedGate}
  PROVE  g.runsWhenRouted /\ ~g.expensive /\ ~g.advisory /\ "route" \notin g.verdicts
<1>1. /\ Plain.runsWhenRouted = TRUE /\ Plain.expensive = FALSE /\ Plain.advisory = FALSE
      /\ DOMAIN Plain = {"runsWhenRouted", "expensive", "advisory", "verdicts", "needs", "puts"}
  BY DEF Plain
<1>2. CASE g = DirectionGate
  BY <1>1, <1>2 DEF DirectionGate
<1>3. CASE g = FeedGate
  BY <1>1, <1>3 DEF FeedGate
<1> QED BY <1>2, <1>3

LEMMA ActingHolds == Inv /\ PutInv => ActsOnWhatWasPut
<1> SUFFICES ASSUME Inv, PutInv, stack \in WiredStacks, returned
             PROVE  /\ action = "allow" => ExecuteNeeds \subseteq derived
                    /\ action = "route" => ArmReads \subseteq derived
  BY DEF ActsOnWhatWasPut
<1>1. /\ DirectionGate.puts = {"direction", "is_buy"}
      /\ FeedGate.puts = {"mid", "execution_price", "spread_pts"}
      /\ TargetStage.puts = {"sl", "tp_pts", "sl_pts"} /\ ~TargetStage.advisory
  BY DEF DirectionGate, FeedGate, TargetStage, Plain
<1>2. ASSUME action \in {"allow", "route"}
      PROVE  Len(results) = 21 /\ DOMAIN results = 1..21
  <2>1. Len(results) = Len(stack) /\ DOMAIN results = 1..Len(results)
    BY <1>2 DEF Inv, OutcomeInv, TypeOK
  <2> QED BY <2>1, WiredPuts
<1>3. ASSUME action \in {"allow", "route"}, NEW p \in {1, 3}
      PROVE  stack[p].puts \subseteq derived
  <2>1. p \in DOMAIN results /\ stack[p] \in {DirectionGate, FeedGate}
    BY <1>2, <1>3, WiredPuts
  <2>2. results[p].status # "skipped"
    BY <2>1, AlwaysJudged DEF Inv, ResultsInv, SkipsAreDeclared
  <2> QED BY <1>3, <2>1, <2>2, AlwaysJudged DEF PutInv, Consented
<1>4. action = "allow" => TargetStage.puts \subseteq derived
  <2>1. action = "allow" => 15 \in DOMAIN results
    BY <1>2
  <2> QED BY <1>1, <2>1, WiredPuts DEF Inv, ResultsInv, PutInv
<1>5. action \in {"allow", "route"} =>
        DirectionGate.puts \subseteq derived /\ FeedGate.puts \subseteq derived
  BY <1>3, WiredPuts
<1> QED BY <1>1, <1>4, <1>5 DEF ExecuteNeeds, ArmReads

\* Whatever gates were skipped, raised or objected on the way, the engine acts only
\* on values that were put, and what it acts on is where an entry belongs.
THEOREM ActsInPlace == Spec => []EntriesHold
<1>1. Inv /\ PutInv => EntriesHold
  BY ActingHolds, MarketEntriesInPlace, ZoneEntriesInPlace DEF EntriesHold
<1> QED BY <1>1, PutsKept, PTL
=============================================================================
