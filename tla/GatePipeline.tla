---------------------------- MODULE GatePipeline ----------------------------
(***************************************************************************)
(* GatePipeline.run of zcastor/gates/pipeline.py: one signal's way through  *)
(* the gate stack, one gate a step.  A gate is what the pipeline knows of   *)
(* it: its declared flags, the verdicts its evaluate can return, the        *)
(* derived values it reads with need() and the values an allow or a route   *)
(* of it has put.  Gates are identified by their position in the stack,     *)
(* since _validate keeps their names distinct.                              *)
(***************************************************************************)
EXTENDS Naturals, Sequences

CONSTANTS Stacks,  \* the stacks to run, each a sequence of gates
          Value    \* derived values

Verdict == {"allow", "reject", "suppress", "route"}
Status == {"binding", "shadow", "passed", "skipped", "advisory"}

Gate == [runsWhenRouted : BOOLEAN, expensive : BOOLEAN, advisory : BOOLEAN,
         verdicts : SUBSET Verdict, needs : SUBSET Value, puts : SUBSET Value]

ASSUME StacksAssumption == Stacks \subseteq Seq(Gate)

VARIABLES
  stack,      \* self.gates
  derived,    \* ctx.derived: the values put so far
  routed, bound,               \* run's locals; bound is a position, 0 for None
  action, reason, routeKind,   \* the trace; reason and routeKind are the
                               \* positions of the gates that set them, or 0
  results,    \* trace.results: one per gate so far
  returned,   \* run has returned
  raised      \* History: the gates whose evaluate raised

outcome == <<action, reason, routeKind>>
vars == <<stack, derived, routed, bound, outcome, results, returned, raised>>

Init ==
  /\ stack \in Stacks
  /\ derived = {} /\ routed = FALSE /\ bound = 0
  /\ action = "allow" /\ reason = 0 /\ routeKind = 0
  /\ results = <<>> /\ returned = FALSE /\ raised = {}

Here == Len(results) + 1
gate == stack[Here]
Running == ~returned /\ Here <= Len(stack)

PassedOver == routed /\ ~gate.runsWhenRouted
TooLate == bound # 0 /\ gate.expensive

Result(status, verdict) ==
  results' = Append(results, [status |-> status, verdict |-> verdict])

SkipRouted ==
  /\ Running /\ PassedOver
  /\ Result("skipped", "allow")
  /\ UNCHANGED <<stack, derived, routed, bound, outcome, returned, raised>>

SkipExpensive ==
  /\ Running /\ ~PassedOver /\ TooLate
  /\ Result("skipped", "allow")
  /\ UNCHANGED <<stack, derived, routed, bound, outcome, returned, raised>>

\* Mutant of Evaluates: a gate that raises counts as an allow.
EvaluatesOpen(verdict) ==
  /\ Running /\ ~PassedOver /\ ~TooLate
  /\ \/ /\ gate.needs \subseteq derived /\ verdict \in gate.verdicts
        /\ derived' = IF verdict \in {"allow", "route"}
                      THEN derived \union gate.puts ELSE derived
        /\ UNCHANGED raised
     \/ /\ verdict = "allow" /\ raised' = raised \union {Here}
        /\ UNCHANGED derived
  /\ UNCHANGED stack

\* _evaluate: a gate that raises, or that finds a value it needs missing,
\* suppresses.  What a refusing gate had put before is nothing a gate needs.
Evaluates(verdict) ==
  /\ Running /\ ~PassedOver /\ ~TooLate
  /\ \/ /\ gate.needs \subseteq derived /\ verdict \in gate.verdicts
        /\ derived' = IF verdict \in {"allow", "route"}
                      THEN derived \union gate.puts ELSE derived
        /\ UNCHANGED raised
     \/ /\ verdict = "suppress" /\ raised' = raised \union {Here}
        /\ UNCHANGED derived
  /\ UNCHANGED stack

Advise ==
  \E verdict \in Verdict :
    /\ Evaluates(verdict) /\ gate.advisory
    /\ Result("advisory", verdict)
    /\ UNCHANGED <<routed, bound, outcome, returned>>

Reject ==
  /\ Evaluates("reject") /\ ~gate.advisory
  /\ Result("binding", "reject")
  /\ action' = "reject" /\ reason' = Here
  /\ returned' = TRUE
  /\ UNCHANGED <<routed, bound, routeKind>>

\* Mutants of Suppress: the route in force stays in force; the verdict is
\* recorded and nothing binds.
SuppressKeepsRoute ==
  /\ Evaluates("suppress") /\ ~gate.advisory /\ bound = 0
  /\ bound' = Here
  /\ action' = "suppress" /\ reason' = Here /\ routeKind' = 0
  /\ Result("binding", "suppress")
  /\ UNCHANGED <<routed, returned>>
SuppressOnlyRecords ==
  /\ Evaluates("suppress") /\ ~gate.advisory /\ bound = 0
  /\ Result("binding", "suppress")
  /\ UNCHANGED <<routed, bound, outcome, returned>>

Suppress ==
  /\ Evaluates("suppress") /\ ~gate.advisory /\ bound = 0
  /\ bound' = Here /\ routed' = FALSE
  /\ action' = "suppress" /\ reason' = Here /\ routeKind' = 0
  /\ Result("binding", "suppress")
  /\ UNCHANGED returned

\* Mutants of Route: the test of bound is missing; the route kind is taken from
\* the gate after.
RouteAlways ==
  /\ Evaluates("route") /\ ~gate.advisory
  /\ routed' = TRUE
  /\ action' = "route" /\ reason' = Here /\ routeKind' = Here
  /\ Result("binding", "route")
  /\ UNCHANGED <<bound, returned>>
RouteOffByOne ==
  /\ Evaluates("route") /\ ~gate.advisory /\ bound = 0
  /\ routed' = TRUE
  /\ action' = "route" /\ reason' = Here /\ routeKind' = Here + 1
  /\ Result("binding", "route")
  /\ UNCHANGED <<bound, returned>>

Route ==
  /\ Evaluates("route") /\ ~gate.advisory /\ bound = 0
  /\ routed' = TRUE
  /\ action' = "route" /\ reason' = Here /\ routeKind' = Here
  /\ Result("binding", "route")
  /\ UNCHANGED <<bound, returned>>

\* A suppression or a route after something has bound.
Object ==
  \E verdict \in {"suppress", "route"} :
    /\ Evaluates(verdict) /\ ~gate.advisory /\ bound # 0
    /\ Result("shadow", verdict)
    /\ UNCHANGED <<routed, bound, outcome, returned>>

Pass ==
  /\ Evaluates("allow") /\ ~gate.advisory
  /\ Result("passed", "allow")
  /\ UNCHANGED <<routed, bound, outcome, returned>>

Return ==
  /\ ~returned /\ Here > Len(stack)
  /\ returned' = TRUE
  /\ UNCHANGED <<stack, derived, routed, bound, outcome, results, raised>>

Next == SkipRouted \/ SkipExpensive \/ Advise \/ Reject \/ Suppress \/ Route
        \/ Object \/ Pass \/ Return

Spec == Init /\ [][Next]_vars

-----------------------------------------------------------------------------
(* Properties.                                                              *)

TypeOK ==
  /\ stack \in Seq(Gate) /\ derived \subseteq Value
  /\ routed \in BOOLEAN /\ returned \in BOOLEAN
  /\ results \in Seq([status : Status, verdict : Verdict])
  /\ Len(results) <= Len(stack)
  /\ bound \in 0..Len(results) /\ reason \in 0..Len(results)
  /\ routeKind \in 0..Len(results)
  /\ action \in Verdict /\ raised \subseteq 1..Len(results)

\* An order is sent only for a signal that every gate of the stack judged, and
\* that no gate but an advisory one objected to; nothing was skipped.
AllowedIsUnanimous ==
  returned /\ action = "allow" =>
    /\ Len(results) = Len(stack)
    /\ \A p \in 1..Len(stack) :
         IF stack[p].advisory THEN results[p].status = "advisory"
         ELSE results[p].status = "passed"

\* pipeline.py: "A gate that raises ... must not be read as consent".  Neither
\* an order nor an armed watcher entry comes out of a run in which a gate that
\* can bind raised.
FailsClosed ==
  returned /\ (\E p \in raised : ~stack[p].advisory)
    => action \in {"suppress", "reject"}

\* A gate is passed over only for a route in force when its turn came, or as an
\* expensive gate after a suppression; and such a gate never ran.
InForce(p) ==
  /\ \E q \in 1..(p - 1) : results[q] = [status |-> "binding", verdict |-> "route"]
  /\ ~ \E q \in 1..(p - 1) :
         results[q] = [status |-> "binding", verdict |-> "suppress"]
Refused(p) ==
  \E q \in 1..(p - 1) : results[q] = [status |-> "binding", verdict |-> "suppress"]
SkipsAreDeclared ==
  \A p \in DOMAIN results :
    results[p].status = "skipped" <=>
      \/ InForce(p) /\ ~stack[p].runsWhenRouted
      \/ Refused(p) /\ stack[p].expensive

\* pipeline.py: "SUPPRESS binds the outcome" and overrides a route: after the
\* first suppression nothing routes, and only a rejection changes the outcome.
SuppressionStands ==
  [][action = "suppress" => action' = "reject" \/ UNCHANGED outcome]_vars

\* base.py: a value need() does not find is an error of stage ordering.  As long
\* as no gate raises for a reason of its own, none misses a value it needs.
NeedsAreMet ==
  Running /\ ~PassedOver /\ ~TooLate /\ raised = {} => gate.needs \subseteq derived
=============================================================================
