------------------------------ MODULE PlanDag ------------------------------
(***************************************************************************)
(* The checks a plan graph passes before it runs, and its layers.  The     *)
(* kernel (kernel/transition/src/dag.ts) and the orchestrator              *)
(* (runtime/orchestrator/src/dag.ts) hold the same two algorithms: a depth *)
(* first search that colours nodes, and the layering by satisfied          *)
(* dependencies.  The search is modelled step by step, in every order the  *)
(* lists of nodes and of dependencies may have.                            *)
(***************************************************************************)
EXTENDS Naturals, Sequences, SequencesExt

CONSTANTS
  PlanNodes, \* ids of the nodes of the plan
  Unknown    \* an id no node of the plan has

VARIABLES
  planDeps, \* node.deps
  colour,   \* detectCycle's state: "new", "visiting", "visited"
  path,     \* the calls of visit() that have not returned
  verdict,  \* "checking"; then "unknown", "cycle", "valid", "stuck" or "done"
  planLayers

planVars == <<planDeps, colour, path, verdict, planLayers>>

\* validateDag, up to detectCycle: an unknown dependency is refused.
PlanInit ==
  /\ planDeps \in [PlanNodes -> SUBSET (PlanNodes \cup {Unknown})]
  /\ colour = [n \in PlanNodes |-> "new"] /\ path = << >> /\ planLayers = << >>
  /\ verdict = IF \E n \in PlanNodes : Unknown \in planDeps[n] THEN "unknown" ELSE "checking"

Top == path[Len(path)]

\* visit(n) of a new node, from the outer loop or for a dependency of the top.
Visit(n) ==
  /\ verdict = "checking" /\ colour[n] = "new"
  /\ path # << >> => n \in planDeps[Top]
  /\ colour' = [colour EXCEPT ![n] = "visiting"]
  /\ path' = Append(path, n)
  /\ UNCHANGED <<planDeps, verdict, planLayers>>

\* A variant that takes any node seen before for a cycle.
MeetSeen ==
  /\ verdict = "checking" /\ path # << >>
  /\ \E d \in planDeps[Top] : colour[d] # "new"
  /\ verdict' = "cycle"
  /\ UNCHANGED <<planDeps, colour, path, planLayers>>

\* visit() of a dependency that is being visited: a cycle.
Meet ==
  /\ verdict = "checking" /\ path # << >>
  /\ \E d \in planDeps[Top] : colour[d] = "visiting"
  /\ verdict' = "cycle"
  /\ UNCHANGED <<planDeps, colour, path, planLayers>>

\* Every dependency returned false.
Return ==
  /\ verdict = "checking" /\ path # << >>
  /\ \A d \in planDeps[Top] : colour[d] = "visited"
  /\ colour' = [colour EXCEPT ![Top] = "visited"]
  /\ path' = Front(path)
  /\ UNCHANGED <<planDeps, verdict, planLayers>>

NoCycle ==
  /\ verdict = "checking" /\ \A n \in PlanNodes : colour[n] = "visited"
  /\ path = << >>
  /\ verdict' = "valid"
  /\ UNCHANGED <<planDeps, colour, path, planLayers>>

Satisfied == UNION {planLayers[i] : i \in DOMAIN planLayers}

\* The loop of topologicalLayers: the remaining nodes whose dependencies are
\* all in earlier layers; none is an error.
NextLayer == {n \in PlanNodes \ Satisfied : planDeps[n] \subseteq Satisfied}

Layer ==
  /\ verdict = "valid"
  /\ IF Satisfied = PlanNodes THEN verdict' = "done" /\ UNCHANGED planLayers
     ELSE IF NextLayer = {} THEN verdict' = "stuck" /\ UNCHANGED planLayers
     ELSE planLayers' = Append(planLayers, NextLayer) /\ UNCHANGED verdict
  /\ UNCHANGED <<planDeps, colour, path>>

PlanNext == (\E n \in PlanNodes : Visit(n)) \/ Meet \/ Return \/ NoCycle \/ Layer

PlanSpec == PlanInit /\ [][PlanNext]_planVars

-----------------------------------------------------------------------------
\* A cycle, by its own definition: nodes that each depend on one of them.
HasCycle == \E S \in SUBSET PlanNodes : S # {} /\ \A n \in S : planDeps[n] \cap S # {}

\* The layer of n
LayerOf(n) == CHOOSE i \in DOMAIN planLayers : n \in planLayers[i]

\* The search refuses exactly the cyclic plans whatever the order it walks
\* them in; a plan it accepts is layered completely, the layering never runs
\* into its own error, every node comes after all it depends on and no layer
\* later than it must (dag.ts:14-81).
PlanSound ==
  /\ verdict = "cycle" => HasCycle
  /\ verdict \in {"valid", "done"} => ~HasCycle
  /\ verdict # "stuck"
  /\ verdict = "done" =>
       \A n \in PlanNodes :
         /\ \A d \in planDeps[n] : LayerOf(d) < LayerOf(n)
         /\ LayerOf(n) = 1 \/ \E d \in planDeps[n] : LayerOf(d) = LayerOf(n) - 1
         /\ \A i \in DOMAIN planLayers : n \in planLayers[i] => i = LayerOf(n)
=============================================================================
