--------------------------- MODULE ServiceProofs ---------------------------
(***************************************************************************)
(* Five services for every value of their constants: the check and the     *)
(* layering of a plan is sound for every set of nodes and every order the  *)
(* search walks them in; the external run against GitHub keeps what it     *)
(* confirmed and only passes with work of its own, for every number of     *)
(* clients and of requests that fail; the console shows nothing of a       *)
(* finished run but what the worker's table holds, in whatever order the   *)
(* answers come; the circuit breaker's count and its state agree for every *)
(* threshold, cooldown and number of callers; and the model gateway asks   *)
(* every usable model in order before it gives up.                         *)
(***************************************************************************)
EXTENDS PlanDag, GithubE2E, Console, CircuitBreaker, ModelGateway, Induction,
        SequenceTheorems, TLAPS

-----------------------------------------------------------------------------
(***************************************************************************)
(* The plan graph.                                                         *)
(***************************************************************************)

\* Nodes that each depend on one of them.
Cyclic(S) == S \subseteq PlanNodes /\ \A n \in S : planDeps[n] \cap S # {}

PlanTypes ==
  /\ planDeps \in [PlanNodes -> SUBSET (PlanNodes \cup {Unknown})]
  /\ verdict # "unknown" => planDeps \in [PlanNodes -> SUBSET PlanNodes]
  /\ colour \in [PlanNodes -> {"new", "visiting", "visited"}]
  /\ path \in Seq(PlanNodes)
  /\ verdict \in {"unknown", "checking", "cycle", "valid", "done"}
  /\ planLayers \in Seq(SUBSET PlanNodes)

\* The calls under way are the nodes being visited, each once, and each for a
\* dependency of the one before.
PathIsCalls ==
  /\ \A i, j \in 1..Len(path) : path[i] = path[j] => i = j
  /\ \A i \in 1..Len(path) : colour[path[i]] = "visiting"
  /\ \A n \in PlanNodes : colour[n] = "visiting" => \E i \in 1..Len(path) : path[i] = n
  /\ \A i \in 2..Len(path) : path[i] \in planDeps[path[i - 1]]

\* A node that was left behind depends on visited nodes alone, and is on no
\* cycle.
VisitedIsFree ==
  verdict # "unknown" =>
    /\ \A n \in PlanNodes : colour[n] = "visited" => \A d \in planDeps[n] : colour[d] = "visited"
    /\ \A S \in SUBSET PlanNodes : Cyclic(S) => \A n \in S : colour[n] # "visited"

VerdictsRight ==
  /\ verdict = "cycle" => HasCycle
  /\ verdict \in {"valid", "done"} => ~HasCycle
  /\ planLayers # << >> => verdict \in {"valid", "done"}
  /\ verdict = "done" => Satisfied = PlanNodes

\* The layers are disjoint; what a node of a layer depends on is in earlier
\* ones, and but for the first layer in the one before; what is in no layer
\* yet waited for the last of them, or for none.
LayersTight ==
  /\ \A i, j \in 1..Len(planLayers) : \A n \in planLayers[i] : n \in planLayers[j] => i = j
  /\ \A i \in 1..Len(planLayers) : \A n \in planLayers[i] :
       /\ \A d \in planDeps[n] : \E j \in 1..Len(planLayers) : j < i /\ d \in planLayers[j]
       /\ i = 1 \/ \E d \in planDeps[n] : d \in planLayers[i - 1]
  /\ planLayers # << >> =>
       \A n \in PlanNodes \ Satisfied : \E d \in planDeps[n] :
         \A j \in 1..Len(planLayers) : d \in planLayers[j] => j = Len(planLayers)

PInv == PlanTypes /\ PathIsCalls /\ VisitedIsFree /\ VerdictsRight /\ LayersTight

\* A list without its last element.
LEMMA FrontOfSeq ==
  ASSUME NEW X, NEW s \in Seq(X), s # << >>
  PROVE  /\ Front(s) \in Seq(X) /\ Len(Front(s)) = Len(s) - 1
         /\ \A i \in 1..(Len(s) - 1) : Front(s)[i] = s[i]
         /\ Len(s) \in Nat \ {0} /\ s[Len(s)] \in X
<1> DEFINE m == Len(s) - 1
<1>1. Len(s) \in Nat \ {0} /\ s[Len(s)] \in X /\ \A i \in 1..Len(s) : s[i] \in X
  OBVIOUS
<1>2. m \in Nat /\ m + 1 = Len(s) /\ \A i \in 1..m : i \in 1..Len(s)
  BY ONLY <1>1
<1>3. Front(s) = SubSeq(s, 1, m)
  BY DEF Front
<1> HIDE DEF m
<1>4. /\ SubSeq(s, 1, m) \in Seq(X)
      /\ Len(SubSeq(s, 1, m)) = IF 1 <= m THEN m - 1 + 1 ELSE 0
      /\ \A i \in 1..(m - 1 + 1) : SubSeq(s, 1, m)[i] = s[1 + i - 1]
  <2>1. m \in Int /\ 1 \in Int /\ \A i \in 1..m : s[i] \in X
    BY ONLY <1>1, <1>2
  <2> QED BY ONLY <2>1, SubSeqProperties
<1>5. m - 1 + 1 = m /\ (IF 1 <= m THEN m - 1 + 1 ELSE 0) = m /\ \A i \in 1..m : 1 + i - 1 = i
  BY ONLY <1>2
<1>6. Len(s) - 1 = m
  BY DEF m
<1> QED BY ONLY <1>1, <1>3, <1>4, <1>5, <1>6

\* A plan that was only read has no call under way and no layer.
LEMMA InitPInv == PlanInit => PInv
<1> SUFFICES ASSUME PlanInit PROVE PInv
  OBVIOUS
<1> USE DEF PlanInit
<1>1. PlanTypes
  <2>1. ASSUME verdict # "unknown" PROVE planDeps \in [PlanNodes -> SUBSET PlanNodes]
    <3>1. \A n \in PlanNodes : Unknown \notin planDeps[n]
      BY <2>1
    <3> QED BY <3>1
  <2> QED BY <2>1 DEF PlanTypes
<1>2. PathIsCalls
  BY DEF PathIsCalls
<1>3. VisitedIsFree
  BY DEF VisitedIsFree, Cyclic
<1>4. VerdictsRight
  BY DEF VerdictsRight
<1>5. LayersTight
  BY DEF LayersTight
<1> QED BY <1>1, <1>2, <1>3, <1>4, <1>5 DEF PInv

\* The innermost call is of a node that is being visited.
LEMMA TopOfPath ==
  ASSUME PInv, path # << >>
  PROVE  /\ Len(path) \in Nat \ {0} /\ Top \in PlanNodes /\ colour[Top] = "visiting"
         /\ Top = path[Len(path)]
<1>1. path \in Seq(PlanNodes)
  BY DEF PInv, PlanTypes
<1>2. Len(path) \in Nat \ {0} /\ path[Len(path)] \in PlanNodes
  BY <1>1
<1> QED BY <1>2 DEF PInv, PathIsCalls, Top

\* visit() of a new node: one more call, of a dependency of the one before.
LEMMA StepVisit ==
  ASSUME PInv, NEW n \in PlanNodes, Visit(n)
  PROVE  PInv'
<1> USE DEF Visit
<1>1. path \in Seq(PlanNodes) /\ Len(path) \in Nat /\ \A i \in 1..Len(path) : path[i] \in PlanNodes
  BY DEF PInv, PlanTypes
<1>2. /\ path' \in Seq(PlanNodes) /\ Len(path') = Len(path) + 1
      /\ path'[Len(path) + 1] = n /\ \A i \in 1..Len(path) : path'[i] = path[i]
  BY <1>1
<1>3. colour \in [PlanNodes -> {"new", "visiting", "visited"}] /\ colour[n] = "new"
  BY DEF PInv, PlanTypes
<1>4. colour'[n] = "visiting" /\ \A m \in PlanNodes \ {n} : colour'[m] = colour[m]
  BY <1>3
<1>5. PlanTypes'
  BY <1>2, <1>3 DEF PInv, PlanTypes
<1>6. \A i \in 1..Len(path) : path[i] # n
  BY <1>3 DEF PInv, PathIsCalls
<1>7. \A i \in 1..(Len(path) + 1) : i \in 1..Len(path) \/ i = Len(path) + 1
  BY <1>1
<1>8. PathIsCalls'
  <2>1. \A i, j \in 1..Len(path') : path'[i] = path'[j] => i = j
    BY <1>2, <1>6, <1>7 DEF PInv, PathIsCalls
  <2>2. \A i \in 1..Len(path') : colour'[path'[i]] = "visiting"
    BY <1>1, <1>2, <1>4, <1>6, <1>7 DEF PInv, PathIsCalls
  <2>3. ASSUME NEW m \in PlanNodes, colour'[m] = "visiting" PROVE \E i \in 1..Len(path') : path'[i] = m
    <3>1. CASE m = n
      <4>1. Len(path) + 1 \in 1..Len(path')
        BY ONLY <1>1, <1>2
      <4> QED BY <4>1, <3>1, <1>2
    <3>2. CASE m # n
      <4>1. PICK i \in 1..Len(path) : path[i] = m
        BY <2>3, <3>2, <1>4 DEF PInv, PathIsCalls
      <4>2. i \in 1..Len(path') /\ path'[i] = m
        BY <4>1, <1>1, <1>2
      <4> QED BY <4>2
    <3> QED BY <3>1, <3>2
  <2>4. ASSUME NEW i \in 2..Len(path') PROVE path'[i] \in planDeps'[path'[i - 1]]
    <3>1. CASE i = Len(path) + 1
      <4>1. Len(path) \in 1..Len(path) /\ i - 1 = Len(path) /\ path # << >>
        BY ONLY <1>1, <1>2, <2>4, <3>1
      <4>2. n \in planDeps[path[Len(path)]]
        BY <4>1 DEF Top
      <4> QED BY <4>1, <4>2, <3>1, <1>2
    <3>2. CASE i # Len(path) + 1
      <4>1. i \in 2..Len(path) /\ i \in 1..Len(path) /\ i - 1 \in 1..Len(path)
        BY ONLY <1>1, <1>2, <2>4, <3>2
      <4> QED BY <4>1, <1>2 DEF PInv, PathIsCalls
    <3> QED BY <3>1, <3>2
  <2> QED BY <2>1, <2>2, <2>3, <2>4 DEF PathIsCalls
<1>9. VisitedIsFree'
  <2>1. planDeps \in [PlanNodes -> SUBSET PlanNodes]
    BY DEF PInv, PlanTypes
  <2>2. \A m \in PlanNodes : colour'[m] = "visited" <=> colour[m] = "visited"
    BY <1>3, <1>4
  <2>3. \A S : Cyclic(S)' <=> Cyclic(S)
    BY DEF Cyclic
  <2> QED BY <2>1, <2>2, <2>3 DEF PInv, VisitedIsFree, Cyclic
<1>10. VerdictsRight' /\ LayersTight'
  BY DEF PInv, VerdictsRight, LayersTight, HasCycle, Satisfied
<1> QED BY <1>5, <1>8, <1>9, <1>10 DEF PInv

\* A dependency that is being visited closes a cycle: the calls from its own on.
LEMMA StepMeet ==
  ASSUME PInv, Meet
  PROVE  PInv'
<1> USE DEF Meet
<1>1. path \in Seq(PlanNodes) /\ Len(path) \in Nat /\ \A i \in 1..Len(path) : path[i] \in PlanNodes
  BY DEF PInv, PlanTypes
<1>2. PICK d \in planDeps[Top] : colour[d] = "visiting"
  OBVIOUS
<1>3. Len(path) \in Nat \ {0} /\ Top \in PlanNodes /\ Top = path[Len(path)]
  BY TopOfPath
<1>4. d \in PlanNodes
  BY <1>3 DEF PInv, PlanTypes
<1>5. PICK k \in 1..Len(path) : path[k] = d
  BY <1>2, <1>4 DEF PInv, PathIsCalls
<1> DEFINE S == {path[i] : i \in k..Len(path)}
<1>6. S \subseteq PlanNodes /\ d \in S
  BY <1>1, <1>5
<1>7. ASSUME NEW n \in S PROVE planDeps[n] \cap S # {}
  <2>1. PICK i \in k..Len(path) : n = path[i]
    OBVIOUS
  <2>2. CASE i = Len(path)
    BY <2>1, <2>2, <1>2, <1>3, <1>6
  <2>3. CASE i # Len(path)
    <3>1. i + 1 \in 2..Len(path) /\ i + 1 \in k..Len(path) /\ (i + 1) - 1 = i
      BY ONLY <2>1, <2>3, <1>1, <1>5
    <3>2. path[i + 1] \in planDeps[path[(i + 1) - 1]]
      BY <3>1 DEF PInv, PathIsCalls
    <3> QED BY <3>1, <3>2, <2>1
  <2> QED BY <2>2, <2>3
<1>8. HasCycle
  BY <1>6, <1>7 DEF HasCycle
<1>9. PlanTypes' /\ PathIsCalls' /\ VisitedIsFree'
  BY DEF PInv, PlanTypes, PathIsCalls, VisitedIsFree, Cyclic
<1>10. VerdictsRight' /\ LayersTight'
  <2>1. HasCycle' <=> HasCycle
    BY DEF HasCycle
  <2> QED BY <1>8, <2>1 DEF PInv, VerdictsRight, LayersTight, Satisfied
<1> QED BY <1>9, <1>10 DEF PInv

\* A call returns when all its dependencies did: a cycle through its node
\* would hold one of them.
LEMMA StepReturn ==
  ASSUME PInv, Return
  PROVE  PInv'
<1> USE DEF Return
<1>1. path \in Seq(PlanNodes) /\ Len(path) \in Nat /\ \A i \in 1..Len(path) : path[i] \in PlanNodes
  BY DEF PInv, PlanTypes
<1>2. Len(path) \in Nat \ {0} /\ Top \in PlanNodes /\ Top = path[Len(path)]
  BY TopOfPath
<1>3. /\ path' \in Seq(PlanNodes) /\ Len(path') = Len(path) - 1
      /\ \A i \in 1..(Len(path) - 1) : path'[i] = path[i]
  BY <1>1, FrontOfSeq
<1>4. colour \in [PlanNodes -> {"new", "visiting", "visited"}]
  BY DEF PInv, PlanTypes
<1>5. colour'[Top] = "visited" /\ \A m \in PlanNodes \ {Top} : colour'[m] = colour[m]
  BY <1>2, <1>4
<1>6. PlanTypes'
  BY <1>3, <1>4 DEF PInv, PlanTypes
<1>7. \A i \in 1..(Len(path) - 1) : i \in 1..Len(path) /\ i # Len(path) /\ path[i] # Top
  <2>1. \A i \in 1..(Len(path) - 1) : i \in 1..Len(path) /\ i # Len(path)
    BY ONLY <1>2
  <2>2. Len(path) \in 1..Len(path)
    BY ONLY <1>2
  <2> QED BY <2>1, <2>2, <1>2 DEF PInv, PathIsCalls
<1>8. PathIsCalls'
  <2>1. \A i, j \in 1..Len(path') : path'[i] = path'[j] => i = j
    <3>1. \A i, j \in 1..Len(path) : path[i] = path[j] => i = j
      BY DEF PInv, PathIsCalls
    <3> QED BY ONLY <3>1, <1>3, <1>7
  <2>2. \A i \in 1..Len(path') : colour'[path'[i]] = "visiting"
    BY <1>1, <1>3, <1>5, <1>7 DEF PInv, PathIsCalls
  <2>3. ASSUME NEW m \in PlanNodes, colour'[m] = "visiting" PROVE \E i \in 1..Len(path') : path'[i] = m
    <3>1. m # Top /\ colour[m] = "visiting"
      BY <2>3, <1>5
    <3>2. PICK i \in 1..Len(path) : path[i] = m
      BY <3>1 DEF PInv, PathIsCalls
    <3>3. i # Len(path)
      BY <3>1, <3>2, <1>2
    <3>4. i \in 1..(Len(path) - 1)
      BY ONLY <3>2, <3>3, <1>2
    <3> QED BY <3>2, <3>4, <1>3
  <2>4. \A i \in 2..Len(path') : path'[i] \in planDeps'[path'[i - 1]]
    <3>1. \A i \in 2..(Len(path) - 1) : /\ i \in 1..(Len(path) - 1) /\ i - 1 \in 1..(Len(path) - 1)
                                       /\ i \in 2..Len(path)
      BY ONLY <1>2
    <3> QED BY <3>1, <1>3 DEF PInv, PathIsCalls
  <2> QED BY <2>1, <2>2, <2>3, <2>4 DEF PathIsCalls
<1>9. VisitedIsFree'
  <2>1. planDeps \in [PlanNodes -> SUBSET PlanNodes]
    BY DEF PInv, PlanTypes
  <2>2. \A S : Cyclic(S)' <=> Cyclic(S)
    BY DEF Cyclic
  <2>3. \A m \in PlanNodes : colour'[m] = "visited" <=> colour[m] = "visited" \/ m = Top
    BY <1>2, <1>4, <1>5
  <2>4. \A m \in PlanNodes : colour'[m] = "visited" => \A d \in planDeps[m] : colour'[d] = "visited"
    BY <2>1, <2>3, <1>2 DEF PInv, VisitedIsFree
  <2>5. \A S \in SUBSET PlanNodes : Cyclic(S) => Top \notin S
    BY <1>2 DEF Cyclic, PInv, VisitedIsFree
  <2>6. \A S \in SUBSET PlanNodes : Cyclic(S) => \A n \in S : colour'[n] # "visited"
    BY <2>3, <2>5 DEF PInv, VisitedIsFree
  <2> QED BY <2>2, <2>4, <2>6 DEF VisitedIsFree
<1>10. VerdictsRight' /\ LayersTight'
  BY DEF PInv, VerdictsRight, LayersTight, HasCycle, Satisfied
<1> QED BY <1>6, <1>8, <1>9, <1>10 DEF PInv

\* When every node is visited there is no node a cycle could go through.
LEMMA StepNoCycle ==
  ASSUME PInv, NoCycle
  PROVE  PInv'
<1> USE DEF NoCycle
<1>1. ~HasCycle
  BY DEF PInv, VisitedIsFree, HasCycle, Cyclic
<1>2. PlanTypes' /\ PathIsCalls' /\ VisitedIsFree'
  BY DEF PInv, PlanTypes, PathIsCalls, VisitedIsFree, Cyclic
<1>3. VerdictsRight' /\ LayersTight'
  <2>1. HasCycle' <=> HasCycle
    BY DEF HasCycle
  <2> QED BY <1>1, <2>1 DEF PInv, VerdictsRight, LayersTight, Satisfied
<1> QED BY <1>2, <1>3 DEF PInv

\* The nodes of the layers are those of the layers before, and of the new one.
LEMMA SatisfiedGrows ==
  ASSUME planLayers \in Seq(SUBSET PlanNodes), NEW S \in SUBSET PlanNodes,
         planLayers' = Append(planLayers, S)
  PROVE  /\ planLayers' \in Seq(SUBSET PlanNodes) /\ Len(planLayers') = Len(planLayers) + 1
         /\ Len(planLayers) \in Nat
         /\ \A i \in 1..Len(planLayers) : planLayers'[i] = planLayers[i]
         /\ planLayers'[Len(planLayers) + 1] = S
         /\ Satisfied' = Satisfied \cup S
<1>1. /\ planLayers' \in Seq(SUBSET PlanNodes) /\ Len(planLayers') = Len(planLayers) + 1
      /\ Len(planLayers) \in Nat
      /\ \A i \in 1..Len(planLayers) : planLayers'[i] = planLayers[i]
      /\ planLayers'[Len(planLayers) + 1] = S
  OBVIOUS
<1>2. DOMAIN planLayers = 1..Len(planLayers) /\ DOMAIN planLayers' = 1..Len(planLayers')
  BY <1>1
<1>3. 1..Len(planLayers') = (1..Len(planLayers)) \cup {Len(planLayers) + 1}
  BY ONLY <1>1
<1>4. Satisfied' = Satisfied \cup S
  BY ONLY <1>1, <1>2, <1>3 DEF Satisfied
<1> QED BY <1>1, <1>4

\* A round of the layering: every node is in a layer, or the nodes left form a
\* cycle, or the next layer takes those that wait for no other.
LEMMA StepLayer ==
  ASSUME PInv, Layer
  PROVE  PInv'
<1> DEFINE k == Len(planLayers)
<1> USE DEF Layer
<1>1. planLayers \in Seq(SUBSET PlanNodes) /\ k \in Nat /\ DOMAIN planLayers = 1..k
  BY DEF PInv, PlanTypes
<1>2. planDeps \in [PlanNodes -> SUBSET PlanNodes]
  BY DEF PInv, PlanTypes
<1>3. ~HasCycle /\ (HasCycle' <=> HasCycle)
  BY DEF PInv, VerdictsRight, HasCycle
<1>4. PathIsCalls'
  BY DEF PInv, PathIsCalls
<1>5. verdict' # "unknown" /\ VisitedIsFree'
  BY DEF PInv, VisitedIsFree, Cyclic
<1>6. Satisfied \subseteq PlanNodes /\ \A d : d \in Satisfied <=> \E j \in 1..k : d \in planLayers[j]
  BY <1>1 DEF Satisfied
<1>7. CASE Satisfied = PlanNodes
  <2>1. verdict' = "done" /\ planLayers' = planLayers /\ Satisfied' = Satisfied
    BY <1>7 DEF Satisfied
  <2>2. PlanTypes'
    BY <2>1 DEF PInv, PlanTypes
  <2>3. VerdictsRight'
    BY <2>1, <1>3, <1>7 DEF VerdictsRight
  <2>4. LayersTight'
    BY <2>1 DEF PInv, LayersTight
  <2> QED BY <2>2, <2>3, <2>4, <1>4, <1>5 DEF PInv
<1>8. CASE Satisfied # PlanNodes /\ NextLayer = {}
  <2> DEFINE S == PlanNodes \ Satisfied
  <2>1. S # {} /\ S \in SUBSET PlanNodes
    BY <1>6, <1>8
  <2>2. \A n \in S : planDeps[n] \cap S # {}
    BY <1>2, <1>8 DEF NextLayer
  <2>3. HasCycle
    BY <2>1, <2>2 DEF HasCycle
  <2> QED BY <2>3, <1>3
<1>9. CASE Satisfied # PlanNodes /\ NextLayer # {}
  <2>1. NextLayer \in SUBSET PlanNodes /\ planLayers' = Append(planLayers, NextLayer)
        /\ verdict' = verdict /\ verdict = "valid" /\ planDeps' = planDeps
    BY <1>9 DEF NextLayer
  <2>2. /\ planLayers' \in Seq(SUBSET PlanNodes) /\ Len(planLayers') = k + 1
        /\ \A i \in 1..k : planLayers'[i] = planLayers[i]
        /\ planLayers'[k + 1] = NextLayer /\ Satisfied' = Satisfied \cup NextLayer
    BY <1>1, <2>1, SatisfiedGrows
  <2>3. PlanTypes'
    BY <2>1, <2>2 DEF PInv, PlanTypes
  <2>4. VerdictsRight'
    BY <2>1, <1>3 DEF VerdictsRight
  <2>5. planLayers # << >> <=> k # 0
    BY <1>1
  <2> HIDE DEF k
  <2> HIDE DEF Layer
  <2>6. /\ \A i \in 1..(k + 1) : i \in 1..k \/ i = k + 1
        /\ \A i \in 1..k : i \in 1..(k + 1) /\ i # k + 1 /\ i < k + 1
        /\ k + 1 \in 1..(k + 1) /\ k + 1 - 1 = k
        /\ \A i \in 1..k : i # 1 => i - 1 \in 1..k
        /\ k # 0 => k \in 1..k
    BY ONLY <1>1
  <2>7. \A n \in NextLayer : n \in PlanNodes /\ n \notin Satisfied /\ planDeps[n] \subseteq Satisfied
    BY DEF NextLayer
  <2>8. /\ \A i, j \in 1..k : \A n \in planLayers[i] : n \in planLayers[j] => i = j
        /\ \A i \in 1..k : \A n \in planLayers[i] :
             /\ \A d \in planDeps[n] : \E j \in 1..k : j < i /\ d \in planLayers[j]
             /\ i = 1 \/ \E d \in planDeps[n] : d \in planLayers[i - 1]
        /\ k # 0 => \A n \in PlanNodes \ Satisfied : \E d \in planDeps[n] :
                      \A j \in 1..k : d \in planLayers[j] => j = k
    BY <2>5 DEF PInv, LayersTight, k
  <2>9. \A i, j \in 1..(k + 1) : \A n \in planLayers'[i] : n \in planLayers'[j] => i = j
    BY ONLY <2>2, <2>6, <2>7, <2>8, <1>6
  <2>10. ASSUME NEW i \in 1..(k + 1), NEW n \in planLayers'[i]
         PROVE  /\ \A d \in planDeps[n] : \E j \in 1..(k + 1) : j < i /\ d \in planLayers'[j]
                /\ i = 1 \/ \E d \in planDeps[n] : d \in planLayers'[i - 1]
    <3>1. CASE i \in 1..k
      <4>1. n \in planLayers[i]
        BY ONLY <3>1, <2>2, <2>10
      <4>2. ASSUME NEW d \in planDeps[n] PROVE \E j \in 1..(k + 1) : j < i /\ d \in planLayers'[j]
        <5>1. PICK j \in 1..k : j < i /\ d \in planLayers[j]
          BY ONLY <3>1, <4>1, <4>2, <2>8
        <5> QED BY ONLY <5>1, <2>2, <2>6
      <4>3. i # 1 => i - 1 \in 1..k
        BY ONLY <3>1, <2>6
      <4>4. i = 1 \/ \E d \in planDeps[n] : d \in planLayers[i - 1]
        BY ONLY <3>1, <4>1, <2>8
      <4>5. i = 1 \/ \E d \in planDeps[n] : d \in planLayers'[i - 1]
        BY ONLY <4>3, <4>4, <2>2
      <4> QED BY ONLY <4>2, <4>5
    <3>2. CASE i = k + 1
      <4>1. n \in NextLayer
        BY ONLY <3>2, <2>2, <2>10
      <4>2. \A d \in planDeps[n] : \E j \in 1..(k + 1) : j < i /\ d \in planLayers'[j]
        BY ONLY <3>2, <4>1, <1>6, <2>2, <2>6, <2>7
      <4>3. CASE k = 0
        BY ONLY <3>2, <4>2, <4>3
      <4>4. CASE k # 0
        <5>1. PICK d \in planDeps[n] : \A j \in 1..k : d \in planLayers[j] => j = k
          BY ONLY <4>1, <4>4, <2>7, <2>8
        <5>2. PICK j \in 1..k : d \in planLayers[j]
          BY ONLY <4>1, <5>1, <1>6, <2>7
        <5>3. d \in planLayers'[k]
          BY ONLY <5>1, <5>2, <2>2
        <5> QED BY ONLY <3>2, <4>2, <5>1, <5>3, <2>6
      <4> QED BY <4>3, <4>4
    <3> QED BY <2>6, <3>1, <3>2
  <2>11. ASSUME NEW n \in PlanNodes \ Satisfied'
         PROVE  \E d \in planDeps[n] : \A j \in 1..(k + 1) : d \in planLayers'[j] => j = k + 1
    <3>1. n \in PlanNodes \ Satisfied /\ n \notin NextLayer
      BY ONLY <2>2, <2>11
    <3>2. PICK d \in planDeps[n] : d \notin Satisfied
      BY <3>1 DEF NextLayer
    <3> QED BY ONLY <3>2, <1>6, <2>2, <2>6
  <2>12. LayersTight'
    BY ONLY <2>1, <2>2, <2>9, <2>10, <2>11 DEF LayersTight
  <2> QED BY <2>3, <2>4, <2>12, <1>4, <1>5 DEF PInv
<1> QED BY <1>7, <1>8, <1>9

\* No step of the check or of the layering breaks the invariant.
LEMMA StepPInv == PInv /\ [PlanNext]_planVars => PInv'
<1> SUFFICES ASSUME PInv, [PlanNext]_planVars PROVE PInv'
  OBVIOUS
<1>1. CASE UNCHANGED planVars
  <2>1. PlanTypes' /\ PathIsCalls'
    BY <1>1 DEF planVars, PInv, PlanTypes, PathIsCalls
  <2>2. VisitedIsFree'
    BY <1>1 DEF planVars, PInv, VisitedIsFree, Cyclic
  <2>3. VerdictsRight' /\ LayersTight'
    BY <1>1 DEF planVars, PInv, VerdictsRight, HasCycle, LayersTight, Satisfied
  <2> QED BY <2>1, <2>2, <2>3 DEF PInv
<1>2. CASE PlanNext
  BY <1>2, StepVisit, StepMeet, StepReturn, StepNoCycle, StepLayer DEF PlanNext
<1> QED BY <1>1, <1>2

\* What the invariant says of the verdict and of the layers.
LEMMA PlanIsSound == PInv => PlanSound
<1> SUFFICES ASSUME PInv PROVE PlanSound
  OBVIOUS
<1>1. /\ verdict = "cycle" => HasCycle
      /\ verdict \in {"valid", "done"} => ~HasCycle
      /\ verdict # "stuck"
  BY DEF PInv, PlanTypes, VerdictsRight
<1>2. ASSUME verdict = "done", NEW n \in PlanNodes
      PROVE  /\ \A d \in planDeps[n] : LayerOf(d) < LayerOf(n)
             /\ LayerOf(n) = 1 \/ \E d \in planDeps[n] : LayerOf(d) = LayerOf(n) - 1
             /\ \A i \in DOMAIN planLayers : n \in planLayers[i] => i = LayerOf(n)
  <2>1. planLayers \in Seq(SUBSET PlanNodes) /\ DOMAIN planLayers = 1..Len(planLayers)
        /\ planDeps \in [PlanNodes -> SUBSET PlanNodes] /\ Len(planLayers) \in Nat
    BY <1>2 DEF PInv, PlanTypes
  <2>2. \A m \in PlanNodes : \E i \in 1..Len(planLayers) : m \in planLayers[i]
    BY <1>2, <2>1 DEF PInv, VerdictsRight, Satisfied
  <2>3. \A i, j \in 1..Len(planLayers) : \A m \in planLayers[i] : m \in planLayers[j] => i = j
    BY DEF PInv, LayersTight
  <2>4. ASSUME NEW i \in 1..Len(planLayers), NEW m \in planLayers[i] PROVE LayerOf(m) = i
    BY <2>1, <2>3, <2>4 DEF LayerOf
  <2>5. PICK i \in 1..Len(planLayers) : n \in planLayers[i]
    BY <2>2
  <2>6. LayerOf(n) = i
    BY <2>4, <2>5
  <2>7. \A d \in planDeps[n] : \E j \in 1..Len(planLayers) : j < i /\ d \in planLayers[j]
    BY <2>5 DEF PInv, LayersTight
  <2>8. i = 1 \/ \E d \in planDeps[n] : d \in planLayers[i - 1]
    BY <2>5 DEF PInv, LayersTight
  <2>9. i # 1 => i - 1 \in 1..Len(planLayers)
    BY ONLY <2>1, <2>5
  <2> QED BY ONLY <2>1, <2>3, <2>4, <2>5, <2>6, <2>7, <2>8, <2>9
<1> QED BY <1>1, <1>2 DEF PlanSound

\* For every set of nodes, every plan over them and every order the search
\* walks it in: the plans refused are exactly the cyclic ones, the layering
\* never runs into its own error, and every node is in the first layer its
\* dependencies allow (dag.ts:14-81).
THEOREM PlansAreSound == PlanSpec => []PlanSound
<1>1. PlanSpec => []PInv
  BY InitPInv, StepPInv, PTL DEF PlanSpec
<1> QED BY <1>1, PlanIsSound, PTL

-----------------------------------------------------------------------------
(***************************************************************************)
(* The external run.                                                       *)
(***************************************************************************)

AllRequests == {"repo", "baseRef", "branch", "read", "write", "ref", "parent", "post", "patch",
                "open", "pr", "files", "done"}

\* What a client sends after an answer, and after a failure; the step of a
\* request; the step it is the last of.
AfterRequest(r) ==
  CASE r = "repo" -> "baseRef" [] r = "baseRef" -> "branch" [] r = "branch" -> "read"
    [] r = "read" -> "write" [] r = "write" -> "ref" [] r = "ref" -> "parent"
    [] r = "parent" -> "post" [] r = "post" -> "patch" [] r = "patch" -> "open"
    [] r = "open" -> "pr" [] r = "pr" -> "files" [] r = "files" -> "done"

AfterFailure(r) ==
  CASE r \in {"repo", "baseRef"} -> "branch" [] r = "branch" -> "read" [] r = "read" -> "write"
    [] r = "write" -> "ref" [] r \in {"ref", "parent", "post", "patch"} -> "open"
    [] r = "open" -> "pr" [] r \in {"pr", "files"} -> "done"

StepOf(r) ==
  CASE r \in {"repo", "baseRef"} -> 1 [] r = "branch" -> 2 [] r = "read" -> 3 [] r = "write" -> 4
    [] r \in {"ref", "parent", "post", "patch"} -> 5 [] r = "open" -> 6 [] r \in {"pr", "files"} -> 7

Completes(r) ==
  CASE r = "baseRef" -> {1} [] r = "branch" -> {2} [] r = "read" -> {3} [] r = "write" -> {4}
    [] r = "patch" -> {5} [] r = "open" -> {6} [] r = "files" -> {7}
    [] r \in {"repo", "ref", "parent", "post", "pr"} -> {}

\* The requests of each step, by the place of the step.
LEMMA RequestTable ==
  /\ DOMAIN StepRequests = 1..7
  /\ StepRequests[1] = <<"repo", "baseRef">> /\ StepRequests[2] = <<"branch">>
  /\ StepRequests[3] = <<"read">> /\ StepRequests[4] = <<"write">>
  /\ StepRequests[5] = <<"ref", "parent", "post", "patch">>
  /\ StepRequests[6] = <<"open">> /\ StepRequests[7] = <<"pr", "files">>
BY DEF StepRequests

\* A request belongs to one step.
LEMMA StepTable ==
  ASSUME NEW c \in Clients, at[c] \in AllRequests \ {"done"}
  PROVE  StepAt(c) = StepOf(at[c]) /\ StepOf(at[c]) \in 1..7
<1>1. /\ \A a : ToSet(<<a>>) = {a}
      /\ \A a, b : ToSet(<<a, b>>) = {a, b}
      /\ \A a, b, d, e : ToSet(<<a, b, d, e>>) = {a, b, d, e}
  BY DEF ToSet
<1>2. /\ ToSet(StepRequests[1]) = {"repo", "baseRef"} /\ ToSet(StepRequests[2]) = {"branch"}
      /\ ToSet(StepRequests[3]) = {"read"} /\ ToSet(StepRequests[4]) = {"write"}
      /\ ToSet(StepRequests[5]) = {"ref", "parent", "post", "patch"}
      /\ ToSet(StepRequests[6]) = {"open"} /\ ToSet(StepRequests[7]) = {"pr", "files"}
  BY ONLY <1>1, RequestTable
<1>3. StepOf(at[c]) \in 1..7 /\ at[c] \in ToSet(StepRequests[StepOf(at[c])])
  BY <1>2 DEF AllRequests, StepOf
<1>4. \A s \in 1..7 : s = 1 \/ s = 2 \/ s = 3 \/ s = 4 \/ s = 5 \/ s = 6 \/ s = 7
  OBVIOUS
<1>5. ASSUME NEW s \in 1..7, at[c] \in ToSet(StepRequests[s]) PROVE s = StepOf(at[c])
  BY <1>2, <1>4, <1>5 DEF StepOf
<1>6. DOMAIN StepRequests = 1..7
  BY RequestTable
<1> QED BY ONLY <1>3, <1>5, <1>6 DEF StepAt

\* How a client moves on.
LEMMA Moves ==
  ASSUME NEW c \in Clients, at \in [Clients -> AllRequests], at[c] # "done",
         passed \in [Clients -> SUBSET (1..7)]
  PROVE  /\ NextStep(c) = AfterFailure(at[c])
         /\ Fails(c) => at' = [at EXCEPT ![c] = AfterFailure(at[c])] /\ UNCHANGED <<got, passed>>
         /\ Succeeds(c) => /\ at' = [at EXCEPT ![c] = AfterRequest(at[c])]
                           /\ passed' = [passed EXCEPT ![c] = @ \cup Completes(at[c])]
<1>1. at[c] \in AllRequests \ {"done"}
  OBVIOUS
<1>2. StepAt(c) = StepOf(at[c])
  BY <1>1, StepTable
<1>3. NextStep(c) = AfterFailure(at[c])
  BY <1>1, <1>2, RequestTable DEF NextStep, AllRequests, StepOf, AfterFailure
<1>4. Fails(c) => at' = [at EXCEPT ![c] = AfterFailure(at[c])] /\ UNCHANGED <<got, passed>>
  BY <1>3 DEF Fails
<1>5. ASSUME Succeeds(c)
      PROVE  /\ at' = [at EXCEPT ![c] = AfterRequest(at[c])]
             /\ passed' = [passed EXCEPT ![c] = @ \cup Completes(at[c])]
  <2> DEFINE R == StepRequests[StepOf(at[c])]
  <2>1. /\ at[c] = Last(R) => /\ at' = [at EXCEPT ![c] = NextStep(c)]
                              /\ passed' = [passed EXCEPT ![c] = @ \cup {StepOf(at[c])}]
        /\ at[c] # Last(R) => /\ \E k \in DOMAIN R : R[k] = at[c] /\ at' = [at EXCEPT ![c] = R[k + 1]]
                              /\ passed' = passed
    BY <1>2, <1>5 DEF Succeeds
  <2>2. passed' = passed => passed' = [passed EXCEPT ![c] = @ \cup {}]
    OBVIOUS
  <2>3. CASE at[c] \in {"branch", "read", "write", "open"}
    <3>1. R = <<at[c]>>
      BY <2>3, RequestTable DEF StepOf
    <3>2. Last(R) = at[c]
      BY <3>1 DEF Last
    <3>3. AfterFailure(at[c]) = AfterRequest(at[c]) /\ {StepOf(at[c])} = Completes(at[c])
      BY <2>3 DEF AfterFailure, AfterRequest, StepOf, Completes
    <3> QED BY ONLY <2>1, <3>2, <3>3, <1>3
  <2>4. CASE at[c] \in {"baseRef", "patch", "files"}
    <3>1. Last(R) = at[c]
      <4>1. CASE at[c] = "baseRef"
        <5>1. R = <<"repo", "baseRef">>
          BY <4>1, RequestTable DEF StepOf
        <5> QED BY <4>1, <5>1 DEF Last
      <4>2. CASE at[c] = "patch"
        <5>1. R = <<"ref", "parent", "post", "patch">>
          BY <4>2, RequestTable DEF StepOf
        <5> QED BY <4>2, <5>1 DEF Last
      <4>3. CASE at[c] = "files"
        <5>1. R = <<"pr", "files">>
          BY <4>3, RequestTable DEF StepOf
        <5> QED BY <4>3, <5>1 DEF Last
      <4> QED BY <2>4, <4>1, <4>2, <4>3
    <3>2. AfterFailure(at[c]) = AfterRequest(at[c]) /\ {StepOf(at[c])} = Completes(at[c])
      BY <2>4 DEF AfterFailure, AfterRequest, StepOf, Completes
    <3> QED BY ONLY <2>1, <3>1, <3>2, <1>3
  <2>5. CASE at[c] \in {"repo", "pr"}
    <3>1. CASE at[c] = "repo"
      <4>1. R = <<"repo", "baseRef">>
        BY <3>1, RequestTable DEF StepOf
      <4>2. Last(R) # at[c] /\ DOMAIN R = {1, 2} /\ R[1] = "repo" /\ R[2] = "baseRef"
        BY <3>1, <4>1 DEF Last
      <4>3. at' = [at EXCEPT ![c] = "baseRef"] /\ passed' = passed
        BY ONLY <2>1, <3>1, <4>2
      <4> QED BY <4>3, <2>2, <3>1 DEF AfterRequest, Completes
    <3>2. CASE at[c] = "pr"
      <4>1. R = <<"pr", "files">>
        BY <3>2, RequestTable DEF StepOf
      <4>2. Last(R) # at[c] /\ DOMAIN R = {1, 2} /\ R[1] = "pr" /\ R[2] = "files"
        BY <3>2, <4>1 DEF Last
      <4>3. at' = [at EXCEPT ![c] = "files"] /\ passed' = passed
        BY ONLY <2>1, <3>2, <4>2
      <4> QED BY <4>3, <2>2, <3>2 DEF AfterRequest, Completes
    <3> QED BY <2>5, <3>1, <3>2
  <2>6. CASE at[c] \in {"ref", "parent", "post"}
    <3>1. R = <<"ref", "parent", "post", "patch">>
      BY <2>6, RequestTable DEF StepOf
    <3>2. /\ Last(R) = "patch" /\ DOMAIN R = {1, 2, 3, 4}
          /\ R[1] = "ref" /\ R[2] = "parent" /\ R[3] = "post" /\ R[4] = "patch"
      BY <3>1 DEF Last
    <3>3. at' = [at EXCEPT ![c] = AfterRequest(at[c])] /\ passed' = passed
      BY ONLY <2>1, <2>6, <3>2 DEF AfterRequest
    <3> QED BY <3>3, <2>2, <2>6 DEF Completes
  <2> QED BY <1>1, <2>3, <2>4, <2>5, <2>6 DEF AllRequests
<1> QED BY <1>3, <1>4, <1>5

CommitOf == [parent : Nat, file : Clients \cup {Nobody}]

\* What GitHub holds: a commit was made on an earlier one, or is the first.
GithubTypes ==
  /\ commits \in Seq(CommitOf) /\ Len(commits) >= 1
  /\ \A i \in 1..Len(commits) : commits[i].parent \in 0..Len(commits)
  /\ branch \in 0..Len(commits) /\ opened \in BOOLEAN
  /\ opened => branch # 0

ClientTypes ==
  /\ at \in [Clients -> AllRequests]
  /\ passed \in [Clients -> SUBSET (1..7)]
  /\ got \in [Clients -> [from : {0, 1}, parent : Nat, commit : Nat, number : Nat, seen : Nat,
                          file : Clients \cup {Nobody}]]

\* What the results of a client say of what GitHub holds, by the request it is
\* at: a commit it made has the content of the one it was made on, so a patch
\* that is accepted keeps the file the branch had.
ClientHolds(c) ==
  /\ at[c] \in {"parent", "post"} => got[c].parent \in 1..Len(commits)
  /\ at[c] = "patch" =>
       /\ got[c].commit \in 1..Len(commits)
       /\ commits[got[c].commit].parent \in 1..Len(commits)
       /\ commits[got[c].commit].file = commits[commits[got[c].commit].parent].file
  /\ 5 \in passed[c] =>
       /\ at[c] \in {"open", "pr", "files", "done"}
       /\ branch # 0 /\ got[c].commit \in Ancestry(branch)
  /\ got[c].number # 0 => opened /\ 6 \in passed[c] /\ at[c] \in {"pr", "files", "done"}
  /\ at[c] = "files" \/ 7 \in passed[c] => got[c].number # 0 /\ got[c].seen # 0
  /\ got[c].file # Nobody => branch # 0 /\ commits[branch].file # Nobody

GInv == GithubTypes /\ ClientTypes /\ \A c \in Clients : ClientHolds(c)

\* What GitHub never takes back.
Forward ==
  /\ Len(commits') >= Len(commits) /\ \A i \in 1..Len(commits) : commits'[i] = commits[i]
  /\ branch # 0 => branch' # 0 /\ Ancestry(branch) \subseteq Ancestry(branch)'
  /\ branch # 0 /\ commits[branch].file # Nobody => commits'[branch'].file # Nobody
  /\ opened => opened'

\* A branch whose head stays, or moves to a commit made on it, keeps the
\* history it had.
LEMMA AncestryGrows ==
  ASSUME GithubTypes, GithubTypes', branch # 0,
         Len(commits') >= Len(commits), \A i \in 1..Len(commits) : commits'[i] = commits[i],
         branch' = branch \/ (branch' # 0 /\ commits'[branch'].parent = branch)
  PROVE  Ancestry(branch) \subseteq Ancestry(branch)'
<1>1. /\ Len(commits) \in Nat /\ Len(commits') \in Nat
      /\ branch \in 0..Len(commits) /\ branch' \in 0..Len(commits')
      /\ \A i \in 1..Len(commits) : commits[i].parent \in 0..Len(commits)
  BY DEF GithubTypes
<1>2. SUFFICES ASSUME NEW a \in Ancestry(branch), NEW S \in SUBSET (0..Len(commits')),
                      branch' \in S, \A i \in S \ {0} : commits'[i].parent \in S
               PROVE  a \in S
  <2>1. Ancestry(branch) \subseteq 0..Len(commits)
    BY DEF Ancestry
  <2>2. 0..Len(commits) \subseteq 0..Len(commits')
    BY ONLY <1>1, Len(commits') >= Len(commits)
  <2> QED BY <2>1, <2>2 DEF Ancestry
<1> DEFINE T == S \cap (0..Len(commits))
<1>3. branch \in T
  BY <1>1, <1>2
<1>4. ASSUME NEW i \in T \ {0} PROVE commits[i].parent \in T
  <2>1. i \in 1..Len(commits) /\ i \in S \ {0}
    BY <1>1
  <2> QED BY <2>1, <1>1, <1>2
<1>5. T \in SUBSET (0..Len(commits))
  OBVIOUS
<1>6. a \in T
  BY <1>2, <1>3, <1>4, <1>5 DEF Ancestry
<1> QED BY <1>6

\* What an operation does when GitHub acts on it.
LEMMA ActsForward ==
  ASSUME GithubAssumption, GInv, NEW c \in Clients, at[c] # "done", Sends(c), Accepts(c), Acts(c)
  PROVE  GithubTypes' /\ Forward
<1>1. /\ commits \in Seq(CommitOf) /\ Len(commits) \in Nat /\ Len(commits) >= 1
      /\ \A i \in 1..Len(commits) : /\ commits[i].parent \in 0..Len(commits)
                                    /\ commits[i].file \in Clients \cup {Nobody}
      /\ branch \in 0..Len(commits) /\ opened \in BOOLEAN
      /\ opened => branch # 0
  <2>1. /\ commits \in Seq(CommitOf) /\ Len(commits) \in Nat /\ Len(commits) >= 1
        /\ \A i \in 1..Len(commits) : commits[i].parent \in 0..Len(commits)
        /\ branch \in 0..Len(commits) /\ opened \in BOOLEAN
        /\ opened => branch # 0
    BY DEF GInv, GithubTypes
  <2>2. \A i \in 1..Len(commits) : commits[i] \in CommitOf
    BY ONLY <2>1
  <2>3. \A i \in 1..Len(commits) : commits[i].file \in Clients \cup {Nobody}
    BY ONLY <2>2 DEF CommitOf
  <2> QED BY ONLY <2>1, <2>3
<1>2. at[c] \in AllRequests
  BY DEF GInv, ClientTypes
<1>3. /\ got[c].from \in {0, 1} /\ Nobody \notin Clients
  BY DEF GInv, ClientTypes, GithubAssumption
<1>4. ASSUME NEW p \in 1..Len(commits), NEW f \in Clients \cup {Nobody},
             commits' = Append(commits, [parent |-> p, file |-> f])
      PROVE  /\ commits' \in Seq(CommitOf) /\ Len(commits') = Len(commits) + 1
             /\ \A i \in 1..Len(commits) : commits'[i] = commits[i]
             /\ commits'[Len(commits) + 1] = [parent |-> p, file |-> f]
             /\ \A i \in 1..Len(commits') : commits'[i].parent \in 0..Len(commits')
  <2>1. [parent |-> p, file |-> f] \in CommitOf
    BY <1>1 DEF CommitOf
  <2>2. /\ commits' \in Seq(CommitOf) /\ Len(commits') = Len(commits) + 1
        /\ \A i \in 1..Len(commits) : commits'[i] = commits[i]
        /\ commits'[Len(commits) + 1] = [parent |-> p, file |-> f]
    BY ONLY <1>1, <1>4, <2>1
  <2>3. /\ \A i \in 1..(Len(commits) + 1) : i \in 1..Len(commits) \/ i = Len(commits) + 1
        /\ 0..Len(commits) \subseteq 0..(Len(commits) + 1) /\ p \in 0..Len(commits)
    BY ONLY <1>1, <1>4
  <2>4. [parent |-> p, file |-> f].parent = p
    OBVIOUS
  <2> QED BY ONLY <1>1, <2>2, <2>3, <2>4
<1>5. CASE at[c] = "write"
  <2>1. branch # 0 /\ commits[branch].file = Nobody
    BY <1>5 DEF Accepts
  <2>2. commits' = Append(commits, [parent |-> branch, file |-> c])
        /\ branch' = Len(commits) + 1 /\ opened' = opened
    BY <1>1, <1>5 DEF Acts
  <2>3. branch \in 1..Len(commits)
    BY ONLY <1>1, <2>1
  <2>4. /\ commits' \in Seq(CommitOf) /\ Len(commits') = Len(commits) + 1
        /\ \A i \in 1..Len(commits) : commits'[i] = commits[i]
        /\ commits'[Len(commits) + 1] = [parent |-> branch, file |-> c]
        /\ \A i \in 1..Len(commits') : commits'[i].parent \in 0..Len(commits')
    BY <1>4, <2>2, <2>3
  <2>5. GithubTypes'
    BY <1>1, <2>2, <2>4 DEF GithubTypes
  <2>6. Ancestry(branch) \subseteq Ancestry(branch)'
    BY <1>1, <2>1, <2>2, <2>4, <2>5, AncestryGrows DEF GInv
  <2> QED BY <1>1, <1>3, <2>2, <2>4, <2>5, <2>6 DEF Forward
<1>6. CASE at[c] = "post"
  <2>1. got[c].parent \in 1..Len(commits)
    BY <1>6 DEF GInv, ClientHolds
  <2>2. commits' = Append(commits, [parent |-> got[c].parent, file |-> commits[got[c].parent].file])
        /\ branch' = branch /\ opened' = opened
    BY <1>1, <1>6 DEF Acts
  <2>3. commits[got[c].parent].file \in Clients \cup {Nobody}
    BY <1>1, <2>1
  <2>4. /\ commits' \in Seq(CommitOf) /\ Len(commits') = Len(commits) + 1
        /\ \A i \in 1..Len(commits) : commits'[i] = commits[i]
        /\ \A i \in 1..Len(commits') : commits'[i].parent \in 0..Len(commits')
    BY <1>4, <2>1, <2>2, <2>3
  <2>5. GithubTypes'
    BY <1>1, <2>2, <2>4 DEF GithubTypes
  <2>6. branch # 0 => Ancestry(branch) \subseteq Ancestry(branch)'
    BY <1>1, <2>2, <2>4, <2>5, AncestryGrows DEF GInv
  <2>7. branch # 0 => branch \in 1..Len(commits)
    BY ONLY <1>1
  <2> QED BY <1>1, <2>2, <2>4, <2>5, <2>6, <2>7 DEF Forward
<1>7. CASE at[c] = "branch"
  <2>1. branch = 0 /\ got[c].from = 1 /\ ~opened
    BY <1>1, <1>3, <1>7 DEF Accepts, Sends
  <2>2. commits' = commits /\ branch' = 1 /\ opened' = opened
    BY <1>1, <1>7, <2>1 DEF Acts
  <2>3. GithubTypes'
    BY <1>1, <2>2 DEF GithubTypes
  <2> QED BY <1>1, <2>1, <2>2, <2>3 DEF Forward
<1>8. CASE at[c] = "patch"
  <2>1. /\ got[c].commit \in 1..Len(commits)
        /\ commits[got[c].commit].parent \in 1..Len(commits)
        /\ commits[got[c].commit].file = commits[commits[got[c].commit].parent].file
    BY <1>8 DEF GInv, ClientHolds
  <2>2. commits[got[c].commit].parent = branch
    BY <1>8 DEF Accepts, FastForward
  <2>3. commits' = commits /\ branch' = got[c].commit /\ opened' = opened
    BY <1>1, <1>8 DEF Acts
  <2>4. got[c].commit # 0 /\ got[c].commit \in 0..Len(commits)
    BY ONLY <2>1, <1>1
  <2>5. GithubTypes'
    BY <1>1, <2>3, <2>4 DEF GithubTypes
  <2>6. branch # 0 => Ancestry(branch) \subseteq Ancestry(branch)'
    BY <1>1, <2>2, <2>3, <2>4, <2>5, AncestryGrows DEF GInv
  <2> QED BY <1>1, <2>1, <2>2, <2>3, <2>4, <2>5, <2>6 DEF Forward
<1>9. CASE at[c] \notin {"write", "post", "branch", "patch"}
  <2>1. commits' = commits /\ branch' = branch
    BY <1>9 DEF Acts
  <2>2. opened' \in BOOLEAN /\ (opened => opened') /\ (opened' => branch # 0)
    BY <1>1, <1>2, <1>9 DEF Acts, Accepts
  <2>3. GithubTypes'
    BY <1>1, <2>1, <2>2 DEF GithubTypes
  <2>4. branch # 0 => Ancestry(branch) \subseteq Ancestry(branch)'
    BY <2>1 DEF Ancestry
  <2> QED BY <1>1, <2>1, <2>2, <2>3, <2>4 DEF Forward
<1> QED BY <1>5, <1>6, <1>7, <1>8, <1>9

\* When GitHub is not reached, it holds what it held.
LEMMA SameForward ==
  ASSUME GInv, UNCHANGED <<commits, branch, opened>>
  PROVE  GithubTypes' /\ Forward
<1>1. Len(commits) \in Nat
  BY DEF GInv, GithubTypes
<1>2. Ancestry(branch)' = Ancestry(branch)
  BY DEF Ancestry
<1> QED BY <1>1, <1>2 DEF GInv, GithubTypes, Forward

\* What a client holds stays true while another one goes on.
LEMMA HoldsForward ==
  ASSUME GInv, GithubTypes', Forward, NEW d \in Clients,
         at'[d] = at[d], got'[d] = got[d], passed'[d] = passed[d]
  PROVE  ClientHolds(d)'
<1>1. ClientHolds(d) /\ Len(commits) \in Nat /\ Len(commits') \in Nat
  BY DEF GInv, GithubTypes
<1>2. \A i \in 1..Len(commits) : i \in 1..Len(commits') /\ commits'[i] = commits[i]
  BY <1>1 DEF Forward
<1>3. at[d] \in {"parent", "post"} => got[d].parent \in 1..Len(commits')
  BY <1>1, <1>2 DEF ClientHolds
<1>4. at[d] = "patch" =>
        /\ got[d].commit \in 1..Len(commits')
        /\ commits'[got[d].commit].parent \in 1..Len(commits')
        /\ commits'[got[d].commit].file = commits'[commits'[got[d].commit].parent].file
  BY <1>1, <1>2 DEF ClientHolds
<1>5. 5 \in passed[d] => /\ at[d] \in {"open", "pr", "files", "done"}
                         /\ branch' # 0 /\ got[d].commit \in Ancestry(branch)'
  BY <1>1 DEF ClientHolds, Forward
<1>6. got[d].number # 0 => opened' /\ 6 \in passed[d] /\ at[d] \in {"pr", "files", "done"}
  BY <1>1 DEF ClientHolds, Forward
<1>7. got[d].file # Nobody => branch' # 0 /\ commits'[branch'].file # Nobody
  BY <1>1 DEF ClientHolds, Forward
<1>8. at[d] = "files" \/ 7 \in passed[d] => got[d].number # 0 /\ got[d].seen # 0
  BY <1>1 DEF ClientHolds
<1> QED BY <1>3, <1>4, <1>5, <1>6, <1>7, <1>8 DEF ClientHolds

\* A client whose step fails goes on with what it had.
LEMMA FailsHolds ==
  ASSUME GInv, GithubTypes', Forward, NEW c \in Clients, at[c] # "done", Fails(c)
  PROVE  ClientTypes' /\ ClientHolds(c)'
<1>1. at \in [Clients -> AllRequests] /\ passed \in [Clients -> SUBSET (1..7)]
  BY DEF GInv, ClientTypes
<1>2. /\ at' = [at EXCEPT ![c] = AfterFailure(at[c])] /\ got' = got /\ passed' = passed
  BY <1>1, Moves
<1>3. AfterFailure(at[c]) \in {"branch", "read", "write", "ref", "open", "pr", "done"}
  BY <1>1 DEF AllRequests, AfterFailure
<1>4. at' \in [Clients -> AllRequests] /\ at'[c] = AfterFailure(at[c])
  BY <1>1, <1>2, <1>3 DEF AllRequests
<1>5. ClientTypes'
  BY <1>2, <1>4 DEF GInv, ClientTypes
<1>6. ClientHolds(c)
  BY DEF GInv
<1>7. at'[c] \notin {"parent", "post", "patch", "files"}
  BY <1>3, <1>4
<1>8. at[c] \in {"open", "pr", "files", "done"} => at'[c] \in {"open", "pr", "files", "done"}
  BY <1>4 DEF AfterFailure
<1>9. at[c] \in {"pr", "files", "done"} => at'[c] \in {"pr", "files", "done"}
  BY <1>4 DEF AfterFailure
<1>10. ClientHolds(c)'
  BY <1>2, <1>6, <1>7, <1>8, <1>9 DEF ClientHolds, Forward
<1> QED BY <1>5, <1>10

\* A client that read an answer holds what it read.
LEMMA AnswerHolds ==
  ASSUME GithubAssumption, GInv, GithubTypes', Forward, NEW c \in Clients, at[c] # "done",
         Sends(c), Accepts(c), Acts(c), Reads(c), Succeeds(c)
  PROVE  ClientTypes' /\ ClientHolds(c)'
<1>1. at \in [Clients -> AllRequests] /\ passed \in [Clients -> SUBSET (1..7)]
      /\ got \in [Clients -> [from : {0, 1}, parent : Nat, commit : Nat, number : Nat, seen : Nat,
                              file : Clients \cup {Nobody}]]
  BY DEF GInv, ClientTypes
<1>2. /\ at' = [at EXCEPT ![c] = AfterRequest(at[c])]
      /\ passed' = [passed EXCEPT ![c] = @ \cup Completes(at[c])]
  BY <1>1, Moves
<1>3. at[c] \in AllRequests \ {"done"}
  BY <1>1
<1>4. AfterRequest(at[c]) \in AllRequests /\ Completes(at[c]) \in SUBSET (1..7)
  BY <1>3 DEF AllRequests, AfterRequest, Completes
<1>5. /\ at' \in [Clients -> AllRequests] /\ at'[c] = AfterRequest(at[c])
      /\ passed' \in [Clients -> SUBSET (1..7)] /\ passed'[c] = passed[c] \cup Completes(at[c])
  BY <1>1, <1>2, <1>4
<1>6. /\ commits \in Seq(CommitOf) /\ Len(commits) \in Nat /\ Len(commits) >= 1
      /\ branch \in 0..Len(commits) /\ (opened => branch # 0)
      /\ Len(commits') \in Nat
  BY DEF GInv, GithubTypes
<1>7. branch # 0 => commits[branch].file \in Clients \cup {Nobody}
  <2>1. branch # 0 => branch \in 1..Len(commits)
    BY ONLY <1>6
  <2>2. branch # 0 => commits[branch] \in CommitOf
    BY ONLY <2>1, <1>6
  <2> QED BY ONLY <2>2 DEF CommitOf
<1>8. ClientHolds(c)
  BY DEF GInv
<1>9. at[c] = "files" => branch # 0
  BY <1>6, <1>8 DEF ClientHolds
<1>10. ClientTypes'
  <2>1. /\ branch \in Nat /\ Len(commits) + 1 \in Nat /\ Base \in {0, 1} /\ 1 \in Nat
        /\ at[c] = "files" => commits[branch].file \in Clients \cup {Nobody}
    BY <1>6, <1>7, <1>9 DEF Base
  <2>2. got' \in [Clients -> [from : {0, 1}, parent : Nat, commit : Nat, number : Nat, seen : Nat,
                              file : Clients \cup {Nobody}]]
    <3>1. CASE at[c] = "baseRef"
      BY ONLY <1>1, <2>1, <3>1, Reads(c), c \in Clients DEF Reads
    <3>2. CASE at[c] = "ref"
      BY ONLY <1>1, <2>1, <3>2, Reads(c), c \in Clients DEF Reads
    <3>3. CASE at[c] = "post"
      BY ONLY <1>1, <2>1, <3>3, Reads(c), c \in Clients DEF Reads
    <3>4. CASE at[c] = "open"
      BY ONLY <1>1, <2>1, <3>4, Reads(c), c \in Clients DEF Reads
    <3>5. CASE at[c] = "pr"
      BY ONLY <1>1, <2>1, <3>5, Reads(c), c \in Clients DEF Reads
    <3>6. CASE at[c] = "files"
      BY ONLY <1>1, <2>1, <3>6, Reads(c), c \in Clients DEF Reads
    <3>7. CASE at[c] \notin {"baseRef", "ref", "post", "open", "pr", "files"}
      BY ONLY <1>1, <3>7, Reads(c) DEF Reads
    <3> QED BY <3>1, <3>2, <3>3, <3>4, <3>5, <3>6, <3>7
  <2> QED BY <1>5, <2>2 DEF ClientTypes
<1>11. \A i \in 1..Len(commits) : i \in 1..Len(commits') /\ commits'[i] = commits[i]
  BY <1>6 DEF Forward
<1>12. /\ 5 \in passed[c] => /\ at[c] \in {"open", "pr", "files", "done"}
                             /\ branch' # 0 /\ got[c].commit \in Ancestry(branch)'
       /\ got[c].number # 0 => opened' /\ 6 \in passed[c] /\ at[c] \in {"pr", "files", "done"}
       /\ at[c] = "files" \/ 7 \in passed[c] => got[c].number # 0 /\ got[c].seen # 0
       /\ got[c].file # Nobody => branch' # 0 /\ commits'[branch'].file # Nobody
  BY <1>8 DEF ClientHolds, Forward
<1>13. CASE at[c] \in {"repo", "baseRef", "branch", "read", "write"}
  <2>1. /\ got'[c].commit = got[c].commit /\ got'[c].number = got[c].number
        /\ got'[c].seen = got[c].seen /\ got'[c].file = got[c].file
    BY ONLY <1>1, <1>13, Reads(c) DEF Reads
  <2>2. at'[c] \in {"baseRef", "branch", "read", "write", "ref"}
    BY <1>5, <1>13 DEF AfterRequest
  <2>3. 5 \notin Completes(at[c]) /\ 7 \notin Completes(at[c])
    <3>1. Completes(at[c]) \in {{}, {1}, {2}, {3}, {4}}
      BY ONLY <1>13 DEF Completes
    <3> QED BY ONLY <3>1
  <2>4. 5 \notin passed'[c] /\ 7 \notin passed'[c] /\ got'[c].number = 0
    <3>1. at[c] \notin {"open", "pr", "files", "done"}
      BY ONLY <1>13
    <3>2. got[c].number = 0 /\ 5 \notin passed[c] /\ 7 \notin passed[c]
      BY ONLY <1>12, <3>1
    <3> QED BY ONLY <1>5, <2>1, <2>3, <3>2
  <2>5. at'[c] \notin {"parent", "post"} /\ at'[c] # "patch" /\ at'[c] # "files"
    BY ONLY <2>2
  <2>6. got'[c].file # Nobody => branch' # 0 /\ commits'[branch'].file # Nobody
    BY ONLY <1>12, <2>1
  <2>7. ~(got'[c].number # 0) /\ ~(at'[c] = "files" \/ 7 \in passed'[c])
    BY ONLY <2>4, <2>5
  <2> QED BY ONLY <1>10, <2>4, <2>5, <2>6, <2>7 DEF ClientHolds
<1>14. CASE at[c] \in {"ref", "parent"}
  <2>1. /\ got'[c].commit = got[c].commit /\ got'[c].number = got[c].number
        /\ got'[c].seen = got[c].seen /\ got'[c].file = got[c].file
    BY ONLY <1>1, <1>14, Reads(c) DEF Reads
  <2>2. at'[c] \in {"parent", "post"}
    BY <1>5, <1>14 DEF AfterRequest
  <2>3. 5 \notin Completes(at[c]) /\ 7 \notin Completes(at[c])
    BY <1>14 DEF Completes
  <2>4. got'[c].parent \in 1..Len(commits')
    <3>1. CASE at[c] = "ref"
      <4>1. branch # 0
        BY <3>1 DEF Accepts
      <4>2. branch \in 1..Len(commits)
        BY ONLY <4>1, <1>6
      <4>3. got'[c].parent = branch
        BY ONLY <1>1, <3>1, Reads(c) DEF Reads
      <4> QED BY <4>2, <4>3, <1>11
    <3>2. CASE at[c] = "parent"
      <4>1. got'[c].parent = got[c].parent
        BY ONLY <1>1, <3>2, Reads(c) DEF Reads
      <4>2. got[c].parent \in 1..Len(commits)
        BY <3>2, <1>8 DEF ClientHolds
      <4> QED BY <4>1, <4>2, <1>11
    <3> QED BY <1>14, <3>1, <3>2
  <2> QED BY ONLY <1>5, <1>10, <1>12, <1>14, <2>1, <2>2, <2>3, <2>4 DEF ClientHolds
<1>15. CASE at[c] = "post"
  <2>1. /\ got'[c].commit = Len(commits) + 1 /\ got'[c].number = got[c].number
        /\ got'[c].seen = got[c].seen /\ got'[c].file = got[c].file
    BY ONLY <1>1, <1>15, Reads(c) DEF Reads
  <2>2. at'[c] = "patch" /\ Completes(at[c]) = {}
    BY <1>5, <1>15 DEF AfterRequest, Completes
  <2>3. got[c].parent \in 1..Len(commits)
    BY <1>8, <1>15 DEF ClientHolds
  <2> DEFINE new == [parent |-> got[c].parent, file |-> commits[got[c].parent].file]
  <2>4. commits' = Append(commits, new)
    BY <1>15 DEF Acts
  <2>5. new.parent = got[c].parent /\ new.file = commits[got[c].parent].file
    OBVIOUS
  <2>6. new \in CommitOf
    <3>1. commits[got[c].parent] \in CommitOf
      BY ONLY <1>6, <2>3
    <3> QED BY ONLY <1>1, <3>1 DEF CommitOf
  <2> HIDE DEF new
  <2>7. Len(commits') = Len(commits) + 1 /\ commits'[Len(commits) + 1] = new
    BY ONLY <1>6, <2>4, <2>6
  <2>8. /\ got'[c].commit \in 1..Len(commits')
        /\ commits'[got'[c].commit].parent \in 1..Len(commits')
        /\ commits'[got'[c].commit].file = commits'[commits'[got'[c].commit].parent].file
    BY ONLY <1>6, <1>11, <2>1, <2>3, <2>5, <2>7
  <2> QED BY ONLY <1>5, <1>10, <1>12, <1>15, <2>1, <2>2, <2>8 DEF ClientHolds
<1>16. CASE at[c] = "patch"
  <2>1. got' = got
    BY ONLY <1>16, Reads(c) DEF Reads
  <2>2. at'[c] = "open" /\ Completes(at[c]) = {5}
    BY <1>5, <1>16 DEF AfterRequest, Completes
  <2>3. branch' = got[c].commit /\ got[c].commit \in 1..Len(commits)
    BY <1>8, <1>16 DEF Acts, ClientHolds
  <2>4. branch' # 0 /\ branch' \in 0..Len(commits')
    BY ONLY <1>11, <2>3, <1>6
  <2>5. got[c].commit \in Ancestry(branch)'
    BY ONLY <2>3, <2>4 DEF Ancestry
  <2> QED BY ONLY <1>5, <1>10, <1>12, <1>16, <2>1, <2>2, <2>4, <2>5 DEF ClientHolds
<1>17. CASE at[c] = "open"
  <2>1. /\ got'[c].commit = got[c].commit /\ got'[c].number = 1
        /\ got'[c].seen = got[c].seen /\ got'[c].file = got[c].file
    BY ONLY <1>1, <1>17, Reads(c) DEF Reads
  <2>2. at'[c] = "pr" /\ Completes(at[c]) = {6}
    BY <1>5, <1>17 DEF AfterRequest, Completes
  <2>3. opened' = TRUE
    BY <1>17 DEF Acts
  <2> QED BY ONLY <1>5, <1>10, <1>12, <1>17, <2>1, <2>2, <2>3 DEF ClientHolds
<1>18. CASE at[c] = "pr"
  <2>1. /\ got'[c].commit = got[c].commit /\ got'[c].number = got[c].number
        /\ got'[c].seen = branch /\ got'[c].file = got[c].file
    BY ONLY <1>1, <1>18, Reads(c) DEF Reads
  <2>2. at'[c] = "files" /\ Completes(at[c]) = {}
    BY <1>5, <1>18 DEF AfterRequest, Completes
  <2>3. got[c].number # 0 /\ branch # 0
    BY <1>6, <1>8, <1>18 DEF Sends, ClientHolds
  <2> QED BY ONLY <1>5, <1>10, <1>12, <1>18, <2>1, <2>2, <2>3 DEF ClientHolds
<1>19. CASE at[c] = "files"
  <2>1. /\ got'[c].commit = got[c].commit /\ got'[c].number = got[c].number
        /\ got'[c].seen = got[c].seen /\ got'[c].file = commits[branch].file
    BY ONLY <1>1, <1>19, Reads(c) DEF Reads
  <2>2. at'[c] = "done" /\ Completes(at[c]) = {7}
    BY <1>5, <1>19 DEF AfterRequest, Completes
  <2>3. commits' = commits /\ branch' = branch
    BY <1>19 DEF Acts
  <2> QED BY ONLY <1>5, <1>9, <1>10, <1>12, <1>19, <2>1, <2>2, <2>3 DEF ClientHolds
<1>20. ClientHolds(c)'
  BY <1>3, <1>13, <1>14, <1>15, <1>16, <1>17, <1>18, <1>19 DEF AllRequests
<1> QED BY <1>10, <1>20

\* A branch that is not there yet, and clients with nothing in their hands.
LEMMA InitGInv == GithubInit => GInv
<1> SUFFICES ASSUME GithubInit PROVE GInv
  OBVIOUS
<1>1. /\ commits = <<[parent |-> 0, file |-> Nobody]>> /\ branch = 0 /\ opened = FALSE
      /\ at = [c \in Clients |-> "repo"] /\ passed = [c \in Clients |-> {}]
      /\ got = [c \in Clients |-> [from |-> 0, parent |-> 0, commit |-> 0, number |-> 0,
                                   seen |-> 0, file |-> Nobody]]
  BY DEF GithubInit
<1>2. GithubTypes
  <2> DEFINE first == [parent |-> 0, file |-> Nobody]
  <2>1. first \in CommitOf /\ first.parent = 0
    BY DEF CommitOf
  <2> HIDE DEF first
  <2>2. commits = <<first>>
    BY <1>1 DEF first
  <2>3. commits \in Seq(CommitOf) /\ Len(commits) = 1 /\ commits[1] = first
    BY ONLY <2>1, <2>2
  <2>4. /\ Len(commits) >= 1 /\ branch \in 0..Len(commits)
        /\ \A i \in 1..Len(commits) : commits[i].parent \in 0..Len(commits)
    <3>1. \A i \in 1..1 : i = 1
      OBVIOUS
    <3> QED BY ONLY <1>1, <2>1, <2>3, <3>1
  <2>5. opened = FALSE
    BY <1>1
  <2> QED BY ONLY <2>3, <2>4, <2>5 DEF GithubTypes
<1>3. ClientTypes
  BY <1>1 DEF ClientTypes, AllRequests
<1>4. ASSUME NEW c \in Clients PROVE ClientHolds(c)
  BY <1>1 DEF ClientHolds
<1> QED BY <1>2, <1>3, <1>4 DEF GInv

\* A client that moves touches no entry but its own.
LEMMA OthersStay ==
  ASSUME GInv, NEW c \in Clients, at[c] # "done", NEW d \in Clients, d # c,
         Fails(c) \/ (Succeeds(c) /\ Reads(c))
  PROVE  at'[d] = at[d] /\ got'[d] = got[d] /\ passed'[d] = passed[d]
<1>1. at \in [Clients -> AllRequests] /\ passed \in [Clients -> SUBSET (1..7)]
      /\ got \in [Clients -> [from : {0, 1}, parent : Nat, commit : Nat, number : Nat, seen : Nat,
                              file : Clients \cup {Nobody}]]
  BY DEF GInv, ClientTypes
<1>2. at'[d] = at[d] /\ passed'[d] = passed[d]
  BY <1>1, Moves
<1>3. CASE Fails(c)
  BY <1>2, <1>3 DEF Fails
<1>4. CASE Reads(c)
  <2>1. got'[d] = got[d]
    BY ONLY <1>1, Reads(c), d \in Clients, d # c DEF Reads
  <2> QED BY <1>2, <2>1
<1> QED BY <1>3, <1>4

\* No request breaks the invariant, whether it succeeds, is refused or is lost.
LEMMA StepGInv ==
  ASSUME GithubAssumption, GInv, [GithubNext]_githubVars
  PROVE  GInv'
<1>1. CASE UNCHANGED githubVars
  <2>1. UNCHANGED <<commits, branch, opened, at, got, passed>>
    BY <1>1 DEF githubVars
  <2>2. GithubTypes' /\ Forward
    BY <2>1, SameForward
  <2>3. ClientTypes'
    BY <2>1 DEF GInv, ClientTypes
  <2>4. \A d \in Clients : ClientHolds(d)'
    BY <2>1, <2>2, HoldsForward
  <2> QED BY <2>2, <2>3, <2>4 DEF GInv
<1>2. CASE GithubNext
  <2>1. PICK c \in Clients : Send(c) \/ Lose(c)
    BY <1>2 DEF GithubNext
  <2>2. at[c] # "done"
    BY <2>1 DEF Send, Lose
  <2>3. CASE Sends(c) /\ Accepts(c) /\ Acts(c) /\ Reads(c) /\ Succeeds(c)
    <3>1. GithubTypes' /\ Forward
      BY <2>2, <2>3, ActsForward
    <3>2. ClientTypes' /\ ClientHolds(c)'
      BY <2>2, <2>3, <3>1, AnswerHolds
    <3>3. ASSUME NEW d \in Clients, d # c PROVE ClientHolds(d)'
      <4>1. at'[d] = at[d] /\ got'[d] = got[d] /\ passed'[d] = passed[d]
        BY <2>2, <2>3, <3>3, OthersStay
      <4> QED BY <3>1, <4>1, HoldsForward
    <3> QED BY <3>1, <3>2, <3>3 DEF GInv
  <2>4. CASE /\ Fails(c)
             /\ (Sends(c) /\ Accepts(c) /\ Acts(c)) \/ UNCHANGED <<commits, branch, opened>>
    <3>1. GithubTypes' /\ Forward
      BY <2>2, <2>4, ActsForward, SameForward
    <3>2. ClientTypes' /\ ClientHolds(c)'
      BY <2>2, <2>4, <3>1, FailsHolds
    <3>3. ASSUME NEW d \in Clients, d # c PROVE ClientHolds(d)'
      <4>1. at'[d] = at[d] /\ got'[d] = got[d] /\ passed'[d] = passed[d]
        BY <2>2, <2>4, <3>3, OthersStay
      <4> QED BY <3>1, <4>1, HoldsForward
    <3> QED BY <3>1, <3>2, <3>3 DEF GInv
  <2> QED BY <2>1, <2>3, <2>4 DEF Send, Lose
<1> QED BY <1>1, <1>2

\* What every reachable state of the external run satisfies, for every number
\* of clients and of requests that fail on the way.
THEOREM GithubInductive == GithubSpec => []GInv
BY GithubAssumption, InitGInv, StepGInv, PTL DEF GithubSpec

\* For every number of clients that share the branch, and however many
\* requests or answers are lost: a commit that GitHub confirmed to a client
\* stays in the history of the branch (operations.ts:87-103).
THEOREM ConfirmedStaysHolds == GithubSpec => []ConfirmedStays
<1>1. GInv => ConfirmedStays
  BY DEF GInv, ClientHolds, ConfirmedStays
<1> QED BY <1>1, GithubInductive, PTL

\* Likewise, a run that passed opened a pull request, and committed work of its
\* own that the branch still holds (github-e2e.ts:119-172).
THEOREM VerdictSoundHolds == GithubSpec => []VerdictSound
<1>1. ASSUME GInv, NEW c \in Clients, VerdictPassed(c)
      PROVE  /\ opened /\ {1, 5, 6, 7} \subseteq passed[c]
             /\ got[c].commit \in Ancestry(branch)
             /\ commits[branch].file # Nobody
  <2>1. ClientHolds(c)
    BY <1>1 DEF GInv
  <2> QED BY <1>1, <2>1 DEF ClientHolds, VerdictPassed
<1>2. GInv => VerdictSound
  BY <1>1 DEF VerdictSound
<1> QED BY <1>2, GithubInductive, PTL

-----------------------------------------------------------------------------
(***************************************************************************)
(* The worker and the console.                                             *)
(***************************************************************************)

RunRow == [run : Jobs, verdict : Verdicts]
Refusals == {Lost, Error(400), Error(500), Error(503), ErrorPage}

\* What an answer may hold of a table with these rows, and a list of it.
Answers(table) == {Null} \cup Refusals \cup {Reply(row) : row \in ToSet(table)}
Pages(table) == SUBSET ToSet(table)
Replies(table) == {Null} \cup Refusals \cup {Reply(page) : page \in Pages(table)}
Outcomes == {"network", "invalid_response", "infrastructure_unavailable", "api_rejected"}
PanelOf(table) == [tasks : Pages(table) \cup {Null}, active : Tasks \cup {Null},
                   runs : Pages(table) \cup {Null}, error : Outcomes \cup {Null}]

\* Every answer and every list on its way, or on the screen, is of rows the table
\* has.
TableHolds ==
  /\ rows \in Seq(RunRow)
  /\ jobs \in [Jobs -> {"none", "sent", "closed"} \cup Verdicts]
  /\ answers \in [Jobs -> Answers(rows)]
  /\ asks \in Seq([task : Tasks \cup {Null}, reply : Replies(rows)])
  /\ (panel = Null /\ asks = << >>) \/ panel \in PanelOf(rows)

\* While a goal is awaited nothing of it is shown; then what is shown is a row of
\* the table, or a failure, and the agent says the same.
GoalShown ==
  /\ waiting \in Jobs \cup {Null}
  /\ waiting # Null =>
       /\ shown = [state |-> "running", run |-> Null, verdict |-> Null]
       /\ agent.state = "running"
  /\ waiting = Null /\ shown # Null =>
       /\ shown.state = agent.state /\ shown.state \in {"completed", "failed"}
       /\ shown.state = "completed" <=> shown.verdict = "PASSED"
       /\ shown.run # Null => [run |-> shown.run, verdict |-> shown.verdict] \in ToSet(rows)

ConsoleInv == TableHolds /\ GoalShown

\* An answer that is taken for a good one has a body.
LEMMA GoodOutcome ==
  /\ \A reply \in Refusals : /\ RequestOutcome(reply, TRUE) # "ok"
                             /\ RequestOutcome(reply, TRUE) \in Outcomes
  /\ \A reply : reply.status = 200 => RequestOutcome(reply, TRUE) = "ok"
BY DEF Refusals, Lost, Error, ErrorPage, RequestOutcome, Outcomes

\* A larger table holds what a smaller one did.
LEMMA TableGrows ==
  ASSUME NEW table, NEW larger, ToSet(table) \subseteq ToSet(larger)
  PROVE  /\ Answers(table) \subseteq Answers(larger) /\ Pages(table) \subseteq Pages(larger)
         /\ Replies(table) \subseteq Replies(larger) /\ PanelOf(table) \subseteq PanelOf(larger)
         /\ Seq([task : Tasks \cup {Null}, reply : Replies(table)])
              \subseteq Seq([task : Tasks \cup {Null}, reply : Replies(larger)])
<1>1. Answers(table) \subseteq Answers(larger) /\ Pages(table) \subseteq Pages(larger)
  BY DEF Answers, Pages
<1>2. Replies(table) \subseteq Replies(larger)
  BY <1>1 DEF Replies
<1>3. PanelOf(table) \subseteq PanelOf(larger)
  BY <1>1 DEF PanelOf
<1>4. [task : Tasks \cup {Null}, reply : Replies(table)]
        \subseteq [task : Tasks \cup {Null}, reply : Replies(larger)]
  BY <1>2
<1> QED BY ONLY <1>1, <1>2, <1>3, <1>4, SeqMonotonic

\* A row more.
LEMMA StoredIs ==
  ASSUME rows \in Seq(RunRow), NEW n \in Jobs, jobs[n] \in Verdicts
  PROVE  /\ Stored(n) \in Seq(RunRow) /\ Row(n) \in RunRow
         /\ ToSet(Stored(n)) = ToSet(rows) \cup {Row(n)}
<1>1. Row(n) \in RunRow
  BY DEF Row, RunRow
<1>2. /\ Stored(n) \in Seq(RunRow) /\ Len(Stored(n)) = Len(rows) + 1 /\ Len(rows) \in Nat
      /\ \A i \in 1..Len(rows) : Stored(n)[i] = rows[i]
      /\ Stored(n)[Len(rows) + 1] = Row(n)
  BY <1>1 DEF Stored
<1>3. DOMAIN Stored(n) = 1..(Len(rows) + 1) /\ DOMAIN rows = 1..Len(rows)
  BY <1>2
<1>4. 1..(Len(rows) + 1) = (1..Len(rows)) \cup {Len(rows) + 1}
  BY ONLY <1>2
<1>5. ToSet(Stored(n)) = ToSet(rows) \cup {Row(n)}
  BY ONLY <1>2, <1>3, <1>4 DEF ToSet
<1> QED BY <1>1, <1>2, <1>5

\* A list without one of its elements.
LEMMA RemovedOne ==
  ASSUME NEW X, NEW s \in Seq(X), NEW k \in DOMAIN s
  PROVE  RemoveAt(s, k) \in Seq(X)
<1>1. Len(s) \in Nat /\ k \in 1..Len(s) /\ \A i \in 1..Len(s) : s[i] \in X
  OBVIOUS
<1>2. /\ k - 1 \in Int /\ k + 1 \in Int /\ Len(s) \in Int /\ 1 \in Int
      /\ \A i \in 1..(k - 1) : i \in 1..Len(s)
      /\ \A i \in (k + 1)..Len(s) : i \in 1..Len(s)
  BY ONLY <1>1
<1>3. SubSeq(s, 1, k - 1) \in Seq(X)
  BY ONLY <1>1, <1>2, SubSeqProperties
<1>4. SubSeq(s, k + 1, Len(s)) \in Seq(X)
  BY ONLY <1>1, <1>2, SubSeqProperties
<1> QED BY ONLY <1>3, <1>4, ConcatProperties DEF RemoveAt

\* A list that the worker answers is of its table.
LEMMA ListsOfTable ==
  ASSUME NEW task PROVE Lists(task) \cup {Lost} \subseteq Replies(rows)
<1>1. Listed(task) \in Pages(rows)
  BY DEF Listed, Newest, Pages, ToSet
<1> QED BY <1>1 DEF Lists, Replies, Refusals, ErrorPage, Error, Lost

\* Nothing is stored, asked or shown at first.
LEMMA InitConsoleInv == ConsoleAssumption /\ ConsoleInit => ConsoleInv
<1> SUFFICES ASSUME ConsoleAssumption, ConsoleInit PROVE ConsoleInv
  OBVIOUS
<1>1. TableHolds
  BY DEF ConsoleInit, WorkerInit, TableHolds, Answers
<1>2. GoalShown
  BY DEF ConsoleInit, GoalShown
<1> QED BY <1>1, <1>2 DEF ConsoleInv

\* The rows of a table are kept, and with them what answers and lists hold.
LEMMA HoldsMore ==
  ASSUME TableHolds, rows' \in Seq(RunRow), ToSet(rows) \subseteq ToSet(rows'),
         jobs' \in [Jobs -> {"none", "sent", "closed"} \cup Verdicts],
         answers' \in [Jobs -> Answers(rows')], UNCHANGED panelVars
  PROVE  TableHolds'
<1>1. asks' \in Seq([task : Tasks \cup {Null}, reply : Replies(rows')])
  BY TableGrows DEF TableHolds, panelVars
<1>2. (panel' = Null /\ asks' = << >>) \/ panel' \in PanelOf(rows')
  BY TableGrows DEF TableHolds, panelVars
<1> QED BY <1>1, <1>2 DEF TableHolds

\* What the worker answers last is a refusal or a row that is stored.
LEMMA RespondHolds ==
  ASSUME TableHolds, NEW n \in Jobs, NEW table, ToSet(rows) \subseteq ToSet(table),
         NEW reply \in Answers(table), Respond(n, reply)
  PROVE  /\ jobs' \in [Jobs -> {"none", "sent", "closed"} \cup Verdicts]
         /\ answers' \in [Jobs -> Answers(table)]
<1>1. answers \in [Jobs -> Answers(table)]
  BY TableGrows DEF TableHolds
<1>2. jobs \in [Jobs -> {"none", "sent", "closed"} \cup Verdicts]
  BY DEF TableHolds
<1> QED BY ONLY <1>1, <1>2, Respond(n, reply), n \in Jobs, reply \in Answers(table) DEF Respond

\* The worker, its answer on the way and its table.
LEMMA StepWorker ==
  ASSUME ConsoleInv, NEW n \in Jobs, Works(n) \/ Cut(n), UNCHANGED <<appVars, panelVars>>
  PROVE  ConsoleInv'
<1>1. TableHolds
  BY DEF ConsoleInv
<1>2. /\ rows \in Seq(RunRow) /\ answers \in [Jobs -> Answers(rows)]
      /\ jobs \in [Jobs -> {"none", "sent", "closed"} \cup Verdicts]
  BY <1>1 DEF TableHolds
<1>3. \A table : /\ Error(400) \in Answers(table) /\ Error(500) \in Answers(table)
                 /\ Error(503) \in Answers(table) /\ Lost \in Answers(table)
  BY DEF Answers, Refusals
<1>4. TableHolds' /\ ToSet(rows) \subseteq ToSet(rows')
  <2>1. CASE RefuseRun(n)
    <3>1. rows' = rows /\ (Respond(n, Error(400)) \/ Respond(n, Error(503)))
      <4>1. Respond(n, Error(IF configured THEN 400 ELSE 503)) /\ rows' = rows
        BY <2>1 DEF RefuseRun
      <4>2. CASE configured
        <5>1. (IF configured THEN 400 ELSE 503) = 400
          BY <4>2
        <5> QED BY ONLY <4>1, <5>1
      <4>3. CASE ~configured
        <5>1. (IF configured THEN 400 ELSE 503) = 503
          BY <4>3
        <5> QED BY ONLY <4>1, <5>1
      <4> QED BY <4>2, <4>3
    <3>2. /\ jobs' \in [Jobs -> {"none", "sent", "closed"} \cup Verdicts]
          /\ answers' \in [Jobs -> Answers(rows)]
      BY <1>1, <1>3, <3>1, RespondHolds
    <3> QED BY <1>1, <1>2, <3>1, <3>2, HoldsMore
  <2>2. CASE Ran(n)
    <3>1. /\ rows' = rows
          /\ \/ \E v \in Verdicts : jobs' = [jobs EXCEPT ![n] = v] /\ answers' = answers
             \/ Respond(n, Error(500))
      BY <2>2 DEF Ran
    <3>2. /\ jobs' \in [Jobs -> {"none", "sent", "closed"} \cup Verdicts]
          /\ answers' \in [Jobs -> Answers(rows)]
      BY <1>1, <1>2, <1>3, <3>1, RespondHolds
    <3> QED BY <1>1, <1>2, <3>1, <3>2, HoldsMore
  <2>3. CASE SaveRun(n)
    <3>1. /\ Stored(n) \in Seq(RunRow) /\ Row(n) \in RunRow
          /\ ToSet(Stored(n)) = ToSet(rows) \cup {Row(n)}
      BY <1>2, <2>3, StoredIs DEF SaveRun
    <3>2. rows' \in {rows, Stored(n)} /\ \E reply \in Answers(rows') : Respond(n, reply)
      <4>1. CASE rows' = Stored(n) /\ Respond(n, Reply(Row(n)))
        <5>1. Reply(Row(n)) \in Answers(rows')
          BY <3>1, <4>1 DEF Answers
        <5> QED BY <4>1, <5>1
      <4>2. CASE rows' \in {rows, Stored(n)} /\ Respond(n, Error(500))
        BY <1>3, <4>2
      <4> QED BY <2>3, <4>1, <4>2 DEF SaveRun
    <3>3. rows' \in Seq(RunRow) /\ ToSet(rows) \subseteq ToSet(rows')
      BY <1>2, <3>1, <3>2
    <3>4. PICK reply \in Answers(rows') : Respond(n, reply)
      BY <3>2
    <3>5. /\ jobs' \in [Jobs -> {"none", "sent", "closed"} \cup Verdicts]
          /\ answers' \in [Jobs -> Answers(rows')]
      BY <1>1, <3>3, <3>4, RespondHolds
    <3> QED BY <1>1, <3>3, <3>5, HoldsMore
  <2>4. CASE Cut(n)
    <3>1. /\ rows' = rows /\ answers' = [answers EXCEPT ![n] = Lost]
          /\ jobs' \in {jobs, [jobs EXCEPT ![n] = "closed"]}
      BY <2>4 DEF Cut
    <3>2. /\ jobs' \in [Jobs -> {"none", "sent", "closed"} \cup Verdicts]
          /\ answers' \in [Jobs -> Answers(rows)]
      BY <1>2, <1>3, <3>1
    <3> QED BY <1>1, <1>2, <3>1, <3>2, HoldsMore
  <2> QED BY <2>1, <2>2, <2>3, <2>4 DEF Works
<1>5. GoalShown'
  BY <1>4 DEF ConsoleInv, GoalShown, appVars
<1> QED BY <1>4, <1>5 DEF ConsoleInv

\* A new panel asks for the tasks; one that is left asks nothing more.
LEMMA TurnHolds ==
  ASSUME TableHolds, NEW v, Turn(v), rows' = rows, answers' = answers,
         jobs' \in [Jobs -> {"none", "sent", "closed"} \cup Verdicts]
  PROVE  TableHolds'
<1> DEFINE Ask == [task : Tasks \cup {Null}, reply : Replies(rows)]
<1>1. [task |-> Null, reply |-> Null] \in Ask
  BY DEF Replies
<1>2. FreshPanel \in PanelOf(rows)
  BY DEF FreshPanel, PanelOf
<1>3. asks \in Seq(Ask) /\ ((panel = Null /\ asks = << >>) \/ panel \in PanelOf(rows))
  BY DEF TableHolds
<1>4. \/ asks' = asks /\ panel' = panel
      \/ panel' = FreshPanel /\ asks' = <<[task |-> Null, reply |-> Null]>>
      \/ panel' = Null /\ asks' = << >>
  BY DEF Turn, panelVars
<1>5. /\ asks' \in Seq(Ask)
      /\ (panel' = Null /\ asks' = << >>) \/ panel' \in PanelOf(rows)
  <2> HIDE DEF Ask
  <2>1. CASE asks' = asks /\ panel' = panel
    BY ONLY <1>3, <2>1
  <2>2. CASE panel' = FreshPanel /\ asks' = <<[task |-> Null, reply |-> Null]>>
    BY ONLY <1>1, <1>2, <2>2
  <2>3. CASE panel' = Null /\ asks' = << >>
    BY ONLY <2>3
  <2> QED BY <1>4, <2>1, <2>2, <2>3
<1> QED BY <1>5 DEF TableHolds

\* A goal is sent, and nothing of it is shown yet.
LEMMA StepSubmit ==
  ASSUME ConsoleAssumption, ConsoleInv, NEW n \in Jobs, SubmitGoal(n)
  PROVE  ConsoleInv'
<1>1. TableHolds'
  <2>1. jobs' \in [Jobs -> {"none", "sent", "closed"} \cup Verdicts]
    BY DEF SubmitGoal, ConsoleInv, TableHolds
  <2> QED BY <2>1, TurnHolds DEF SubmitGoal, ConsoleInv
<1>2. /\ shown' = [state |-> "running", run |-> Null, verdict |-> Null]
      /\ waiting' = n /\ agent'.state = "running"
  BY DEF SubmitGoal, TransitionAgentState
<1>3. GoalShown'
  <2>1. n # Null
    BY DEF ConsoleAssumption, Jobs
  <2> QED BY <1>2, <2>1 DEF GoalShown
<1> QED BY <1>1, <1>3 DEF ConsoleInv

\* The goal's answer: a row of the table is shown, or a failure.
LEMMA StepSettle ==
  ASSUME ConsoleAssumption, ConsoleInv, NEW n \in Jobs, Settle(n)
  PROVE  ConsoleInv'
<1>1. UNCHANGED <<workerVars, panelVars>> /\ waiting = n /\ answers[n] # Null /\ waiting' = Null
  BY DEF Settle
<1>2. TableHolds'
  BY <1>1 DEF ConsoleInv, TableHolds, workerVars, panelVars
<1>3. n # Null /\ Null # "PASSED"
  BY DEF ConsoleAssumption, Verdicts, Jobs
<1>4. shown = [state |-> "running", run |-> Null, verdict |-> Null]
  BY <1>1, <1>3 DEF ConsoleInv, GoalShown
<1>5. CASE Completed(n)
  <2>1. RequestOutcome(answers[n], TRUE) = "ok"
    BY <1>5 DEF Completed
  <2>2. answers[n] \in Answers(rows) /\ answers[n] \notin Refusals
    BY <2>1, GoodOutcome DEF ConsoleInv, TableHolds
  <2>3. PICK row \in ToSet(rows) : answers[n] = Reply(row)
    BY <1>1, <2>2 DEF Answers
  <2>4. answers[n].body = row
    BY <2>3 DEF Reply
  <2>5. row \in RunRow
    BY <2>3 DEF ConsoleInv, TableHolds, ToSet
  <2>6. row = [run |-> row.run, verdict |-> row.verdict]
    BY <2>5 DEF RunRow
  <2>7. /\ shown' = [state |-> IF row.verdict = "PASSED" THEN "completed" ELSE "failed",
                     run |-> row.run, verdict |-> row.verdict]
        /\ agent'.state = IF row.verdict = "PASSED" THEN "completed" ELSE "failed"
    BY <1>5, <2>4 DEF Completed, TransitionAgentState
  <2>8. rows' = rows
    BY <1>1 DEF workerVars
  <2> QED BY <1>1, <1>2, <2>3, <2>6, <2>7, <2>8 DEF ConsoleInv, GoalShown
<1>6. CASE Failed(n)
  <2>1. shown' = [state |-> "failed", run |-> Null, verdict |-> Null] /\ agent'.state = "failed"
    BY <1>4, <1>6 DEF Failed, TransitionAgentState
  <2> QED BY <1>1, <1>2, <1>3, <2>1 DEF ConsoleInv, GoalShown
<1> QED BY <1>5, <1>6 DEF Settle

\* Whatever the panel asks, is answered and is told is of the table.
LEMMA StepPanel ==
  ASSUME ConsoleInv,
         \/ Navigate \/ \E task \in Tasks \cup {Null} : Filter(task)
         \/ \E k \in DOMAIN asks : Serve(k) \/ Deliver(k)
  PROVE  ConsoleInv'
<1> DEFINE Ask == [task : Tasks \cup {Null}, reply : Replies(rows)]
<1>1. /\ asks \in Seq(Ask)
      /\ (panel = Null /\ asks = << >>) \/ panel \in PanelOf(rows)
      /\ rows \in Seq(RunRow) /\ answers \in [Jobs -> Answers(rows)]
      /\ jobs \in [Jobs -> {"none", "sent", "closed"} \cup Verdicts]
  BY DEF ConsoleInv, TableHolds
<1>2. UNCHANGED workerVars /\ UNCHANGED <<waiting, shown, agent>>
  BY DEF Navigate, Filter, Serve, Deliver, appVars
<1> DEFINE Kept == /\ asks' \in Seq(Ask)
                   /\ (panel' = Null /\ asks' = << >>) \/ panel' \in PanelOf(rows)
<1>3. Kept
  <2>1. CASE Navigate
    <3>1. TableHolds'
      BY <1>1, <2>1, TurnHolds DEF Navigate, ConsoleInv, workerVars
    <3> QED BY <1>2, <3>1 DEF TableHolds, workerVars
  <2>2. ASSUME NEW task \in Tasks \cup {Null}, Filter(task)
        PROVE  Kept
    <3>1. panel \in PanelOf(rows) /\ panel' = [panel EXCEPT !.active = task, !.runs = Null]
      BY <1>1, <2>2 DEF Filter
    <3>2. panel' \in PanelOf(rows)
      BY ONLY <2>2, <3>1 DEF PanelOf
    <3>3. [task |-> task, reply |-> Null] \in Ask
      BY <2>2 DEF Replies
    <3>4. asks' = asks \/ asks' = Append(asks, [task |-> task, reply |-> Null])
      BY <2>2 DEF Filter
    <3>5. asks' \in Seq(Ask)
      <4> HIDE DEF Ask
      <4> QED BY ONLY <1>1, <3>3, <3>4
    <3> QED BY <3>2, <3>5
  <2>3. ASSUME NEW k \in DOMAIN asks, Serve(k)
        PROVE  Kept
    <3>1. PICK reply \in Replies(rows) : asks' = [asks EXCEPT ![k].reply = reply]
      BY <2>3, ListsOfTable DEF Serve
    <3>2. asks[k] \in Ask
      <4> HIDE DEF Ask
      <4> QED BY ONLY <1>1, <2>3
    <3>4. [asks[k] EXCEPT !.reply = reply] \in Ask
      BY ONLY <3>2, reply \in Replies(rows)
    <3>3. asks' \in Seq(Ask)
      <4> HIDE DEF Ask
      <4> QED BY ONLY <1>1, <2>3, <3>1, <3>4
    <3>5. asks # << >> /\ panel' = panel
      BY <2>3 DEF Serve
    <3> QED BY <1>1, <3>3, <3>5
  <2>4. ASSUME NEW k \in DOMAIN asks, Deliver(k)
        PROVE  Kept
    <3>1. asks' \in Seq(Ask)
      BY <1>1, <2>4, RemovedOne DEF Deliver
    <3>2. asks[k].reply \in Replies(rows) /\ asks[k].reply # Null
      <4>1. asks[k] \in Ask
        <5> HIDE DEF Ask
        <5> QED BY ONLY <1>1, <2>4
      <4> QED BY <2>4, <4>1 DEF Deliver
    <3>3. RequestOutcome(asks[k].reply, TRUE) = "ok" => asks[k].reply.body \in Pages(rows)
      <4> SUFFICES ASSUME RequestOutcome(asks[k].reply, TRUE) = "ok"
                   PROVE  asks[k].reply.body \in Pages(rows)
        OBVIOUS
      <4>1. PICK page \in Pages(rows) : asks[k].reply = Reply(page)
        BY <3>2, GoodOutcome DEF Replies
      <4> QED BY <4>1 DEF Reply
    <3>4. RequestOutcome(asks[k].reply, TRUE) # "ok" =>
            RequestOutcome(asks[k].reply, TRUE) \in Outcomes
      <4>1. \A page : RequestOutcome(Reply(page), TRUE) = "ok"
        BY GoodOutcome DEF Reply
      <4> QED BY <3>2, <4>1, GoodOutcome DEF Replies
    <3>5. panel \in PanelOf(rows)
      BY <1>1, <2>4
    <3> DEFINE outcome == RequestOutcome(asks[k].reply, TRUE)
               body == asks[k].reply.body
    <3>6. \/ outcome # "ok" /\ panel' = [panel EXCEPT !.error = outcome]
          \/ outcome = "ok" /\ panel' = [panel EXCEPT !.tasks = body]
          \/ outcome = "ok" /\ panel' = [panel EXCEPT !.runs = body]
      BY <2>4 DEF Deliver
    <3>7. panel' \in PanelOf(rows)
      <4> HIDE DEF outcome, body
      <4>1. (outcome = "ok" => body \in Pages(rows)) /\ (outcome # "ok" => outcome \in Outcomes)
        BY <3>3, <3>4 DEF outcome, body
      <4> QED BY ONLY <3>5, <3>6, <4>1 DEF PanelOf
    <3> QED BY <3>1, <3>7
  <2> QED BY <2>1, <2>2, <2>3, <2>4
<1>4. TableHolds'
  BY <1>1, <1>2, <1>3 DEF TableHolds, workerVars
<1>5. GoalShown'
  BY <1>2 DEF ConsoleInv, GoalShown, workerVars
<1> QED BY <1>4, <1>5 DEF ConsoleInv

\* Every step of the worker and of the console keeps what is shown in the table.
LEMMA StepConsoleInv ==
  ConsoleAssumption /\ ConsoleInv /\ [ConsoleNext]_consoleVars => ConsoleInv'
<1> SUFFICES ASSUME ConsoleAssumption, ConsoleInv, [ConsoleNext]_consoleVars
             PROVE  ConsoleInv'
  OBVIOUS
<1>1. CASE UNCHANGED consoleVars
  BY <1>1 DEF ConsoleInv, TableHolds, GoalShown, consoleVars, workerVars, appVars, panelVars
<1>2. CASE WorkerNext /\ UNCHANGED <<appVars, panelVars>>
  BY <1>2, StepWorker DEF WorkerNext
<1>3. CASE \E n \in Jobs : SubmitGoal(n)
  BY <1>3, StepSubmit
<1>4. CASE \E n \in Jobs : Settle(n)
  BY <1>4, StepSettle
<1>5. CASE \/ Navigate \/ \E task \in Tasks \cup {Null} : Filter(task)
           \/ \E k \in DOMAIN asks : Serve(k) \/ Deliver(k)
  BY <1>5, StepPanel
<1> QED BY <1>1, <1>2, <1>3, <1>4, <1>5 DEF ConsoleNext

\* Whatever the connections lose, whenever the isolate dies and in whatever order
\* the lists come in, the console shows a finished run only when the table holds
\* it with that verdict, and lists only what the table holds.
THEOREM ShownIsSavedHolds == ConsoleSpec => []ShownIsSaved
<1>1. ConsoleAssumption /\ ConsoleInv => ShownIsSaved
  <2> SUFFICES ASSUME ConsoleAssumption, ConsoleInv PROVE ShownIsSaved
    OBVIOUS
  <2>1. Null # "PASSED" /\ \A n \in Jobs : n # Null
    BY DEF ConsoleAssumption, Verdicts, Jobs
  <2>2. ASSUME shown # Null
        PROVE  /\ shown.run # Null => [run |-> shown.run, verdict |-> shown.verdict] \in ToSet(rows)
               /\ shown.state = agent.state
               /\ shown.state = "completed" <=> shown.verdict = "PASSED"
               /\ waiting # Null <=> shown.state = "running"
    <3>1. CASE waiting = Null
      BY <2>2, <3>1 DEF ConsoleInv, GoalShown
    <3>2. CASE waiting # Null
      BY <2>1, <3>2 DEF ConsoleInv, GoalShown
    <3> QED BY <3>1, <3>2
  <2>3. ASSUME panel # Null PROVE PanelShows \subseteq ToSet(rows)
    <3>1. panel \in PanelOf(rows)
      BY <2>3 DEF ConsoleInv, TableHolds
    <3> QED BY <3>1 DEF PanelShows, PanelOf, Pages
  <2>4. /\ WorkspaceShows.badge = shown.state /\ WorkspaceShows.facts.agent = agent.state
        /\ WorkspaceShows.facts.run = shown.run
        /\ WorkspaceShows.facts.verdict = shown.verdict
        /\ ChatShows.working <=> waiting # Null
    BY DEF WorkspaceShows, ExecutionFacts, ChatShows
  <2> QED BY <2>2, <2>3, <2>4 DEF ShownIsSaved
<1>2. ConsoleSpec => []ConsoleInv
  <2>1. ConsoleInit => ConsoleInv
    BY InitConsoleInv, ConsoleAssumption
  <2>2. ConsoleInv /\ [ConsoleNext]_consoleVars => ConsoleInv'
    BY StepConsoleInv, ConsoleAssumption
  <2> QED BY <2>1, <2>2, PTL DEF ConsoleSpec
<1>3. ConsoleInv => ShownIsSaved
  BY <1>1, ConsoleAssumption
<1> QED BY <1>2, <1>3, PTL

-----------------------------------------------------------------------------
(***************************************************************************)
(* The circuit breaker.                                                    *)
(***************************************************************************)

\* What the fields of a breaker hold: a state of the machine, a count up to the
\* threshold and a time up to the cooldown.
BreakerTypeOK ==
  /\ breaker \in {"closed", "open", "half_open"}
  /\ failures \in 0..FailureThreshold
  /\ elapsed \in 0..Cooldown
  /\ trials \in Nat

BreakerInv == BreakerTypeOK /\ BreakerCounts

\* The constructor starts with the invariant.
LEMMA BreakerStarts == BreakerInit => BreakerInv
  BY BreakerAssumption DEF BreakerInit, BreakerInv, BreakerTypeOK, BreakerCounts

\* Every call keeps it, late answers included.
LEMMA BreakerSteps == BreakerInv /\ [BreakerNext]_breakerVars => BreakerInv'
<1> SUFFICES ASSUME BreakerInv, [BreakerNext]_breakerVars PROVE BreakerInv'
  OBVIOUS
<1> USE BreakerAssumption DEF BreakerInv, BreakerTypeOK, BreakerCounts
<1>1. CASE Tick
  BY <1>1 DEF Tick
<1>2. ASSUME NEW c \in Callers, Pass(c) PROVE BreakerInv'
  BY <1>2 DEF Pass
<1>3. ASSUME NEW c \in Callers, Probe(c) PROVE BreakerInv'
  BY <1>3 DEF Probe, BreakerMachine
<1>4. ASSUME NEW c \in Callers, RecordSuccess(c) PROVE BreakerInv'
  BY <1>4 DEF RecordSuccess, BreakerMachine
<1>5. ASSUME NEW c \in Callers, RecordFailure(c) PROVE BreakerInv'
  <2>1. Min({failures + 1, FailureThreshold})
          = IF failures + 1 <= FailureThreshold THEN failures + 1 ELSE FailureThreshold
    BY MinOfTwo
  <2>2. CASE breaker = "half_open"
    BY <1>5, <2>2 DEF RecordFailure, BreakerMachine
  <2>3. CASE breaker # "half_open"
    BY <1>5, <2>1, <2>3 DEF RecordFailure, BreakerMachine
  <2> QED BY <2>2, <2>3
<1>6. CASE UNCHANGED breakerVars
  BY <1>6 DEF breakerVars
<1> QED
  BY <1>1, <1>2, <1>3, <1>4, <1>5, <1>6 DEF BreakerNext

\* A breaker is closed exactly while its count is below the threshold, for any
\* number of callers, threshold, cooldown and limit of trials.
THEOREM BreakerCountsHold == BreakerSpec => []BreakerCounts
<1>1. BreakerInv => BreakerCounts
  BY DEF BreakerInv
<1> QED
  BY <1>1, BreakerStarts, BreakerSteps, PTL DEF BreakerSpec

-----------------------------------------------------------------------------
(***************************************************************************)
(* The model gateway.                                                      *)
(***************************************************************************)

\* A rank is a number, whatever is preferred.
LEMMA RankIsNat ==
  ASSUME GatewayAssumption, NEW req \in Requirements, NEW i
  PROVE  Rank(i, req) \in Nat
<1> DEFINE places == {p \in DOMAIN req.preferred : req.preferred[p] = Models[i].provider}
<1>1. DOMAIN req.preferred = 1..Len(req.preferred) /\ Len(req.preferred) \in Nat
  BY DEF GatewayAssumption, IsList
<1>2. places \in SUBSET Nat
  BY <1>1
<1>3. Rank(i, req) = IF places = {} THEN Len(req.preferred) + 1 ELSE Min(places)
  BY DEF Rank
<1> HIDE DEF places
<1>4. places # {} => Min(places) \in Nat
  BY <1>2, LeastOf
<1> QED BY <1>1, <1>3, <1>4

\* The candidates are places in a list.
LEMMA CandidatesAre ==
  ASSUME GatewayAssumption, NEW req
  PROVE  /\ Candidates(req) \in SUBSET Nat
         /\ Usable(req) \in SUBSET Candidates(req)
<1>1. DOMAIN Models = 1..Len(Models) /\ Len(Models) \in Nat
  BY DEF GatewayAssumption, IsList
<1> QED BY <1>1 DEF Candidates, Usable

\* Some candidate comes before all others, as long as one is left.
LEMMA ForemostIs ==
  ASSUME GatewayAssumption, NEW req \in Requirements, requirement = req,
         left \in SUBSET Nat, left # {}
  PROVE  Foremost \in left /\ \A j \in left \ {Foremost} : Precedes(Foremost, j, req)
<1> DEFINE Ranks == {n \in Nat : \E i \in left : Rank(i, req) = n}
<1>1. \A i \in left : Rank(i, req) \in Nat
  BY RankIsNat
<1>2. Ranks # {} /\ Ranks \in SUBSET Nat
  BY <1>1
<1>3. PICK n \in Ranks : \A k \in Ranks : n <= k
  <2> HIDE DEF Ranks
  <2> QED BY ONLY <1>2, LeastNat
<1>4. n \in Nat /\ \A i \in left : n <= Rank(i, req)
  BY <1>1, <1>3
<1> DEFINE Firsts == {i \in left : Rank(i, req) = n}
<1>5. Firsts # {} /\ Firsts \in SUBSET Nat
  BY <1>3
<1>6. PICK f \in Firsts : \A k \in Firsts : f <= k
  <2> HIDE DEF Firsts
  <2> QED BY ONLY <1>5, LeastNat
<1>7. f \in left /\ Rank(f, req) = n /\ f \in Nat
  BY <1>5, <1>6
<1>8. ASSUME NEW j \in left \ {f} PROVE Precedes(f, j, req)
  <2>1. CASE Rank(j, req) = n
    <3>1. j \in Firsts /\ f <= j /\ j \in Nat /\ j # f
      BY <1>6, <2>1
    <3> QED BY <1>7, <2>1, <3>1 DEF Precedes
  <2>2. CASE Rank(j, req) # n
    <3>1. n < Rank(j, req)
      BY <1>1, <1>4, <2>2
    <3> QED BY <1>7, <3>1 DEF Precedes
  <2> QED BY <2>1, <2>2
<1>9. \E i \in left : \A j \in left \ {i} : Precedes(i, j, req)
  BY <1>7, <1>8
<1> QED BY <1>9, Zenon DEF Foremost

-----------------------------------------------------------------------------
\* The loop has tried candidates in their order, each before all that are left,
\* and a usable candidate is tried or left.
GatewayInv ==
  /\ requirement \in Requirements
  /\ left \in SUBSET Candidates(requirement)
  /\ tried \in Seq(Usable(requirement))
  /\ \A k, l \in DOMAIN tried : k < l => Precedes(tried[k], tried[l], requirement)
  /\ \A k \in DOMAIN tried : \A i \in left : Precedes(tried[k], i, requirement)
  /\ \A i \in Usable(requirement) : i \in left \/ \E k \in DOMAIN tried : tried[k] = i
  /\ answer = "failed" => left = {}

\* What precedes comes at another place.
LEMMA PrecedesOnce ==
  ASSUME GatewayAssumption, NEW req \in Requirements, NEW i \in Candidates(req), NEW j \in Candidates(req),
         Precedes(i, j, req)
  PROVE  i # j /\ Rank(i, req) <= Rank(j, req)
<1>1. i \in Nat /\ j \in Nat /\ Rank(i, req) \in Nat /\ Rank(j, req) \in Nat
  BY CandidatesAre, RankIsNat
<1> QED BY <1>1 DEF Precedes

\* invoke() starts with every candidate left.
LEMMA GatewayStarts == GatewayAssumption /\ GatewayInit => GatewayInv
<1> SUFFICES ASSUME GatewayAssumption, GatewayInit PROVE GatewayInv
  OBVIOUS
<1>1. tried = << >> /\ DOMAIN tried = {} /\ tried \in Seq(Usable(requirement))
  BY DEF GatewayInit
<1>2. requirement \in Requirements /\ left = Candidates(requirement) /\ answer # "failed"
  BY DEF GatewayInit
<1>3. Usable(requirement) \subseteq left
  BY <1>2 DEF Usable
<1> QED BY <1>1, <1>2, <1>3 DEF GatewayInv

\* Every turn of the loop keeps it.
LEMMA GatewaySteps == GatewayAssumption /\ GatewayInv /\ [GatewayNext]_gatewayVars => GatewayInv'
<1> SUFFICES ASSUME GatewayAssumption, GatewayInv, [GatewayNext]_gatewayVars PROVE GatewayInv'
  OBVIOUS
<1> DEFINE U == Usable(requirement)
           C == Candidates(requirement)
<1>1. /\ requirement \in Requirements /\ left \in SUBSET C /\ tried \in Seq(U)
      /\ \A k, l \in DOMAIN tried : k < l => Precedes(tried[k], tried[l], requirement)
      /\ \A k \in DOMAIN tried : \A i \in left : Precedes(tried[k], i, requirement)
      /\ \A i \in U : i \in left \/ \E k \in DOMAIN tried : tried[k] = i
      /\ answer = "failed" => left = {}
  BY DEF GatewayInv
<1>2. C \in SUBSET Nat /\ U \in SUBSET C
  BY CandidatesAre
<1>3. left # {} => /\ Foremost \in left
                   /\ \A j \in left \ {Foremost} : Precedes(Foremost, j, requirement)
  BY <1>1, <1>2, ForemostIs
<1>4. DOMAIN tried = 1..Len(tried) /\ Len(tried) \in Nat
  BY <1>1
<1>5. CASE PassOver
  <2>1. Foremost \notin U
    BY <1>5 DEF PassOver, Usable
  <2> QED BY <1>1, <1>5, <2>1 DEF PassOver, GatewayInv
<1>6. ASSUME NEW outcome \in {"answered", "pending"}, Try(outcome) PROVE GatewayInv'
  <2> DEFINE f == Foremost
             n == Len(tried)
  <2>1. f \in U /\ f \in left /\ \A j \in left \ {f} : Precedes(f, j, requirement)
    BY <1>1, <1>3, <1>6 DEF Try, Usable
  <2>2. /\ tried' = Append(tried, f) /\ left' = left \ {f}
        /\ requirement' = requirement /\ answer' # "failed"
    BY <1>6 DEF Try
  <2> HIDE DEF f, U, C
  <2>3. /\ tried' \in Seq(U) /\ DOMAIN tried' = 1..(n + 1) /\ n \in Nat
        /\ tried'[n + 1] = f /\ \A k \in 1..n : tried'[k] = tried[k]
    BY <1>1, <2>1, <2>2
  <2>4. ASSUME NEW k \in DOMAIN tried', NEW i \in left' PROVE Precedes(tried'[k], i, requirement)
    <3>1. CASE k = n + 1
      BY <2>1, <2>2, <2>3, <3>1
    <3>2. CASE k # n + 1
      BY <1>1, <1>4, <2>2, <2>3, <3>2
    <3> QED BY <3>1, <3>2
  <2>5. ASSUME NEW k \in DOMAIN tried', NEW l \in DOMAIN tried', k < l
        PROVE  Precedes(tried'[k], tried'[l], requirement)
    <3>1. k \in 1..n
      BY <2>3, <2>5
    <3>2. CASE l = n + 1
      BY <1>1, <1>4, <2>1, <2>3, <3>1, <3>2
    <3>3. CASE l # n + 1
      <4>1. l \in 1..n
        BY <2>3, <3>3
      <4> QED BY <1>1, <1>4, <2>3, <2>5, <3>1, <4>1
    <3> QED BY <3>2, <3>3
  <2>6. ASSUME NEW i \in U PROVE i \in left' \/ \E k \in DOMAIN tried' : tried'[k] = i
    <3>1. CASE i = f
      BY <2>3, <3>1
    <3>2. CASE i # f /\ i \in left
      BY <2>2, <3>2
    <3>3. CASE i \notin left
      <4>1. PICK k \in DOMAIN tried : tried[k] = i
        BY <1>1, <3>3
      <4> QED BY <1>4, <2>3, <4>1
    <3> QED BY <3>1, <3>2, <3>3
  <2>7. left' \in SUBSET C
    BY <1>1, <2>2
  <2> QED BY <1>1, <2>2, <2>3, <2>4, <2>5, <2>6, <2>7 DEF GatewayInv, U, C
<1>7. CASE GiveUp
  BY <1>1, <1>7 DEF GiveUp, GatewayInv
<1>8. CASE UNCHANGED gatewayVars
  BY <1>1, <1>8 DEF gatewayVars, GatewayInv
<1> QED BY <1>5, <1>6, <1>7, <1>8 DEF GatewayNext

\* The order of the loop is the order of the property.
LEMMA OrderFollows == GatewayAssumption /\ GatewayInv => GatewayOrder
<1> SUFFICES ASSUME GatewayAssumption, GatewayInv PROVE GatewayOrder
  OBVIOUS
<1> DEFINE req == requirement
           U == Usable(req)
           C == Candidates(req)
<1>1. /\ req \in Requirements /\ left \in SUBSET C /\ tried \in Seq(U)
      /\ \A k, l \in DOMAIN tried : k < l => Precedes(tried[k], tried[l], req)
      /\ \A k \in DOMAIN tried : \A i \in left : Precedes(tried[k], i, req)
      /\ \A i \in U : i \in left \/ \E k \in DOMAIN tried : tried[k] = i
      /\ answer = "failed" => left = {}
  BY DEF GatewayInv
<1>2. C \in SUBSET Nat /\ U \in SUBSET C
  BY CandidatesAre
<1>3. DOMAIN tried = 1..Len(tried) /\ Len(tried) \in Nat /\ \A k \in DOMAIN tried : tried[k] \in U
  BY <1>1
<1>4. ToSet(tried) = {tried[k] : k \in DOMAIN tried}
  BY DEF ToSet
<1> HIDE DEF req, U, C
<1>5. \A k, l \in DOMAIN tried : k < l => tried[k] # tried[l] /\ Rank(tried[k], req) <= Rank(tried[l], req)
  BY <1>1, <1>2, <1>3, PrecedesOnce DEF C
<1>6. IsInjective(tried)
  <2>1. ASSUME NEW k \in DOMAIN tried, NEW l \in DOMAIN tried, tried[k] = tried[l] PROVE k = l
    <3>1. ~(k < l) /\ ~(l < k) /\ k \in Int /\ l \in Int
      BY <1>3, <1>5, <2>1
    <3> QED BY <3>1
  <2> QED BY <2>1, Zenon DEF IsInjective
<1>7. ASSUME NEW k \in DOMAIN tried, NEW i \in U \ ToSet(tried) PROVE Rank(tried[k], req) <= Rank(i, req)
  <2>1. i \in left
    BY <1>1, <1>4
  <2>2. Precedes(tried[k], i, req)
    BY <1>1, <2>1
  <2> QED BY <1>1, <1>2, <1>3, <2>2, PrecedesOnce DEF C
<1>8. answer = "failed" => U \subseteq ToSet(tried)
  BY <1>1, <1>4
<1>9. ToSet(tried) \subseteq U
  BY <1>3, <1>4
<1> QED BY <1>6, <1>7, <1>8, <1>9 DEF GatewayOrder, req, U, C

\* The gateway asks every usable model once, in the order preferred, before it
\* gives up, for every list of models, every requirement and every set of
\* providers that fail.
THEOREM GatewayOrderHolds == GatewaySpec => []GatewayOrder
  BY GatewayStarts, GatewaySteps, OrderFollows, GatewayAssumption, PTL DEF GatewaySpec
=============================================================================
