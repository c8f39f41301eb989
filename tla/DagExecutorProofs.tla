------------------------- MODULE DagExecutorProofs -------------------------
(***************************************************************************)
(* Theorems about the executor, for every plan graph, policy and queue.    *)
(***************************************************************************)
EXTENDS DagExecutor, FiniteSetTheorems, TLAPS

-----------------------------------------------------------------------------
(* Lemmas about the helpers                                                *)

\* The transitions the handlers take are in the node table.
LEMMA Moves ==
  /\ After("PLANNED", "PREPARE") = "READY"
  /\ After("READY", "START") = "RUNNING"
  /\ After("RUNNING", "WAIT") = "WAITING"
  /\ After("RUNNING", "VERIFY") = "VERIFYING"
  /\ After("RUNNING", "FAIL") = "FAILED"
  /\ After("WAITING", "APPROVE") = "RUNNING"
  /\ After("WAITING", "DENY") = "FAILED"
  /\ After("VERIFYING", "COMPLETE") = "COMPLETED"
  /\ After("FAILED", "RETRY") = "RETRYING"
  /\ After("FAILED", "QUARANTINE") = "QUARANTINED"
  /\ After("FAILED", "COMPENSATE") = "COMPENSATING"
  /\ After("RETRYING", "RESUME") = "RUNNING"
  /\ After("COMPENSATING", "ROLLBACK") = "ROLLED_BACK"
BY DEF After, NodeTable

\* promoteReady touches planned nodes whose dependencies are completed only.
LEMMA PromoteFacts ==
  ASSUME NEW st \in [Nodes -> NodeStatus]
  PROVE  /\ Promote(st) \in [Nodes -> NodeStatus]
         /\ \A n \in Nodes :
              \/ Promote(st)[n] = st[n]
              \/ /\ st[n] = "PLANNED" /\ Promote(st)[n] = "READY"
                 /\ \A d \in Deps[n] : st[d] = "COMPLETED"
BY Moves DEF Promote, NodeStatus

\* A skip changes planned nodes only, and those to SKIPPED.
LEMMA SkipFacts ==
  ASSUME NEW st \in [Nodes -> NodeStatus], NEW roots \in SUBSET Nodes,
         \A r \in roots : st[r] \in {"PLANNED", "SKIPPED"}
  PROVE  /\ Skip(st, roots) \in [Nodes -> NodeStatus]
         /\ \A n \in Nodes :
              \/ Skip(st, roots)[n] = st[n]
              \/ st[n] = "PLANNED" /\ Skip(st, roots)[n] = "SKIPPED"
<1> DEFINE S == roots \cup {x \in Nodes : st[x] = "PLANNED"}
<1>1. ASSUME NEW m \in Cascade(st, roots) PROVE m \in S
  BY <1>1 DEF Cascade
<1>2. QED
  BY <1>1 DEF Skip, NodeStatus

\* The position after the taken ones is a positive number.
LEMMA NextPlaceFacts ==
  ASSUME NEW f \in [Nodes -> Nat]
  PROVE  NextPlace(f) \in Nat \ {0}
<1>1. IsFiniteSet({m \in Nodes : f[m] > 0})
  BY GraphAssumption, FS_Subset, {m \in Nodes : f[m] > 0} \subseteq Nodes
<1>2. Cardinality({m \in Nodes : f[m] > 0}) \in Nat
  BY <1>1, FS_CardinalityType
<1>3. QED
  BY <1>2 DEF NextPlace

\* What is emitted keeps the ledger a table of snapshots.
LEMMA EmitFacts ==
  ASSUME NEW L \in Snapshots, NEW n \in Nodes, NEW s \in NodeStatus
  PROVE  /\ Emit(L, n, s) \in Snapshots
         /\ Emit(L, n, s).st = [L.st EXCEPT ![n] = s]
BY DEF Emit, Snapshots

\* What the start of an attempt leaves in the ledger.
LEMMA EmitRunningFacts ==
  ASSUME NEW L \in Snapshots, NEW n \in Nodes, NEW k \in 1..MaxAttempts
  PROVE  /\ EmitRunning(L, n, k) \in Snapshots
         /\ EmitRunning(L, n, k).st = [L.st EXCEPT ![n] = "RUNNING"]
<1>1. L.seen \in [Nodes -> Nat]
  BY DEF Snapshots
<1>2. NextPlace(L.seen) \in Nat
  BY <1>1, NextPlaceFacts
<1>3. QED
  BY <1>1, <1>2 DEF EmitRunning, Snapshots, NodeStatus

\* What a completion leaves in the ledger.
LEMMA EmitCompletedFacts ==
  ASSUME NEW L \in Snapshots, NEW n \in Nodes, result[n] \in {"none", "yes", "no"}
  PROVE  /\ EmitCompleted(L, n) \in Snapshots
         /\ EmitCompleted(L, n).st = [L.st EXCEPT ![n] = "COMPLETED"]
BY DEF EmitCompleted, Snapshots, NodeStatus

\* What hydrate() emits for the nodes it skips.
LEMMA EmitSkippedFacts ==
  ASSUME NEW L \in Snapshots, NEW st
  PROVE  /\ EmitSkipped(L, st) \in Snapshots
         /\ \A n \in Nodes :
              EmitSkipped(L, st).st[n] = IF st[n] = "SKIPPED" THEN "SKIPPED" ELSE L.st[n]
BY DEF EmitSkipped, Snapshots, NodeStatus

\* What finalize() emits for the nodes a cancelled run leaves open.
LEMMA EmitCancelledFacts ==
  ASSUME NEW L \in Snapshots, NEW open
  PROVE  /\ EmitCancelled(L, open) \in Snapshots
         /\ \A n \in Nodes :
              EmitCancelled(L, open).st[n] = IF n \in open THEN "CANCELLED" ELSE L.st[n]
BY DEF EmitCancelled, Snapshots, NodeStatus

\* What hydrate() makes of a table of snapshots: completed nodes stay completed
\* and no others are; a ready node stands on completed ones.
LEMMA HydratedFacts ==
  ASSUME NEW L \in Snapshots
  PROVE  /\ Hydrated(L) \in [Nodes -> NodeStatus]
         /\ \A n \in Nodes :
              /\ Hydrated(L)[n] = "COMPLETED" <=> L.st[n] = "COMPLETED"
              /\ Hydrated(L)[n] \in Terminal \cup {"PLANNED", "READY"}
              /\ Hydrated(L)[n] = "SKIPPED" => L.st[n] # "COMPLETED"
              /\ Hydrated(L)[n] = "READY" =>
                   \A d \in Deps[n] : Hydrated(L)[d] = "COMPLETED"
<1> DEFINE kept == [n \in Nodes |-> IF L.st[n] \in Terminal THEN L.st[n] ELSE "PLANNED"]
           roots == {n \in Nodes : kept[n] = "SKIPPED"}
           st == Skip(kept, roots)
<1>1. /\ L.st \in [Nodes -> NodeStatus]
      /\ kept \in [Nodes -> NodeStatus]
  BY DEF Snapshots, Terminal, NodeStatus
<1>2. /\ st \in [Nodes -> NodeStatus]
      /\ \A n \in Nodes : st[n] = kept[n] \/ (kept[n] = "PLANNED" /\ st[n] = "SKIPPED")
  <2> HIDE DEF kept
  <2> QED BY <1>1, SkipFacts
<1>3. /\ Promote(st) \in [Nodes -> NodeStatus]
      /\ \A n \in Nodes :
           \/ Promote(st)[n] = st[n]
           \/ /\ st[n] = "PLANNED" /\ Promote(st)[n] = "READY"
              /\ \A d \in Deps[n] : st[d] = "COMPLETED"
  <2> HIDE DEF st
  <2> QED BY <1>2, PromoteFacts
<1>4. Hydrated(L) = Promote(st)
  BY DEF Hydrated
<1>5. \A n \in Nodes : kept[n] = IF L.st[n] \in Terminal THEN L.st[n] ELSE "PLANNED"
  OBVIOUS
<1>6. \A n \in Nodes : kept[n] \in Terminal \cup {"PLANNED"}
  BY <1>5
<1> HIDE DEF kept, st
<1>7. \A n \in Nodes : \A d \in Deps[n] : d \in Nodes
  BY GraphAssumption
<1>8. \A n \in Nodes : Promote(st)[n] = "COMPLETED" <=> st[n] = "COMPLETED"
  BY <1>3
<1>9. \A n \in Nodes : st[n] = "COMPLETED" <=> L.st[n] = "COMPLETED"
  BY <1>2, <1>5 DEF Terminal
<1>10. \A n \in Nodes : st[n] \in Terminal \cup {"PLANNED"}
  BY <1>2, <1>6 DEF Terminal
<1>11. \A n \in Nodes : Promote(st)[n] = "READY" =>
         \A d \in Deps[n] : Promote(st)[d] = "COMPLETED"
  BY <1>3, <1>7, <1>8, <1>10 DEF Terminal
<1>12. \A n \in Nodes : Promote(st)[n] = "SKIPPED" => L.st[n] # "COMPLETED"
  BY <1>8, <1>9
<1>13. \A n \in Nodes : Promote(st)[n] \in Terminal \cup {"PLANNED", "READY"}
  BY <1>3, <1>10
<1>14. QED
  BY <1>3, <1>4, <1>8, <1>9, <1>11, <1>12, <1>13

-----------------------------------------------------------------------------
(* The inductive invariant                                                 *)

\* Where executeWithRetry stands fixes the status of the node.
Fits(e, s) ==
  /\ e = "idle" => s \in {"PLANNED", "READY"} \cup (Terminal \ {"COMPLETED"})
  /\ e \in {"announced", "granted", "acting", "routed"} => s = "RUNNING"
  /\ e = "asking" => s = "WAITING"
  /\ e = "denied" => s = "FAILED"
  /\ e = "verified" => s = "VERIFYING"
  /\ e = "backoff" => s = "RETRYING"
  /\ e = "compensating" => s = "COMPENSATING"
  /\ e = "sweeping" => s = "ROLLED_BACK"
  /\ e = "fulfilled" => s = "COMPLETED"
  /\ e = "rejected" => s \in {"FAILED", "QUARANTINED", "ROLLED_BACK", "WAITING"}

StatusFits == \A n \in Nodes : Fits(exec[n], status[n])

\* There is an attempt left for every node in backoff.
AttemptLeft == \A n \in Nodes : exec[n] = "backoff" => attempt[n] < MaxAttempts

\* A node under way is held by a delivery, unless run() has rejected.
Settled(e, s) == e \in {"idle", "fulfilled", "rejected"} /\ s # "WAITING"
Held ==
  driver # "rejected" =>
    \A n \in Nodes : Settled(exec[n], status[n])
                     \/ \E j \in Jobs : j[1] = n /\ job[j] = "awaiting"

\* Between waves no worker has anything in hand.
WorkersFree ==
  driver \in {"driving", "finished"} =>
    \A j \in Jobs : job[j] \notin {"acquiring", "awaiting", "thrown"}

\* What is queued for the first time is ready.
QueuedReady ==
  driver # "finished" =>
    \A j \in Jobs : job[j] \in {"queued", "acquiring"} /\ exec[j[1]] = "idle"
                      => status[j[1]] = "READY"

ReadyDeps ==
  \A n \in Nodes : status[n] = "READY" => \A d \in Deps[n] : status[d] = "COMPLETED"

\* Memory, ledger and disk agree on what is completed, disk lagging behind.
DoneLogged ==
  \A n \in Nodes : /\ status[n] = "COMPLETED" <=> ledger.st[n] = "COMPLETED"
                   /\ durable.st[n] = "COMPLETED" => ledger.st[n] = "COMPLETED"

\* What a ledger holds of a node that ran stands on completed dependencies.
Begun(s) == s \notin {"PLANNED", "SKIPPED", "CANCELLED"}
Grounded(L) ==
  \A n \in Nodes : Begun(L.st[n]) => \A d \in Deps[n] : L.st[d] = "COMPLETED"

\* A node's first event is on disk before anything else happens to it.
Announced == \A n \in Nodes : exec[n] # "idle" => Begun(ledger.st[n]) /\ Begun(durable.st[n])

IInv ==
  /\ TypeOK /\ StatusFits /\ AttemptLeft /\ Held /\ WorkersFree /\ QueuedReady /\ ReadyDeps
  /\ DoneLogged /\ Grounded(ledger) /\ Grounded(durable) /\ Announced

\* The completion of a dependency that was used is on disk.
LEMMA IInvDurableDeps == IInv => DurableDeps
<1> SUFFICES ASSUME IInv, NEW n \in Nodes, exec[n] # "idle", NEW x \in Deps[n]
             PROVE  status[x] = "COMPLETED" /\ durable.st[x] = "COMPLETED"
  BY DEF DurableDeps
<1>1. x \in Nodes
  BY GraphAssumption
<1>2. durable.st[x] = "COMPLETED"
  BY <1>1 DEF IInv, Announced, Grounded
<1>3. QED
  BY <1>1, <1>2 DEF IInv, DoneLogged

-----------------------------------------------------------------------------
(* Type correctness                                                        *)

\* A job is a delivery of a node.
LEMMA JobFacts == \A j \in Jobs : j[1] \in Nodes
BY DEF Jobs

\* A new executor has the types.
LEMMA InitType == Init => TypeOK
<1> SUFFICES ASSUME Init PROVE TypeOK
  OBVIOUS
<1>1. [n \in Nodes |-> "PLANNED"] \in [Nodes -> NodeStatus]
  BY DEF NodeStatus
<1>2. status \in [Nodes -> NodeStatus]
  BY <1>1, PromoteFacts DEF Init
<1>3. ledger \in Snapshots /\ durable \in Snapshots
  BY PolicyAssumption DEF Init, Snapshots, NodeStatus
<1>4. attempt \in [Nodes -> 1..MaxAttempts] /\ crashes \in 0..MaxCrashes
  BY PolicyAssumption, QueueAssumption DEF Init
<1>5. /\ failures \in [Nodes -> Nat] /\ order \in [Nodes -> Nat]
      /\ calls \in [Nodes -> Nat] /\ effects \in [Nodes -> Nat]
      /\ zombies \in [Nodes -> Nat] /\ undone \in [Nodes -> Nat]
      /\ used \in [DOMAIN Limit -> Nat]
  BY DEF Init
<1>6. /\ result \in [Nodes -> {"none", "yes", "no"}]
      /\ exec \in [Nodes -> ExecState]
      /\ sweep \in [Nodes -> SUBSET Nodes]
      /\ job \in [Jobs -> {"absent", "queued", "acquiring", "awaiting", "thrown", "done"}]
  BY DEF Init, ExecState
<1>7. /\ running \subseteq Nodes /\ cancelled \in BOOLEAN
      /\ driver \in {"driving", "dispatching", "finished", "rejected"}
      /\ verdicts \subseteq {"COMPLETED", "FAILED", "QUARANTINED", "CANCELLED"}
  BY DEF Init
<1>8. QED
  BY <1>2, <1>3, <1>4, <1>5, <1>6, <1>7 DEF TypeOK

\* drive(), cancel() and the workers.
LEMMA DriveType ==
  ASSUME IInv, Drive \/ Cancel
  PROVE  TypeOK'
<1> USE DEF IInv, TypeOK, runVars, nodeVars, execVars, queueVars, logVars, worldVars
<1>1. CASE Enqueue
  BY <1>1, JobFacts DEF Enqueue, Record
<1>2. CASE Join
  BY <1>2 DEF Join
<1>3. CASE Finish
  <2> DEFINE open == IF cancelled THEN {n \in Nodes : status[n] \notin Terminal} ELSE {}
             ends == [n \in Nodes |-> IF n \in open THEN "CANCELLED" ELSE status[n]]
  <2>1. status' = ends /\ ends \in [Nodes -> NodeStatus]
    BY <1>3 DEF Finish, NodeStatus
  <2>2. ledger' \in Snapshots /\ durable' \in Snapshots
    BY <1>3, EmitCancelledFacts DEF Finish, Record
  <2>3. Verdict(ends) \in {"COMPLETED", "FAILED", "QUARANTINED", "CANCELLED"}
    BY DEF Verdict
  <2>4. verdicts' \subseteq {"COMPLETED", "FAILED", "QUARANTINED", "CANCELLED"}
    BY <1>3, <2>3 DEF Finish
  <2>5. QED
    BY <1>3, <2>1, <2>2, <2>4 DEF Finish
<1>4. CASE Cancel
  BY <1>4 DEF Cancel
<1>5. QED
  BY <1>1, <1>2, <1>3, <1>4 DEF Drive

\* Seats are counted in natural numbers.
LEMMA AdmitType ==
  ASSUME IInv, NEW j \in Jobs, job[j] \in {"queued", "acquiring"}, driver # "finished", Admit(j)
  PROVE  TypeOK'
<1> DEFINE n == j[1]
<1>1. n \in Nodes
  BY JobFacts
<1>2. used' \in [DOMAIN Limit -> Nat]
  BY DEF Admit, IInv, TypeOK
<1>3. CASE exec[n] = "idle"
  <2>1. status[n] = "READY"
    BY <1>3 DEF IInv, QueuedReady
  <2>2. Announce(n, "START", attempt[n])
    BY <1>3 DEF Admit
  <2>3. status' \in [Nodes -> NodeStatus]
    BY <1>1, <2>1, <2>2, Moves DEF Announce, IInv, TypeOK, NodeStatus
  <2>4. ledger' \in Snapshots /\ durable' \in Snapshots
    BY <1>1, <2>2, EmitRunningFacts DEF Announce, Record, IInv, TypeOK
  <2>5. exec' \in [Nodes -> ExecState]
    BY <1>1, <2>2 DEF Announce, IInv, TypeOK, ExecState
  <2>6. attempt' \in [Nodes -> 1..MaxAttempts]
    BY <1>1, <2>2 DEF Announce, IInv, TypeOK
  <2>7. QED
    BY <1>1, <1>2, <2>3, <2>4, <2>5, <2>6
    DEF Admit, IInv, TypeOK, runVars, worldVars
<1>4. CASE exec[n] # "idle"
  BY <1>1, <1>2, <1>4 DEF Admit, Announce, IInv, TypeOK, runVars, worldVars, logVars
<1>5. QED
  BY <1>3, <1>4

\* A delivery that gives its seats back keeps the types of the workers' state.
LEMMA ReleaseType ==
  ASSUME IInv, NEW j \in Jobs, NEW fate \in {"done", "thrown"}, Release(j, fate)
  PROVE  /\ job' \in [Jobs -> {"absent", "queued", "acquiring", "awaiting", "thrown", "done"}]
         /\ running' \subseteq Nodes
         /\ used' \in [DOMAIN Limit -> Nat]
BY DEF Release, IInv, TypeOK

\* Nothing a worker does with a delivery leaves the types.
LEMMA JobType ==
  ASSUME IInv, NEW j \in Jobs, JobStep(j)
  PROVE  TypeOK'
<1> DEFINE n == j[1]
<1>1. n \in Nodes
  BY JobFacts
<1>2. CASE Take(j) \/ Poll(j)
  <2>1. CASE Admit(j) /\ job[j] \in {"queued", "acquiring"} /\ driver # "finished"
    BY <2>1, AdmitType
  <2>2. CASE Poll(j)
    BY <2>2, <2>1 DEF Poll, IInv, WorkersFree
  <2>3. CASE Take(j) /\ ~SlotFree(j[1])
    BY <2>3 DEF Take, IInv, TypeOK, nodeVars, execVars, runVars, logVars, worldVars
  <2>4. QED
    BY <1>2, <2>1, <2>2, <2>3 DEF Take
<1>3. CASE Complete(j)
  <2>1. status[n] = "VERIFYING"
    BY <1>1, <1>3 DEF Complete, IInv, StatusFits, Fits
  <2> DEFINE st == [status EXCEPT ![n] = "COMPLETED"]
  <2>2. st \in [Nodes -> NodeStatus]
    BY <1>1 DEF IInv, TypeOK, NodeStatus
  <2>3. status' = Promote(st)
    BY <1>1, <1>3, <2>1, Moves DEF Complete, IInv, TypeOK
  <2>4. status' \in [Nodes -> NodeStatus]
    <3> HIDE DEF st
    <3> QED BY <2>2, <2>3, PromoteFacts
  <2>5. ledger' \in Snapshots
    BY <1>1, <1>3, EmitCompletedFacts DEF Complete, IInv, TypeOK
  <2>6. order' \in [Nodes -> Nat]
    <3>1. NextPlace(order) \in Nat
      BY NextPlaceFacts DEF IInv, TypeOK
    <3>2. QED
      BY <1>1, <1>3, <3>1 DEF Complete, IInv, TypeOK
  <2>7. exec' \in [Nodes -> ExecState]
    BY <1>1, <1>3 DEF Complete, IInv, TypeOK, ExecState
  <2>8. QED
    BY <1>3, <2>4, <2>5, <2>6, <2>7, ReleaseType
    DEF Complete, IInv, TypeOK, runVars, worldVars
<1>4. CASE Leave(j)
  BY <1>4, ReleaseType DEF Leave, IInv, TypeOK, nodeVars, execVars, runVars, logVars, worldVars
<1>5. CASE Throw(j)
  BY <1>5, ReleaseType DEF Throw, IInv, TypeOK, nodeVars, execVars, logVars, worldVars
<1>6. QED
  BY <1>2, <1>3, <1>4, <1>5 DEF JobStep

-----------------------------------------------------------------------------
(* The segments of one node have one shape                                 *)

\* What a segment of node n under way does to the tables: n moves between
\* statuses of a node under way, planned nodes may be skipped, the ledger
\* follows, and disk follows the ledger or stays.
Segment(n) ==
  /\ exec[n] \notin {"idle", "fulfilled", "rejected"}
  /\ exec'[n] \notin {"idle", "fulfilled"} /\ Fits(exec'[n], status'[n])
  /\ exec'[n] = "backoff" => attempt'[n] < MaxAttempts
  /\ Begun(ledger'.st[n]) /\ ledger'.st[n] # "COMPLETED"
  /\ \A m \in Nodes \ {n} :
       /\ exec'[m] = exec[m] /\ attempt'[m] = attempt[m]
       /\ status'[m] = status[m] \/ (status[m] = "PLANNED" /\ status'[m] = "SKIPPED")
       /\ ledger'.st[m] = ledger.st[m]
            \/ (status'[m] = "SKIPPED" /\ ledger'.st[m] = "SKIPPED")
  /\ durable' = durable \/ durable' = ledger'
  /\ job' = job /\ driver' = driver

\* The node of a segment is logged as begun and not completed.
LEMMA UnderWay ==
  ASSUME IInv, NEW n \in Nodes, exec[n] \notin {"idle", "fulfilled", "rejected"}
  PROVE  /\ Begun(ledger.st[n]) /\ ledger.st[n] # "COMPLETED"
         /\ status[n] # "COMPLETED"
BY DEF IInv, TypeOK, Announced, DoneLogged, StatusFits, Fits, ExecState

\* The catch block, entered with the statuses st and the ledger L.
LEMMA CatchFacts ==
  ASSUME IInv, NEW n \in Nodes, NEW error,
         NEW st \in [Nodes -> NodeStatus], NEW L \in Snapshots,
         exec[n] \notin {"idle", "fulfilled", "rejected"},
         st[n] \in {"RUNNING", "FAILED", "WAITING"},
         Begun(L.st[n]), L.st[n] # "COMPLETED",
         Catch(n, error, st, L)
  PROVE  /\ status' \in [Nodes -> NodeStatus] /\ exec' \in [Nodes -> ExecState]
         /\ failures' \in [Nodes -> Nat]
         /\ ledger' \in Snapshots /\ durable' \in Snapshots
         /\ exec'[n] \in {"rejected", "backoff", "compensating"}
         /\ Fits(exec'[n], status'[n])
         /\ exec'[n] = "backoff" => attempt[n] < MaxAttempts
         /\ Begun(ledger'.st[n]) /\ ledger'.st[n] # "COMPLETED"
         /\ \A m \in Nodes \ {n} :
              exec'[m] = exec[m] /\ status'[m] = st[m] /\ ledger'.st[m] = L.st[m]
         /\ durable' = durable \/ durable' = ledger'
<1> DEFINE Into(e, s) ==
             /\ status' = [st EXCEPT ![n] = s] /\ exec' = [exec EXCEPT ![n] = e]
           Logs(s) == Record(Emit(L, n, s))
           Logs0 == ledger' = L /\ UNCHANGED durable
<1>1. failures' \in [Nodes -> Nat]
  BY DEF Catch, IInv, TypeOK
<1>2. \/ status' = st /\ exec' = [exec EXCEPT ![n] = "rejected"] /\ Logs0 /\ st[n] # "RUNNING"
      \/ Into("rejected", "QUARANTINED") /\ Logs("QUARANTINED")
      \/ Into("compensating", "COMPENSATING") /\ Logs("COMPENSATING")
      \/ Into("rejected", "FAILED") /\ Logs("FAILED")
      \/ Into("backoff", "RETRYING") /\ Logs("RETRYING") /\ attempt[n] < MaxAttempts
  BY Moves DEF Catch, FailNode, IInv, TypeOK, NodeStatus
<1>3. CASE status' = st /\ exec' = [exec EXCEPT ![n] = "rejected"] /\ Logs0 /\ st[n] # "RUNNING"
  BY <1>1, <1>3 DEF IInv, TypeOK, ExecState, Fits
<1>4. ASSUME NEW s \in {"QUARANTINED", "COMPENSATING", "FAILED", "RETRYING"}, Logs(s)
      PROVE  /\ ledger' \in Snapshots /\ durable' = ledger'
             /\ ledger'.st[n] = s
             /\ \A m \in Nodes \ {n} : ledger'.st[m] = L.st[m]
  <2>1. s \in NodeStatus
    BY DEF NodeStatus
  <2>2. L.st \in [Nodes -> NodeStatus]
    BY DEF Snapshots
  <2>3. ledger' = Emit(L, n, s) /\ durable' = Emit(L, n, s)
    BY <1>4 DEF Record
  <2>4. Emit(L, n, s) \in Snapshots /\ Emit(L, n, s).st = [L.st EXCEPT ![n] = s]
    BY <2>1, EmitFacts
  <2>5. QED
    BY <2>2, <2>3, <2>4
<1>5. ASSUME NEW s \in {"QUARANTINED", "COMPENSATING", "FAILED", "RETRYING"},
             NEW e \in {"rejected", "compensating", "backoff"}, Into(e, s)
      PROVE  /\ status' \in [Nodes -> NodeStatus] /\ exec' \in [Nodes -> ExecState]
             /\ status'[n] = s /\ exec'[n] = e
             /\ \A m \in Nodes \ {n} : status'[m] = st[m] /\ exec'[m] = exec[m]
  BY <1>5 DEF IInv, TypeOK, ExecState, NodeStatus
<1>6. CASE Into("rejected", "QUARANTINED") /\ Logs("QUARANTINED")
  BY <1>1, <1>4, <1>5, <1>6 DEF Fits, Begun
<1>7. CASE Into("compensating", "COMPENSATING") /\ Logs("COMPENSATING")
  BY <1>1, <1>4, <1>5, <1>7 DEF Fits, Begun
<1>8. CASE Into("rejected", "FAILED") /\ Logs("FAILED")
  BY <1>1, <1>4, <1>5, <1>8 DEF Fits, Begun
<1>9. CASE Into("backoff", "RETRYING") /\ Logs("RETRYING") /\ attempt[n] < MaxAttempts
  BY <1>1, <1>4, <1>5, <1>9 DEF Fits, Begun
<1>10. QED
  BY <1>2, <1>3, <1>6, <1>7, <1>8, <1>9

\* An attempt that throws where it stands.
LEMMA ThrowsSegment ==
  ASSUME IInv, NEW n \in Nodes, NEW error, Throws(n, error),
         exec[n] \in {"announced", "granted", "acting", "denied", "asking"},
         calls' \in [Nodes -> Nat], effects' \in [Nodes -> Nat],
         zombies' \in [Nodes -> Nat], undone' \in [Nodes -> Nat]
  PROVE  TypeOK' /\ Segment(n)
<1>1. status[n] \in {"RUNNING", "FAILED", "WAITING"}
  BY DEF IInv, StatusFits, Fits
<1>2. /\ exec[n] \notin {"idle", "fulfilled", "rejected"}
      /\ status \in [Nodes -> NodeStatus] /\ ledger \in Snapshots
      /\ Catch(n, error, status, ledger)
  BY DEF IInv, TypeOK, Throws
<1>3. Begun(ledger.st[n]) /\ ledger.st[n] # "COMPLETED"
  BY <1>2, UnderWay
<1>4. /\ status' \in [Nodes -> NodeStatus] /\ exec' \in [Nodes -> ExecState]
      /\ failures' \in [Nodes -> Nat]
      /\ ledger' \in Snapshots /\ durable' \in Snapshots
      /\ exec'[n] \in {"rejected", "backoff", "compensating"}
      /\ Fits(exec'[n], status'[n])
      /\ exec'[n] = "backoff" => attempt[n] < MaxAttempts
      /\ Begun(ledger'.st[n]) /\ ledger'.st[n] # "COMPLETED"
      /\ \A m \in Nodes \ {n} :
           exec'[m] = exec[m] /\ status'[m] = status[m] /\ ledger'.st[m] = ledger.st[m]
      /\ durable' = durable \/ durable' = ledger'
  BY <1>1, <1>2, <1>3, CatchFacts
<1>5. /\ UNCHANGED <<attempt, result, sweep, order, job, running, used>>
      /\ UNCHANGED <<driver, cancelled, verdicts, crashes>>
  BY DEF Throws, queueVars, runVars
<1>6. TypeOK'
  BY <1>4, <1>5 DEF IInv, TypeOK
<1>7. Segment(n)
  BY <1>2, <1>4, <1>5 DEF Segment
<1>8. QED
  BY <1>6, <1>7

\* A segment that moves only its node, and emits at most one event of it.
LEMMA StepSegment ==
  ASSUME IInv, NEW n \in Nodes, NEW s \in NodeStatus, NEW e \in ExecState,
         exec[n] \notin {"idle", "fulfilled", "rejected"},
         e \notin {"idle", "fulfilled", "rejected", "backoff"}, Fits(e, s),
         Step(n, [status EXCEPT ![n] = s], e),
         \/ UNCHANGED logVars
         \/ Record(ledger)
         \/ Begun(s) /\ s # "COMPLETED" /\ Record(Emit(ledger, n, s)),
         result' \in [Nodes -> {"none", "yes", "no"}],
         calls' \in [Nodes -> Nat], effects' \in [Nodes -> Nat],
         zombies' \in [Nodes -> Nat], undone' \in [Nodes -> Nat]
  PROVE  TypeOK' /\ Segment(n)
<1>1. /\ status' = [status EXCEPT ![n] = s]
      /\ exec' = [exec EXCEPT ![n] = e]
      /\ UNCHANGED <<attempt, failures, sweep, order, job, running, used>>
      /\ UNCHANGED <<driver, cancelled, verdicts, crashes>>
  BY DEF Step, queueVars, runVars
<1>2. Begun(ledger.st[n]) /\ ledger.st[n] # "COMPLETED"
  BY UnderWay
<1>3. /\ Emit(ledger, n, s) \in Snapshots
      /\ Emit(ledger, n, s).st = [ledger.st EXCEPT ![n] = s]
      /\ ledger.st \in [Nodes -> NodeStatus]
  <2>1. ledger \in Snapshots
    BY DEF IInv, TypeOK
  <2>2. ledger.st \in [Nodes -> NodeStatus]
    BY <2>1 DEF Snapshots
  <2>3. QED
    BY <2>1, <2>2, EmitFacts
<1>4. /\ ledger' \in Snapshots /\ durable' \in Snapshots
      /\ Begun(ledger'.st[n]) /\ ledger'.st[n] # "COMPLETED"
      /\ \A m \in Nodes \ {n} : ledger'.st[m] = ledger.st[m]
      /\ durable' = durable \/ durable' = ledger'
  <2>1. CASE ledger' = ledger /\ (durable' = durable \/ durable' = ledger)
    BY <1>2, <2>1 DEF IInv, TypeOK
  <2>2. CASE /\ Begun(s) /\ s # "COMPLETED"
             /\ ledger' = Emit(ledger, n, s) /\ durable' = Emit(ledger, n, s)
    BY <1>3, <2>2
  <2>3. QED
    BY <2>1, <2>2 DEF Record, logVars
<1>5. TypeOK'
  BY <1>1, <1>4 DEF IInv, TypeOK
<1>6. exec'[n] = e /\ status'[n] = s
  BY <1>1 DEF IInv, TypeOK
<1>7. \A m \in Nodes \ {n} :
        exec'[m] = exec[m] /\ attempt'[m] = attempt[m] /\ status'[m] = status[m]
  BY <1>1 DEF IInv, TypeOK
<1>8. Segment(n)
  BY <1>1, <1>4, <1>6, <1>7 DEF Segment
<1>9. QED
  BY <1>5, <1>8

\* Asking for an approval, and the answer.
LEMMA ApprovalSegments ==
  ASSUME IInv, NEW n \in Nodes, Ask(n) \/ Grant(n) \/ Deny(n) \/ Refuse(n) \/ ApprovalFails(n)
  PROVE  TypeOK' /\ Segment(n)
<1> USE Moves DEF worldVars
<1>1. CASE Ask(n)
  <2>1. status[n] = "RUNNING" /\ exec[n] = "announced"
    BY <1>1 DEF Ask, IInv, StatusFits, Fits
  <2>2. Step(n, [status EXCEPT ![n] = "WAITING"], "asking")
    BY <1>1, <2>1 DEF Ask, IInv, TypeOK
  <2>3. QED
    BY <1>1, <2>1, <2>2, StepSegment
    DEF Ask, IInv, TypeOK, NodeStatus, ExecState, Fits
<1>2. CASE Grant(n)
  <2>1. status[n] = "WAITING" /\ exec[n] = "asking"
    BY <1>2 DEF Grant, IInv, StatusFits, Fits
  <2>2. Step(n, [status EXCEPT ![n] = "RUNNING"], "granted")
    BY <1>2, <2>1 DEF Grant, IInv, TypeOK
  <2>3. QED
    BY <1>2, <2>1, <2>2, StepSegment
    DEF Grant, IInv, TypeOK, NodeStatus, ExecState, Fits
<1>3. CASE Deny(n)
  <2>1. status[n] = "WAITING" /\ exec[n] = "asking"
    BY <1>3 DEF Deny, IInv, StatusFits, Fits
  <2>2. Step(n, [status EXCEPT ![n] = "FAILED"], "denied")
    BY <1>3, <2>1 DEF Deny, IInv, TypeOK
  <2>3. QED
    BY <1>3, <2>1, <2>2, StepSegment
    DEF Deny, IInv, TypeOK, NodeStatus, ExecState, Fits
<1>4. CASE Refuse(n)
  BY <1>4, ThrowsSegment DEF Refuse, IInv, TypeOK
<1>5. CASE ApprovalFails(n)
  BY <1>5, ThrowsSegment DEF ApprovalFails, IInv, TypeOK
<1>6. QED
  BY <1>1, <1>2, <1>3, <1>4, <1>5

\* The handler's call and its answer.
LEMMA HandlerSegments ==
  ASSUME IInv, NEW n \in Nodes,
         Invoke(n) \/ Unresolved(n) \/ Succeed(n) \/ Approved(n) \/ Fail(n) \/ Timeout(n)
           \/ Routed(n)
  PROVE  TypeOK' /\ Segment(n)
<1> USE Moves DEF worldVars
<1>1. ASSUME MayAct(n)
      PROVE  exec[n] \in {"announced", "granted"} /\ status[n] = "RUNNING"
  BY <1>1 DEF MayAct, IInv, StatusFits, Fits
<1>2. CASE Invoke(n)
  <2>1. status[n] = "RUNNING" /\ exec[n] \in {"announced", "granted"}
    BY <1>1, <1>2 DEF Invoke
  <2>2. Step(n, [status EXCEPT ![n] = "RUNNING"], "acting")
    BY <1>2, <2>1 DEF Invoke, Step, IInv, TypeOK
  <2>3. calls' \in [Nodes -> Nat]
    BY <1>2 DEF Invoke, IInv, TypeOK
  <2>4. QED
    BY <1>2, <2>1, <2>2, <2>3, StepSegment
    DEF Invoke, IInv, TypeOK, NodeStatus, ExecState, Fits
<1>3. CASE Unresolved(n)
  BY <1>1, <1>3, ThrowsSegment DEF Unresolved, IInv, TypeOK
<1>4. ASSUME NEW value \in {"yes", "no", "none"}, Verified(n, value),
             exec[n] \in {"acting", "granted", "routed"},
             calls' \in [Nodes -> Nat], effects' \in [Nodes -> Nat],
             zombies' \in [Nodes -> Nat], undone' \in [Nodes -> Nat]
      PROVE  TypeOK' /\ Segment(n)
  <2>1. status[n] = "RUNNING"
    BY <1>4 DEF IInv, StatusFits, Fits
  <2>2. Step(n, [status EXCEPT ![n] = "VERIFYING"], "verified")
    BY <1>4, <2>1 DEF Verified, IInv, TypeOK
  <2>3. result' \in [Nodes -> {"none", "yes", "no"}]
    BY <1>4 DEF Verified, IInv, TypeOK
  <2>4. Record(Emit(ledger, n, "VERIFYING"))
    BY <1>4 DEF Verified
  <2>5. QED
    BY <1>4, <2>2, <2>3, <2>4, StepSegment DEF NodeStatus, ExecState, Fits, Begun
<1>5. CASE Succeed(n)
  <2>1. PICK value \in {"yes", "no"} : Verified(n, value)
    BY <1>5 DEF Succeed, Says
  <2>2. effects' \in [Nodes -> Nat]
    BY <1>5 DEF Succeed, IInv, TypeOK
  <2>3. QED
    BY <1>4, <1>5, <2>1, <2>2 DEF Succeed, IInv, TypeOK
<1>6. CASE Approved(n)
  BY <1>4, <1>6 DEF Approved, IInv, TypeOK
<1>7. CASE Routed(n)
  BY <1>4, <1>7 DEF Routed, IInv, TypeOK
<1>8. CASE Fail(n)
  BY <1>8, ThrowsSegment DEF Fail, IInv, TypeOK
<1>9. CASE Timeout(n)
  <2>1. zombies' \in [Nodes -> Nat]
    BY <1>9 DEF Timeout, IInv, TypeOK
  <2>2. QED
    BY <1>9, <2>1, ThrowsSegment DEF Timeout, IInv, TypeOK
<1>10. QED
  BY <1>2, <1>3, <1>5, <1>6, <1>7, <1>8, <1>9

\* A conditional skips the branch it did not take, all of it or up to a throw.
LEMMA RouteSegment ==
  ASSUME IInv, NEW n \in Nodes, NEW branch \in {"yes", "no"}, Route(n, branch)
  PROVE  TypeOK' /\ Segment(n)
<1> DEFINE targets == Untaken(n, branch)
           roots == SkipRoots(status, targets)
           st == Skip(status, roots)
           L == EmitSkipped(ledger, st)
<1>1. exec[n] \in {"acting", "announced"} /\ status[n] = "RUNNING"
  BY DEF Route, Source, IInv, StatusFits, Fits
<1>2. roots \in SUBSET Nodes /\ \A r \in roots : status[r] \in {"PLANNED", "SKIPPED"}
  <2>1. Then[n] \in Seq(Nodes) /\ Else[n] \in Seq(Nodes)
    BY GraphAssumption
  <2>2. targets \in Seq(Nodes)
    BY <2>1 DEF Untaken
  <2>3. QED
    BY <2>2 DEF SkipRoots
<1>3. status \in [Nodes -> NodeStatus] /\ ledger \in Snapshots
  BY DEF IInv, TypeOK
<1>4. \/ /\ Step(n, st, "routed")
         /\ ledger' = L /\ durable' = durable
         /\ result' = [result EXCEPT ![n] = branch]
      \/ /\ Catch(n, "illegal", st, L)
         /\ UNCHANGED <<attempt, result, sweep, order, queueVars, runVars>>
  BY DEF Route
<1> HIDE DEF targets, roots
<1>5. /\ st \in [Nodes -> NodeStatus]
      /\ \A m \in Nodes : st[m] = status[m] \/ (status[m] = "PLANNED" /\ st[m] = "SKIPPED")
  BY <1>2, <1>3, SkipFacts
<1> HIDE DEF st
<1>6. /\ L \in Snapshots
      /\ \A m \in Nodes : L.st[m] = IF st[m] = "SKIPPED" THEN "SKIPPED" ELSE ledger.st[m]
  BY <1>3, EmitSkippedFacts
<1> HIDE DEF L
<1>7. st[n] = "RUNNING" /\ L.st[n] = ledger.st[n]
  BY <1>1, <1>5, <1>6
<1>8. Begun(L.st[n]) /\ L.st[n] # "COMPLETED"
  BY <1>1, <1>7, UnderWay
<1>9. /\ calls' \in [Nodes -> Nat] /\ effects' \in [Nodes -> Nat]
      /\ zombies' \in [Nodes -> Nat] /\ undone' \in [Nodes -> Nat]
  BY DEF Route, IInv, TypeOK
<1>10. CASE /\ Step(n, st, "routed")
            /\ ledger' = L /\ durable' = durable
            /\ result' = [result EXCEPT ![n] = branch]
  <2>1. /\ status' = st
        /\ exec' = [exec EXCEPT ![n] = "routed"]
        /\ UNCHANGED <<attempt, failures, sweep, order, job, running, used>>
        /\ UNCHANGED <<driver, cancelled, verdicts, crashes>>
    BY <1>10 DEF Step, queueVars, runVars
  <2>2. result' \in [Nodes -> {"none", "yes", "no"}] /\ exec' \in [Nodes -> ExecState]
    BY <1>10, <2>1 DEF IInv, TypeOK, ExecState
  <2>3. TypeOK'
    BY <1>5, <1>6, <1>9, <1>10, <2>1, <2>2 DEF IInv, TypeOK
  <2>4. exec'[n] = "routed" /\ \A m \in Nodes \ {n} : exec'[m] = exec[m]
    BY <2>1 DEF IInv, TypeOK
  <2>5. Segment(n)
    BY <1>1, <1>5, <1>6, <1>7, <1>8, <1>10, <2>1, <2>4 DEF Segment, Fits
  <2>6. QED
    BY <2>3, <2>5
<1>11. CASE /\ Catch(n, "illegal", st, L)
            /\ UNCHANGED <<attempt, result, sweep, order, queueVars, runVars>>
  <2>1. /\ status' \in [Nodes -> NodeStatus] /\ exec' \in [Nodes -> ExecState]
        /\ failures' \in [Nodes -> Nat]
        /\ ledger' \in Snapshots /\ durable' \in Snapshots
        /\ exec'[n] \in {"rejected", "backoff", "compensating"}
        /\ Fits(exec'[n], status'[n])
        /\ exec'[n] = "backoff" => attempt[n] < MaxAttempts
        /\ Begun(ledger'.st[n]) /\ ledger'.st[n] # "COMPLETED"
        /\ \A m \in Nodes \ {n} :
             exec'[m] = exec[m] /\ status'[m] = st[m] /\ ledger'.st[m] = L.st[m]
        /\ durable' = durable \/ durable' = ledger'
    BY <1>1, <1>5, <1>6, <1>7, <1>8, <1>11, CatchFacts
  <2>2. /\ UNCHANGED <<attempt, result, sweep, order, job, running, used>>
        /\ UNCHANGED <<driver, cancelled, verdicts, crashes>>
    BY <1>11 DEF queueVars, runVars
  <2>3. TypeOK'
    BY <1>9, <2>1, <2>2 DEF IInv, TypeOK
  <2>4. Segment(n)
    BY <1>1, <1>5, <1>6, <2>1, <2>2 DEF Segment
  <2>5. QED
    BY <2>3, <2>4
<1>12. QED
  BY <1>4, <1>10, <1>11

\* The next attempt of a node in backoff.
LEMMA WakeSegment ==
  ASSUME IInv, NEW n \in Nodes, Wake(n)
  PROVE  TypeOK' /\ Segment(n)
<1> DEFINE k == attempt[n] + 1
<1>1. /\ exec[n] = "backoff" /\ status[n] = "RETRYING" /\ attempt[n] < MaxAttempts
      /\ k \in 1..MaxAttempts
  BY PolicyAssumption DEF Wake, IInv, TypeOK, StatusFits, Fits, AttemptLeft
<1>2. /\ status' = [status EXCEPT ![n] = "RUNNING"]
      /\ attempt' = [attempt EXCEPT ![n] = k]
      /\ exec' = [exec EXCEPT ![n] = "announced"]
      /\ ledger' = EmitRunning(ledger, n, k) /\ durable' = ledger'
      /\ UNCHANGED <<failures, result, sweep, order, job, running, used>>
      /\ UNCHANGED <<driver, cancelled, verdicts, crashes, calls, effects, zombies, undone>>
  BY <1>1, Moves DEF Wake, Announce, Record, queueVars, runVars, worldVars, IInv, TypeOK
<1> HIDE DEF k
<1>3. ledger \in Snapshots
  BY DEF IInv, TypeOK
<1>4. ledger' \in Snapshots /\ ledger'.st = [ledger.st EXCEPT ![n] = "RUNNING"]
  BY <1>1, <1>2, <1>3, EmitRunningFacts
<1>5. ledger.st \in [Nodes -> NodeStatus]
  BY <1>3 DEF Snapshots
<1>6. TypeOK'
  <2>1. status' \in [Nodes -> NodeStatus] /\ exec' \in [Nodes -> ExecState]
    BY <1>2 DEF IInv, TypeOK, NodeStatus, ExecState
  <2>2. attempt' \in [Nodes -> 1..MaxAttempts]
    BY <1>1, <1>2 DEF IInv, TypeOK
  <2>3. QED
    BY <1>2, <1>4, <2>1, <2>2 DEF IInv, TypeOK
<1>7. /\ exec'[n] = "announced" /\ status'[n] = "RUNNING" /\ ledger'.st[n] = "RUNNING"
      /\ \A m \in Nodes \ {n} :
           /\ exec'[m] = exec[m] /\ status'[m] = status[m]
           /\ attempt'[m] = attempt[m] /\ ledger'.st[m] = ledger.st[m]
  BY <1>2, <1>4, <1>5 DEF IInv, TypeOK
<1>8. Segment(n)
  BY <1>1, <1>2, <1>7 DEF Segment, Fits, Begun
<1>9. QED
  BY <1>6, <1>8

\* The sweep, from the node's own compensation to the last of its upstream.
LEMMA SweepSegments ==
  ASSUME IInv, NEW n \in Nodes, Compensate(n) \/ Undo(n)
  PROVE  TypeOK' /\ Segment(n)
<1>1. ASSUME NEW rest \in SUBSET Nodes, NEW L \in Snapshots, Sweep(n, rest, L),
             exec[n] \in {"compensating", "sweeping"},
             Begun(L.st[n]), L.st[n] # "COMPLETED",
             \A m \in Nodes \ {n} : L.st[m] = ledger.st[m],
             status' = [status EXCEPT ![n] = "ROLLED_BACK"],
             undone' \in [Nodes -> Nat],
             UNCHANGED <<attempt, failures, result, order, queueVars, runVars>>,
             UNCHANGED <<calls, effects, zombies>>
      PROVE  TypeOK' /\ Segment(n)
  <2>1. /\ exec' = [exec EXCEPT ![n] = IF rest = {} THEN "rejected" ELSE "sweeping"]
        /\ sweep' = [sweep EXCEPT ![n] = rest]
        /\ ledger' = L /\ (durable' = durable \/ durable' = ledger')
    BY <1>1 DEF Sweep
  <2>2. /\ UNCHANGED <<attempt, failures, result, order, job, running, used>>
        /\ UNCHANGED <<driver, cancelled, verdicts, crashes, calls, effects, zombies>>
    BY <1>1 DEF queueVars, runVars
  <2>3. TypeOK'
    <3>1. status' \in [Nodes -> NodeStatus] /\ exec' \in [Nodes -> ExecState]
      BY <1>1, <2>1 DEF IInv, TypeOK, NodeStatus, ExecState
    <3>2. sweep' \in [Nodes -> SUBSET Nodes] /\ ledger' \in Snapshots /\ durable' \in Snapshots
      BY <1>1, <2>1 DEF IInv, TypeOK
    <3>3. QED
      BY <1>1, <2>2, <3>1, <3>2 DEF IInv, TypeOK
  <2>4. /\ exec'[n] \in {"rejected", "sweeping"} /\ status'[n] = "ROLLED_BACK"
        /\ \A m \in Nodes \ {n} : exec'[m] = exec[m] /\ status'[m] = status[m]
    BY <1>1, <2>1 DEF IInv, TypeOK
  <2>5. Segment(n)
    BY <1>1, <2>1, <2>2, <2>4 DEF Segment, Fits
  <2>6. QED
    BY <2>3, <2>5
<1>2. /\ ledger \in Snapshots /\ ledger.st \in [Nodes -> NodeStatus]
      /\ status \in [Nodes -> NodeStatus] /\ undone \in [Nodes -> Nat]
      /\ sweep[n] \in SUBSET Nodes
  BY DEF IInv, TypeOK, Snapshots
<1>3. CASE Compensate(n)
  <2>1. exec[n] = "compensating" /\ status[n] = "COMPENSATING"
    BY <1>3 DEF Compensate, IInv, StatusFits, Fits
  <2>2. status' = [status EXCEPT ![n] = "ROLLED_BACK"]
    BY <1>3, <2>1, <1>2, Moves DEF Compensate
  <2>3. Upstream(n) \in SUBSET Nodes
    BY DEF Upstream
  <2>4. "ROLLED_BACK" \in NodeStatus
    BY DEF NodeStatus
  <2>5. /\ Emit(ledger, n, "ROLLED_BACK") \in Snapshots
        /\ Emit(ledger, n, "ROLLED_BACK").st = [ledger.st EXCEPT ![n] = "ROLLED_BACK"]
    BY <1>2, <2>4, EmitFacts
  <2>6. /\ Begun(Emit(ledger, n, "ROLLED_BACK").st[n])
        /\ Emit(ledger, n, "ROLLED_BACK").st[n] # "COMPLETED"
        /\ \A m \in Nodes \ {n} : Emit(ledger, n, "ROLLED_BACK").st[m] = ledger.st[m]
    BY <1>2, <2>5 DEF Begun
  <2>7. Sweep(n, Upstream(n), Emit(ledger, n, "ROLLED_BACK"))
    BY <1>3 DEF Compensate
  <2>8. UNCHANGED <<attempt, failures, result, order, queueVars, runVars>>
    BY <1>3 DEF Compensate
  <2>9. UNCHANGED <<calls, effects, zombies, undone>>
    BY <1>3 DEF Compensate, worldVars
  <2>10. QED
    BY <1>1, <1>2, <2>1, <2>2, <2>3, <2>5, <2>6, <2>7, <2>8, <2>9
<1>4. CASE Undo(n)
  <2>1. exec[n] = "sweeping" /\ status[n] = "ROLLED_BACK"
    BY <1>4 DEF Undo, IInv, StatusFits, Fits
  <2>2. Begun(ledger.st[n]) /\ ledger.st[n] # "COMPLETED"
    BY <2>1, UnderWay
  <2>3. PICK m \in sweep[n] :
          undone' = [undone EXCEPT ![m] = @ + 1] /\ Sweep(n, sweep[n] \ {m}, ledger)
    BY <1>4 DEF Undo
  <2>4. undone' \in [Nodes -> Nat] /\ sweep[n] \ {m} \in SUBSET Nodes
    BY <1>2, <2>3
  <2>5. status' = [status EXCEPT ![n] = "ROLLED_BACK"]
    BY <1>2, <1>4, <2>1 DEF Undo, nodeVars
  <2>6. UNCHANGED <<attempt, failures, result, order, queueVars, runVars, calls, effects, zombies>>
    BY <1>4 DEF Undo, nodeVars
  <2>7. QED
    BY <1>1, <1>2, <2>1, <2>2, <2>3, <2>4, <2>5, <2>6
<1>5. QED
  BY <1>3, <1>4

\* The invariant survives every segment.
LEMMA SegmentPreserves ==
  ASSUME IInv, NEW n \in Nodes, TypeOK', Segment(n)
  PROVE  IInv'
<1>1. \A m \in Nodes : \A d \in Deps[m] : d \in Nodes
  BY GraphAssumption
<1>2. status'[n] \notin {"COMPLETED", "READY", "PLANNED"}
  BY DEF Segment, Fits, TypeOK, ExecState, Terminal
<1>3. Begun(ledger.st[n]) /\ ledger.st[n] # "COMPLETED" /\ status[n] # "COMPLETED"
  BY UnderWay DEF Segment
<1>4. \A m \in Nodes \ {n} :
        /\ exec'[m] = exec[m] /\ attempt'[m] = attempt[m]
        /\ status'[m] = status[m] \/ (status[m] = "PLANNED" /\ status'[m] = "SKIPPED")
        /\ ledger'.st[m] = ledger.st[m]
             \/ (status'[m] = "SKIPPED" /\ ledger'.st[m] = "SKIPPED")
  BY DEF Segment
<1>5. \A m \in Nodes : status[m] = "COMPLETED" => status'[m] = "COMPLETED"
  BY <1>3, <1>4
<1>6. \A m \in Nodes : status'[m] = "COMPLETED" => status[m] = "COMPLETED"
  BY <1>2, <1>4
<1>7. \A m \in Nodes : ledger.st[m] = "COMPLETED" => ledger'.st[m] = "COMPLETED"
  BY <1>3, <1>4, <1>5 DEF IInv, DoneLogged
<1>8. StatusFits'
  <2> SUFFICES ASSUME NEW m \in Nodes PROVE Fits(exec'[m], status'[m])
    BY DEF StatusFits
  <2>1. CASE m = n
    BY <2>1 DEF Segment
  <2>2. CASE m # n
    BY <1>4, <2>2 DEF IInv, StatusFits, Fits, Terminal
  <2>3. QED
    BY <2>1, <2>2
<1>9. AttemptLeft'
  BY <1>4 DEF Segment, AttemptLeft, IInv
<1>10. job' = job /\ driver' = driver
  BY DEF Segment
<1>11. Held'
  <2> SUFFICES ASSUME driver # "rejected", NEW m \in Nodes
               PROVE  \/ Settled(exec'[m], status'[m])
                      \/ \E j \in Jobs : j[1] = m /\ job[j] = "awaiting"
    BY <1>10 DEF Held
  <2>1. \/ Settled(exec[m], status[m])
        \/ \E j \in Jobs : j[1] = m /\ job[j] = "awaiting"
    BY DEF IInv, Held
  <2>2. CASE m = n
    BY <2>1, <2>2 DEF Segment, Settled
  <2>3. CASE m # n
    BY <1>4, <2>1, <2>3 DEF Settled
  <2>4. QED
    BY <2>2, <2>3
<1>12. WorkersFree'
  BY <1>10 DEF IInv, WorkersFree
<1>13. QueuedReady'
  BY <1>4, <1>10, JobFacts DEF IInv, QueuedReady, Segment
<1>14. ReadyDeps'
  BY <1>1, <1>2, <1>4, <1>5 DEF IInv, ReadyDeps
<1>15. DoneLogged'
  <2> SUFFICES ASSUME NEW m \in Nodes
               PROVE  /\ status'[m] = "COMPLETED" <=> ledger'.st[m] = "COMPLETED"
                      /\ durable'.st[m] = "COMPLETED" => ledger'.st[m] = "COMPLETED"
    BY DEF DoneLogged
  <2>1. status'[m] = "COMPLETED" => ledger'.st[m] = "COMPLETED"
    BY <1>6, <1>7 DEF IInv, DoneLogged
  <2>2. ledger'.st[m] = "COMPLETED" => status'[m] = "COMPLETED"
    <3>1. CASE m = n
      BY <3>1 DEF Segment
    <3>2. CASE m # n
      BY <1>4, <1>5, <3>2 DEF IInv, DoneLogged
    <3>3. QED
      BY <3>1, <3>2
  <2>3. durable.st[m] = "COMPLETED" => ledger'.st[m] = "COMPLETED"
    BY <1>7 DEF IInv, DoneLogged
  <2>4. QED
    BY <2>1, <2>2, <2>3 DEF Segment
<1>16. Grounded(ledger')
  <2> SUFFICES ASSUME NEW m \in Nodes, Begun(ledger'.st[m]), NEW d \in Deps[m]
               PROVE  ledger'.st[d] = "COMPLETED"
    BY DEF Grounded
  <2>1. Begun(ledger.st[m])
    BY <1>3, <1>4 DEF Begun
  <2>2. QED
    BY <1>1, <1>7, <2>1 DEF IInv, Grounded
<1>17. Grounded(durable')
  BY <1>16 DEF Segment, IInv
<1>18. Announced'
  <2> SUFFICES ASSUME NEW m \in Nodes, exec'[m] # "idle"
               PROVE  Begun(ledger'.st[m]) /\ Begun(durable'.st[m])
    BY DEF Announced
  <2>1. CASE m = n
    BY <2>1 DEF Segment, IInv, Announced
  <2>2. CASE m # n
    <3>1. exec[m] # "idle" /\ Begun(ledger.st[m]) /\ Begun(durable.st[m])
      BY <1>4, <2>2 DEF IInv, Announced
    <3>2. status[m] \notin {"PLANNED", "SKIPPED"}
      BY <3>1 DEF IInv, TypeOK, StatusFits, Fits, ExecState
    <3>3. ledger'.st[m] = ledger.st[m]
      BY <1>4, <2>2, <3>2
    <3>4. QED
      BY <3>1, <3>3 DEF Segment
  <2>3. QED
    BY <2>1, <2>2
<1>19. QED
  BY <1>8, <1>9, <1>11, <1>12, <1>13, <1>14, <1>15, <1>16, <1>17, <1>18 DEF IInv

-----------------------------------------------------------------------------
(* The other actions preserve the invariant                                *)

\* Between waves every node is settled.
LEMMA DrivingSettled ==
  ASSUME IInv, driver = "driving", NEW n \in Nodes
  PROVE  /\ Settled(exec[n], status[n])
         /\ exec[n] # "idle" => status[n] \in Terminal
<1>1. \A j \in Jobs : job[j] # "awaiting"
  BY DEF IInv, WorkersFree
<1>2. Settled(exec[n], status[n])
  BY <1>1 DEF IInv, Held
<1>3. QED
  BY <1>2 DEF IInv, StatusFits, Fits, Settled, Terminal

\* Drive, cancel, and the late end of an abandoned call.
LEMMA DrivePreserves ==
  ASSUME IInv, Drive \/ Cancel
  PROVE  IInv'
<1> USE DEF nodeVars, execVars, runVars, queueVars, logVars
<1>1. TypeOK'
  BY DriveType
<1>2. CASE Enqueue
  <2>1. /\ UNCHANGED <<status, attempt, exec, ledger>> /\ durable' = ledger
        /\ driver = "driving" /\ driver' = "dispatching"
        /\ job' = [j \in Jobs |-> IF j[1] \in Ready THEN "queued" ELSE job[j]]
    BY <1>2 DEF Enqueue, Record
  <2>2. StatusFits' /\ AttemptLeft' /\ ReadyDeps' /\ DoneLogged' /\ Grounded(ledger)'
        /\ Grounded(durable)' /\ Announced' /\ WorkersFree'
    BY <2>1 DEF IInv, StatusFits, AttemptLeft, ReadyDeps, DoneLogged, Grounded, Announced,
                WorkersFree
  <2>3. Held'
    BY <2>1, DrivingSettled DEF Held
  <2>4. QueuedReady'
    BY <2>1, JobFacts DEF IInv, QueuedReady, Ready
  <2>5. QED
    BY <1>1, <2>2, <2>3, <2>4 DEF IInv
<1>3. CASE Join
  <2>1. /\ UNCHANGED <<status, attempt, exec, ledger, durable, job>>
        /\ driver = "dispatching" /\ driver' = "driving" /\ Busy = {}
    BY <1>3 DEF Join
  <2>2. StatusFits' /\ AttemptLeft' /\ ReadyDeps' /\ DoneLogged' /\ Grounded(ledger)'
        /\ Grounded(durable)' /\ Announced' /\ Held' /\ QueuedReady'
    BY <2>1 DEF IInv, StatusFits, AttemptLeft, ReadyDeps, DoneLogged, Grounded, Announced,
                Held, QueuedReady
  <2>3. WorkersFree'
    BY <2>1 DEF WorkersFree, Busy
  <2>4. QED
    BY <1>1, <2>2, <2>3 DEF IInv
<1>4. CASE Finish
  <2> DEFINE open == IF cancelled THEN {n \in Nodes : status[n] \notin Terminal} ELSE {}
  <2>1. /\ UNCHANGED <<attempt, exec, job>> /\ driver = "driving" /\ driver' = "finished"
        /\ status' = [n \in Nodes |-> IF n \in open THEN "CANCELLED" ELSE status[n]]
        /\ ledger' = EmitCancelled(ledger, open) /\ durable' = ledger'
    BY <1>4 DEF Finish, Record
  <2>2. ledger \in Snapshots
    BY DEF IInv, TypeOK
  <2>3. \A n \in open : exec[n] = "idle" /\ status[n] # "COMPLETED"
    BY <2>1, DrivingSettled DEF Terminal
  <2>4. open # {} => \A n \in Nodes : n \notin open => status[n] \in Terminal
    OBVIOUS
  <2>5. open \subseteq Nodes
    OBVIOUS
  <2> HIDE DEF open
  <2>6. \A n \in Nodes :
          ledger'.st[n] = IF n \in open THEN "CANCELLED" ELSE ledger.st[n]
    BY <2>1, <2>2, EmitCancelledFacts
  <2>7. StatusFits'
    BY <2>1, <2>3 DEF IInv, StatusFits, Fits, Terminal
  <2>8. AttemptLeft' /\ WorkersFree' /\ QueuedReady'
    BY <2>1 DEF IInv, AttemptLeft, WorkersFree, QueuedReady
  <2>9. Held'
    BY <2>1, DrivingSettled DEF Held, Settled
  <2>10. \A n \in Nodes : /\ status'[n] = "COMPLETED" <=> status[n] = "COMPLETED"
                          /\ ledger'.st[n] = "COMPLETED" <=> ledger.st[n] = "COMPLETED"
    BY <2>1, <2>3, <2>6 DEF IInv, DoneLogged
  <2>11. \A n \in Nodes : \A d \in Deps[n] : d \in Nodes
    BY GraphAssumption
  <2>12. ReadyDeps'
    BY <2>1, <2>10, <2>11 DEF IInv, ReadyDeps
  <2>13. DoneLogged'
    BY <2>1, <2>10 DEF IInv, DoneLogged
  <2>14. Grounded(ledger') /\ Grounded(durable')
    BY <2>1, <2>6, <2>10, <2>11 DEF IInv, Grounded, Begun
  <2>15. Announced'
    BY <2>1, <2>3, <2>6 DEF IInv, Announced
  <2>16. QED
    BY <1>1, <2>7, <2>8, <2>9, <2>12, <2>13, <2>14, <2>15 DEF IInv
<1>5. CASE Cancel
  BY <1>1, <1>5 DEF Cancel, IInv, StatusFits, AttemptLeft, Held, WorkersFree, QueuedReady,
                    ReadyDeps, DoneLogged, Grounded, Announced
<1>6. QED
  BY <1>2, <1>3, <1>4, <1>5 DEF Drive

\* A delivery gets its seat: the node's first announcement, or another waiter.
LEMMA AdmitPreserves ==
  ASSUME IInv, NEW j \in Jobs, job[j] \in {"queued", "acquiring"},
         driver \in {"dispatching", "rejected"}, Admit(j)
  PROVE  IInv'
<1> DEFINE n == j[1]
<1>1. n \in Nodes
  BY JobFacts
<1>2. TypeOK'
  BY AdmitType
<1>3. /\ job' = [job EXCEPT ![j] = "awaiting"] /\ driver' = driver
      /\ \/ exec[n] = "idle" /\ Announce(n, "START", attempt[n])
         \/ exec[n] # "idle" /\ UNCHANGED <<status, attempt, exec, logVars>>
  BY DEF Admit, runVars
<1>4. WorkersFree'
  BY <1>3 DEF WorkersFree
<1>5. job \in [Jobs -> {"absent", "queued", "acquiring", "awaiting", "thrown", "done"}]
  BY DEF IInv, TypeOK
<1>6. CASE exec[n] # "idle" /\ UNCHANGED <<status, attempt, exec, logVars>>
  <2>1. StatusFits' /\ AttemptLeft' /\ ReadyDeps' /\ DoneLogged' /\ Grounded(ledger)'
        /\ Grounded(durable)' /\ Announced'
    BY <1>6 DEF IInv, StatusFits, AttemptLeft, ReadyDeps, DoneLogged, Grounded, Announced,
                logVars
  <2>2. Held' /\ QueuedReady'
    BY <1>3, <1>5, <1>6 DEF IInv, Held, QueuedReady
  <2>3. QED
    BY <1>2, <1>4, <2>1, <2>2 DEF IInv
<1>7. CASE exec[n] = "idle" /\ Announce(n, "START", attempt[n])
  <2>1. status[n] = "READY"
    BY <1>7 DEF IInv, QueuedReady
  <2>2. /\ status' = [status EXCEPT ![n] = "RUNNING"]
        /\ attempt' = [attempt EXCEPT ![n] = attempt[n]]
        /\ exec' = [exec EXCEPT ![n] = "announced"]
        /\ ledger' = EmitRunning(ledger, n, attempt[n]) /\ durable' = ledger'
    BY <1>1, <1>7, <2>1, Moves DEF Announce, Record, IInv, TypeOK
  <2>3. /\ ledger \in Snapshots /\ attempt[n] \in 1..MaxAttempts
        /\ status \in [Nodes -> NodeStatus] /\ exec \in [Nodes -> ExecState]
    BY <1>1 DEF IInv, TypeOK
  <2>4. ledger'.st = [ledger.st EXCEPT ![n] = "RUNNING"]
    BY <1>1, <2>2, <2>3, EmitRunningFacts
  <2>5. ledger.st \in [Nodes -> NodeStatus]
    BY <2>3 DEF Snapshots
  <2>6. /\ status'[n] = "RUNNING" /\ exec'[n] = "announced" /\ ledger'.st[n] = "RUNNING"
        /\ \A m \in Nodes \ {n} : /\ status'[m] = status[m] /\ exec'[m] = exec[m]
                                  /\ ledger'.st[m] = ledger.st[m]
        /\ \A m \in Nodes : attempt'[m] = attempt[m]
    BY <1>1, <2>2, <2>3, <2>4, <2>5 DEF IInv, TypeOK
  <2>7. \A m \in Nodes : \A d \in Deps[m] : d \in Nodes
    BY GraphAssumption
  <2>8. \A m \in Nodes : /\ status'[m] = "COMPLETED" <=> status[m] = "COMPLETED"
                         /\ ledger'.st[m] = "COMPLETED" <=> ledger.st[m] = "COMPLETED"
    BY <2>1, <2>6 DEF IInv, DoneLogged
  <2>9. \A d \in Deps[n] : ledger.st[d] = "COMPLETED"
    BY <1>1, <2>1, <2>7 DEF IInv, ReadyDeps, DoneLogged
  <2>10. StatusFits' /\ AttemptLeft'
    BY <2>6 DEF IInv, StatusFits, Fits, AttemptLeft
  <2>11. Held'
    BY <1>3, <1>5, <2>6 DEF IInv, Held
  <2>12. QueuedReady'
    BY <1>3, <1>5, <2>6, JobFacts DEF IInv, QueuedReady
  <2>13. ReadyDeps'
    BY <2>6, <2>7, <2>8 DEF IInv, ReadyDeps
  <2>14. DoneLogged'
    BY <2>2, <2>8 DEF IInv, DoneLogged
  <2>15. Grounded(ledger') /\ Grounded(durable')
    BY <2>2, <2>6, <2>7, <2>8, <2>9 DEF IInv, Grounded
  <2>16. Announced'
    BY <2>2, <2>6 DEF IInv, Announced, Begun
  <2>17. QED
    BY <1>2, <1>4, <2>10, <2>11, <2>12, <2>13, <2>14, <2>15, <2>16 DEF IInv
<1>8. QED
  BY <1>3, <1>6, <1>7

\* A completion: what it promotes stands on completed nodes.
LEMMA CompletePreserves ==
  ASSUME IInv, NEW j \in Jobs, Complete(j)
  PROVE  IInv'
<1> DEFINE n == j[1]
           st == [status EXCEPT ![n] = "COMPLETED"]
<1>1. n \in Nodes /\ \A m \in Nodes : \A d \in Deps[m] : d \in Nodes
  BY JobFacts, GraphAssumption
<1>2. TypeOK'
  BY JobType DEF JobStep
<1>3. /\ job[j] = "awaiting" /\ exec[n] = "verified" /\ status[n] = "VERIFYING"
      /\ driver \notin {"driving", "finished"}
  BY <1>1 DEF Complete, IInv, StatusFits, Fits, WorkersFree
<1>4. /\ status \in [Nodes -> NodeStatus] /\ exec \in [Nodes -> ExecState]
      /\ ledger \in Snapshots /\ result[n] \in {"none", "yes", "no"}
      /\ job \in [Jobs -> {"absent", "queued", "acquiring", "awaiting", "thrown", "done"}]
  BY <1>1 DEF IInv, TypeOK
<1>5. /\ status' = Promote(st) /\ exec' = [exec EXCEPT ![n] = "fulfilled"]
      /\ ledger' = EmitCompleted(ledger, n) /\ job' = [job EXCEPT ![j] = "done"]
      /\ UNCHANGED <<attempt, durable, driver>>
  BY <1>3, <1>4, Moves DEF Complete, Release, runVars
<1>6. st \in [Nodes -> NodeStatus] /\ st[n] = "COMPLETED"
      /\ \A m \in Nodes \ {n} : st[m] = status[m]
  BY <1>1, <1>4 DEF NodeStatus
<1> HIDE DEF st
<1>7. \A m \in Nodes :
        \/ status'[m] = st[m]
        \/ /\ st[m] = "PLANNED" /\ status'[m] = "READY"
           /\ \A d \in Deps[m] : st[d] = "COMPLETED"
  BY <1>5, <1>6, PromoteFacts
<1>8. ledger'.st = [ledger.st EXCEPT ![n] = "COMPLETED"] /\ ledger.st \in [Nodes -> NodeStatus]
  <2>1. ledger'.st = [ledger.st EXCEPT ![n] = "COMPLETED"]
    BY <1>1, <1>4, <1>5, EmitCompletedFacts
  <2>2. QED
    BY <1>4, <2>1 DEF Snapshots
<1>9. /\ ledger'.st[n] = "COMPLETED" /\ exec'[n] = "fulfilled" /\ status'[n] = "COMPLETED"
      /\ \A m \in Nodes \ {n} : ledger'.st[m] = ledger.st[m] /\ exec'[m] = exec[m]
  BY <1>1, <1>4, <1>5, <1>6, <1>7, <1>8
<1>10. \A m \in Nodes \ {n} :
         \/ status'[m] = status[m]
         \/ status[m] = "PLANNED" /\ status'[m] = "READY" /\ exec[m] = "idle"
  BY <1>6, <1>7 DEF IInv, TypeOK, StatusFits, Fits, ExecState
<1>11. \A m \in Nodes : st[m] = "COMPLETED" => status'[m] = "COMPLETED"
  BY <1>7
<1>12. StatusFits'
  BY <1>9, <1>10 DEF IInv, StatusFits, Fits, Terminal
<1>13. AttemptLeft'
  BY <1>5, <1>9 DEF IInv, AttemptLeft
<1>14. Held'
  <2> SUFFICES ASSUME driver # "rejected", NEW m \in Nodes
               PROVE  \/ Settled(exec'[m], status'[m])
                      \/ \E i \in Jobs : i[1] = m /\ job'[i] = "awaiting"
    BY <1>5 DEF Held
  <2>1. CASE m = n
    BY <1>9, <2>1 DEF Settled
  <2>2. CASE m # n
    <3>1. \/ Settled(exec[m], status[m])
          \/ \E i \in Jobs : i[1] = m /\ job[i] = "awaiting"
      BY DEF IInv, Held
    <3>2. QED
      BY <1>4, <1>5, <1>9, <1>10, <2>2, <3>1 DEF Settled
  <2>3. QED
    BY <2>1, <2>2
<1>15. WorkersFree'
  BY <1>3, <1>5 DEF WorkersFree
<1>16. QueuedReady'
  BY <1>3, <1>4, <1>5, <1>9, <1>10, JobFacts DEF IInv, QueuedReady
<1>17. ReadyDeps'
  <2> SUFFICES ASSUME NEW m \in Nodes, status'[m] = "READY", NEW d \in Deps[m]
               PROVE  status'[d] = "COMPLETED"
    BY DEF ReadyDeps
  <2>1. m # n
    BY <1>9
  <2>2. CASE status'[m] = st[m]
    BY <1>1, <1>6, <1>9, <1>10, <2>1, <2>2 DEF IInv, ReadyDeps
  <2>3. CASE \A x \in Deps[m] : st[x] = "COMPLETED"
    BY <1>1, <1>11, <2>3
  <2>4. QED
    BY <1>7, <2>2, <2>3
<1>18. DoneLogged'
  BY <1>5, <1>9, <1>10 DEF IInv, DoneLogged
<1>19. Grounded(ledger') /\ Grounded(durable')
  <2>1. \A m \in Nodes : ledger.st[m] = "COMPLETED" => ledger'.st[m] = "COMPLETED"
    BY <1>9
  <2>2. Begun(ledger.st[n])
    BY <1>1, <1>3 DEF IInv, Announced
  <2>3. Grounded(ledger')
    BY <1>1, <1>9, <2>1, <2>2 DEF IInv, Grounded
  <2>4. QED
    BY <1>5, <2>3 DEF IInv
<1>20. Announced'
  BY <1>3, <1>5, <1>9 DEF IInv, Announced, Begun
<1>21. QED
  BY <1>2, <1>12, <1>13, <1>14, <1>15, <1>16, <1>17, <1>18, <1>19, <1>20 DEF IInv

\* A delivery leaves its worker, free or dead.
LEMMA LeavePreserves ==
  ASSUME IInv, NEW j \in Jobs, Leave(j) \/ Throw(j)
  PROVE  IInv'
<1> DEFINE n == j[1]
<1> USE DEF nodeVars, execVars, runVars, logVars
<1>1. n \in Nodes
  BY JobFacts
<1>2. TypeOK'
  BY JobType DEF JobStep
<1>3. /\ UNCHANGED <<status, attempt, exec, ledger, durable>>
      /\ job[j] = "awaiting" /\ driver \notin {"driving", "finished"}
      /\ \E fate \in {"done", "thrown"} : job' = [job EXCEPT ![j] = fate]
  BY DEF Leave, Throw, Release, IInv, WorkersFree
<1>4. job \in [Jobs -> {"absent", "queued", "acquiring", "awaiting", "thrown", "done"}]
  BY DEF IInv, TypeOK
<1>5. \A i \in Jobs : i # j => job'[i] = job[i]
  BY <1>3, <1>4
<1>6. job'[j] \in {"done", "thrown"}
  BY <1>3, <1>4
<1>7. StatusFits' /\ AttemptLeft' /\ ReadyDeps' /\ DoneLogged' /\ Grounded(ledger)'
      /\ Grounded(durable)' /\ Announced'
  BY <1>3 DEF IInv, StatusFits, AttemptLeft, ReadyDeps, DoneLogged, Grounded, Announced
<1>8. QueuedReady'
  BY <1>3, <1>5, <1>6 DEF IInv, QueuedReady
<1>9. CASE Leave(j)
  <2>1. driver' = driver /\ Settled(exec[n], status[n])
    BY <1>9 DEF Leave, Settled, Terminal
  <2>2. Held'
    BY <1>3, <1>5, <2>1 DEF IInv, Held
  <2>3. WorkersFree'
    BY <1>3, <2>1 DEF WorkersFree
  <2>4. QED
    BY <1>2, <1>7, <1>8, <2>2, <2>3 DEF IInv
<1>10. CASE Throw(j)
  <2>1. driver' = "rejected"
    BY <1>10 DEF Throw
  <2>2. Held' /\ WorkersFree'
    BY <2>1 DEF Held, WorkersFree
  <2>3. QED
    BY <1>2, <1>7, <1>8, <2>2 DEF IInv
<1>11. QED
  BY <1>9, <1>10

\* Every step of a job.
LEMMA JobPreserves ==
  ASSUME IInv, NEW j \in Jobs, JobStep(j)
  PROVE  IInv'
<1>1. CASE /\ Admit(j) /\ job[j] \in {"queued", "acquiring"}
           /\ driver \in {"dispatching", "rejected"}
  BY <1>1, AdmitPreserves
<1>2. CASE Poll(j)
  <2>1. driver \in {"dispatching", "rejected"}
    BY <1>2 DEF Poll, IInv, WorkersFree, TypeOK
  <2>2. QED
    BY <1>1, <1>2, <2>1 DEF Poll
<1>3. CASE Take(j) /\ ~SlotFree(j[1])
  <2>1. /\ UNCHANGED <<status, attempt, exec, ledger, durable, driver>>
        /\ job[j] = "queued" /\ driver \in {"dispatching", "rejected"}
        /\ job' = [job EXCEPT ![j] = "acquiring"]
    BY <1>3 DEF Take, nodeVars, execVars, runVars, logVars
  <2>2. job \in [Jobs -> {"absent", "queued", "acquiring", "awaiting", "thrown", "done"}]
    BY DEF IInv, TypeOK
  <2>3. TypeOK'
    BY <1>3, JobType DEF JobStep
  <2>4. StatusFits' /\ AttemptLeft' /\ ReadyDeps' /\ DoneLogged' /\ Grounded(ledger)'
        /\ Grounded(durable)' /\ Announced' /\ WorkersFree'
    BY <2>1 DEF IInv, StatusFits, AttemptLeft, ReadyDeps, DoneLogged, Grounded, Announced,
                WorkersFree
  <2>5. Held' /\ QueuedReady'
    BY <2>1, <2>2 DEF IInv, Held, QueuedReady
  <2>6. QED
    BY <2>3, <2>4, <2>5 DEF IInv
<1>4. CASE Take(j) /\ SlotFree(j[1])
  BY <1>1, <1>4 DEF Take
<1>5. CASE Complete(j)
  BY <1>5, CompletePreserves
<1>6. CASE Leave(j) \/ Throw(j)
  BY <1>6, LeavePreserves
<1>7. QED
  BY <1>2, <1>3, <1>4, <1>5, <1>6 DEF JobStep

\* A crash and a hydration: nothing is under way, and what is completed is what
\* the disk says.
LEMMA RestartPreserves ==
  ASSUME IInv, Restart
  PROVE  IInv'
<1> DEFINE st == Hydrated(durable)
<1>1. durable \in Snapshots /\ crashes \in 0..MaxCrashes /\ zombies \in [Nodes -> Nat]
  BY DEF IInv, TypeOK
<1>2. /\ status' = st
      /\ exec' = [n \in Nodes |-> IF st[n] = "COMPLETED" THEN "fulfilled" ELSE "idle"]
      /\ ledger' = EmitSkipped(durable, st) /\ durable' = durable
      /\ job' = [j \in Jobs |-> "absent"] /\ driver' = "driving"
  BY DEF Restart
<1>3. /\ attempt' = durable.at /\ result' = durable.res
      /\ failures' = [n \in Nodes |-> 0] /\ sweep' = [n \in Nodes |-> {}]
      /\ running' = {} /\ used' = [k \in DOMAIN Limit |-> 0]
      /\ cancelled' = FALSE /\ verdicts' = {} /\ crashes' = crashes + 1
      /\ crashes < MaxCrashes
      /\ UNCHANGED <<calls, effects, undone>>
  BY DEF Restart
<1>4. order' \in [Nodes -> Nat]
  <2>1. \A S \in SUBSET Nodes : Cardinality(S) \in Nat
    BY GraphAssumption, FS_Subset, FS_CardinalityType
  <2>2. \A n \in Nodes : Cardinality({m \in Nodes : /\ st[m] = "COMPLETED"
                                /\ durable.seen[m] <= durable.seen[n]}) \in Nat
    BY <2>1
  <2>3. order' = [n \in Nodes |->
                   IF st[n] # "COMPLETED" THEN 0
                   ELSE Cardinality({m \in Nodes : /\ st[m] = "COMPLETED"
                                       /\ durable.seen[m] <= durable.seen[n]})]
    BY DEF Restart
  <2> HIDE DEF st
  <2>4. QED
    BY <2>2, <2>3
<1>5. zombies' \in [Nodes -> Nat]
  BY <1>1 DEF Restart
<1>6. /\ st \in [Nodes -> NodeStatus]
      /\ \A n \in Nodes :
           /\ st[n] = "COMPLETED" <=> durable.st[n] = "COMPLETED"
           /\ st[n] \in Terminal \cup {"PLANNED", "READY"}
           /\ st[n] = "READY" => \A d \in Deps[n] : st[d] = "COMPLETED"
  BY <1>1, HydratedFacts
<1> HIDE DEF st
<1>7. /\ ledger' \in Snapshots
      /\ \A n \in Nodes :
           ledger'.st[n] = IF st[n] = "SKIPPED" THEN "SKIPPED" ELSE durable.st[n]
  BY <1>1, <1>2, EmitSkippedFacts
<1>8. TypeOK'
  <2>1. attempt' \in [Nodes -> 1..MaxAttempts] /\ result' \in [Nodes -> {"none", "yes", "no"}]
    BY <1>1, <1>3 DEF Snapshots
  <2>2. exec' \in [Nodes -> ExecState]
    BY <1>2 DEF ExecState
  <2>3. crashes' \in 0..MaxCrashes
    BY <1>1, <1>3, QueueAssumption
  <2>4. /\ failures' \in [Nodes -> Nat] /\ sweep' \in [Nodes -> SUBSET Nodes]
        /\ used' \in [DOMAIN Limit -> Nat] /\ running' \subseteq Nodes
        /\ cancelled' \in BOOLEAN
        /\ verdicts' \subseteq {"COMPLETED", "FAILED", "QUARANTINED", "CANCELLED"}
    BY <1>3
  <2>5. job' \in [Jobs -> {"absent", "queued", "acquiring", "awaiting", "thrown", "done"}]
    BY <1>2
  <2>6. QED
    BY <1>1, <1>2, <1>3, <1>4, <1>5, <1>6, <1>7, <2>1, <2>2, <2>3, <2>4, <2>5
    DEF IInv, TypeOK
<1>9. StatusFits' /\ AttemptLeft'
  BY <1>2, <1>6 DEF StatusFits, Fits, AttemptLeft, Terminal
<1>10. Held'
  BY <1>2, <1>6 DEF Held, Settled, Terminal
<1>11. WorkersFree' /\ QueuedReady'
  BY <1>2 DEF WorkersFree, QueuedReady
<1>12. ReadyDeps'
  BY <1>2, <1>6 DEF ReadyDeps
<1>13. \A n \in Nodes : ledger'.st[n] = "COMPLETED" <=> durable.st[n] = "COMPLETED"
  BY <1>6, <1>7
<1>14. DoneLogged'
  BY <1>2, <1>6, <1>13 DEF DoneLogged
<1>15. Grounded(ledger') /\ Grounded(durable')
  <2>1. \A n \in Nodes : \A d \in Deps[n] : d \in Nodes
    BY GraphAssumption
  <2>2. QED
    BY <1>2, <1>7, <1>13, <2>1 DEF IInv, Grounded, Begun
<1>16. Announced'
  BY <1>2, <1>6, <1>13 DEF Announced, Begun
<1>17. QED
  BY <1>8, <1>9, <1>10, <1>11, <1>12, <1>14, <1>15, <1>16 DEF IInv

-----------------------------------------------------------------------------
(* The theorems                                                            *)

\* A new executor satisfies the invariant.
LEMMA InitIInv == Init => IInv
<1> SUFFICES ASSUME Init PROVE IInv
  OBVIOUS
<1>1. TypeOK
  BY InitType
<1> DEFINE planned == [n \in Nodes |-> "PLANNED"]
<1>2. planned \in [Nodes -> NodeStatus]
  BY DEF NodeStatus
<1>3. \A n \in Nodes :
        \/ status[n] = "PLANNED"
        \/ status[n] = "READY" /\ \A d \in Deps[n] : planned[d] = "COMPLETED"
  BY <1>2, PromoteFacts DEF Init
<1>4. \A n \in Nodes : \A d \in Deps[n] : planned[d] = "PLANNED"
  BY GraphAssumption
<1>5. ReadyDeps
  BY <1>3, <1>4 DEF ReadyDeps
<1>6. \A n \in Nodes : exec[n] = "idle"
  BY DEF Init
<1>7. StatusFits /\ AttemptLeft /\ Held /\ Announced
  BY <1>3, <1>6 DEF StatusFits, Fits, AttemptLeft, Held, Settled, Announced
<1>8. WorkersFree /\ QueuedReady
  BY DEF Init, WorkersFree, QueuedReady
<1>9. \A n \in Nodes : ledger.st[n] = "PLANNED" /\ durable.st[n] = "PLANNED"
  BY DEF Init
<1>10. DoneLogged /\ Grounded(ledger) /\ Grounded(durable)
  BY <1>3, <1>9 DEF DoneLogged, Grounded, Begun
<1>11. QED
  BY <1>1, <1>5, <1>7, <1>8, <1>10 DEF IInv

\* What a step can leave alone: the late end of an abandoned call, and stuttering.
LEMMA IdlePreserves ==
  ASSUME IInv, UNCHANGED vars \/ \E n \in Nodes : ZombieEnds(n)
  PROVE  IInv'
<1> USE DEF nodeVars, execVars, queueVars, runVars, logVars, worldVars
<1>1. UNCHANGED <<status, attempt, failures, result, exec, sweep, order, job, running, used,
                  driver, cancelled, verdicts, crashes, ledger, durable, calls, undone>>
  BY DEF vars, ZombieEnds
<1>2. TypeOK'
  <2>1. CASE UNCHANGED vars
    BY <2>1 DEF vars, IInv, TypeOK
  <2>2. ASSUME NEW n \in Nodes, ZombieEnds(n)
        PROVE  TypeOK'
    <3>1. zombies[n] \in Nat /\ zombies[n] > 0 /\ effects[n] \in Nat
      BY <2>2 DEF ZombieEnds, IInv, TypeOK
    <3>2. zombies' \in [Nodes -> Nat]
      BY <2>2, <3>1 DEF ZombieEnds, IInv, TypeOK
    <3>3. effects' \in [Nodes -> Nat]
      BY <2>2, <3>1 DEF ZombieEnds, IInv, TypeOK
    <3>4. QED
      BY <1>1, <3>2, <3>3 DEF IInv, TypeOK
  <2>3. QED
    BY <2>1, <2>2
<1>3. QED
  BY <1>1, <1>2 DEF IInv, StatusFits, AttemptLeft, Held, WorkersFree, QueuedReady, ReadyDeps,
                    DoneLogged, Grounded, Announced

\* No step breaks the invariant.
LEMMA StepIInv == IInv /\ [Next]_vars => IInv'
<1> SUFFICES ASSUME IInv, [Next]_vars PROVE IInv'
  OBVIOUS
<1>1. CASE Drive \/ Cancel
  BY <1>1, DrivePreserves
<1>2. ASSUME NEW j \in Jobs, JobStep(j)
      PROVE  IInv'
  BY <1>2, JobPreserves
<1>3. ASSUME NEW n \in Nodes, NodeStep(n) \/ Answer(n) \/ Timeout(n)
      PROVE  IInv'
  <2>1. TypeOK' /\ Segment(n)
    BY <1>3, ApprovalSegments, HandlerSegments, RouteSegment, WakeSegment, SweepSegments
    DEF NodeStep, Answer
  <2>2. QED
    BY <2>1, SegmentPreserves
<1>4. CASE UNCHANGED vars \/ \E n \in Nodes : ZombieEnds(n)
  BY <1>4, IdlePreserves
<1>5. CASE Restart
  BY <1>5, RestartPreserves
<1>6. QED
  BY <1>1, <1>2, <1>3, <1>4, <1>5 DEF Next, Stopped

\* The invariant holds in every reachable state.
THEOREM Inductive == Spec => []IInv
BY InitIInv, StepIInv, PTL DEF Spec

\* Type correctness: in particular no transition that the executor's handlers take
\* leaves the node table, for every graph, policy and queue.
THEOREM TypeCorrect == Spec => []TypeOK
<1>1. IInv => TypeOK
  BY DEF IInv
<1>2. QED
  BY <1>1, Inductive, PTL

\* Whatever a node that has begun depends on is completed, in memory and on disk,
\* although completeNode persists nothing itself: no crash takes back a result that
\* somebody has used.
THEOREM DurableDepsHold == Spec => []DurableDeps
BY IInvDurableDeps, Inductive, PTL
=============================================================================
