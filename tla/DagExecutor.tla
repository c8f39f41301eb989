---------------------------- MODULE DagExecutor ----------------------------
(***************************************************************************)
(* The workflow executor of runtime/orchestrator (executor.ts): one run of *)
(* a DAG of nodes, pulled from a job queue by a few workers, retried,      *)
(* timed out, approved, routed, compensated, cancelled, and resumed from   *)
(* the ledger after the process dies.                                      *)
(*                                                                         *)
(* JavaScript runs one segment of code at a time, from one await to the    *)
(* next, so each action is one such segment.  Two segments that touch      *)
(* nothing another segment reads in between are one action.                *)
(*                                                                         *)
(* persist() commits everything emitted so far: the store it models is the *)
(* SQLite one, whose flush writes before it yields.  A crash loses what was*)
(* emitted and not yet persisted, the queue, and every in-memory field.    *)
(***************************************************************************)
EXTENDS NodeMachine, Integers, Sequences, FiniteSets

CONSTANTS
  Nodes,        \* the nodes of the plan graph
  Deps,         \* Deps[n]: the nodes n waits for (deps)
  Kind,         \* "ACTION", "APPROVAL", and two forms of CONDITIONAL: "PROBE"
                \* runs an action of its own, "CHECK" reads an earlier result
  Gated,        \* action nodes for which handler.requiresApproval holds
  Needs,        \* Needs[n]: the nodes whose results n's input or condition names
  Then, Else,   \* the targets of a conditional, in the order they are listed
  Timed,        \* nodes with a timeoutMs
  Retryable,    \* Retryable[n]: the kinds of error n's retry policy lists
  MaxAttempts,  \* retry.maxAttempts
  StopAt,       \* FailureGuard: its answer stops a node from this many failures on
  QuarantineAt, \* FailureGuard: its answer quarantines from this many failures on
  Comp,         \* Comp[n]: "none", "action" or "irreversible"
  Keys,         \* Keys[n]: the agent, tenant and tool whose limits bind n
  Limit,        \* Limit[k]: concurrent jobs of key k
  MaxJobs,      \* maxConcurrentJobs: the limit over all keys, and the workers
  Deliveries,   \* Deliveries[n]: how often the queue delivers n's job (at least once)
  CanCancel,    \* may cancel() be called?
  ApprovalMayThrow, \* may handler.requestApproval reject?
  MaxCrashes    \* bound on process deaths

ErrorKind == {"failure", "timeout", "denied", "missing", "illegal", "provider"}

ASSUME GraphAssumption ==
  /\ IsFiniteSet(Nodes)
  /\ Deps \in [Nodes -> SUBSET Nodes]
  /\ Kind \in [Nodes -> {"ACTION", "APPROVAL", "PROBE", "CHECK"}]
  /\ Needs \in [Nodes -> SUBSET Nodes]
  /\ Then \in [Nodes -> Seq(Nodes)]
  /\ Else \in [Nodes -> Seq(Nodes)]

\* validateGraph refuses a plan with a cycle before run() does anything else.
ASSUME AcyclicAssumption ==
  \A S \in SUBSET Nodes : S # {} => \E n \in S : Deps[n] \cap S = {}

ASSUME PolicyAssumption ==
  /\ MaxAttempts \in Nat \ {0}
  /\ StopAt \in Nat
  /\ QuarantineAt \in Nat
  /\ Comp \in [Nodes -> {"none", "action", "irreversible"}]
  /\ Retryable \in [Nodes -> SUBSET ErrorKind]

ASSUME QueueAssumption ==
  /\ MaxJobs \in Nat \ {0}
  /\ Deliveries \in [Nodes -> Nat \ {0}]
  /\ Limit \in [DOMAIN Limit -> Nat]
  /\ \A n \in Nodes : Keys[n] \subseteq DOMAIN Limit
  /\ MaxCrashes \in Nat

VARIABLES
  status,    \* InternalNode.status
  attempt,   \* InternalNode.attempt, which job.attempt follows
  failures,  \* InternalNode.failureCount
  result,    \* the value a node's action returned (read once it is COMPLETED)
  exec,      \* where executeWithRetry stands for the node, which is also what
             \* the idempotency store holds for its key
  sweep,     \* the nodes compensateUpstream has still to compensate
  order,     \* completionOrder, as each node's position in it (0: not in it)
  job,       \* where each delivery of a node's job is
  running,   \* ConcurrencyLimiter.running: the job ids that hold a seat
  used,      \* ConcurrencyLimiter.byAgent, byTenant, byTool: seats per key
  driver,    \* where drive() stands
  cancelled, \* the cancelled flag
  verdicts,  \* the run-level verdict events emitted since the process started
  ledger,    \* what the emitted events say: applyEventToSnapshot, folded
  durable,   \* the same fold over the persisted events only
  crashes,   \* process deaths so far
  calls,     \* history: forward calls of the node's handler
  effects,   \* history: forward effects the outside world has seen
  zombies,   \* handler calls nobody waits for any more
  undone     \* history: how often a sweep has compensated the node

nodeVars  == <<status, attempt, failures, result>>
execVars  == <<exec, sweep, order>>
queueVars == <<job, running, used>>
runVars   == <<driver, cancelled, verdicts, crashes>>
logVars   == <<ledger, durable>>
worldVars == <<calls, effects, zombies, undone>>
vars == <<nodeVars, execVars, queueVars, runVars, logVars, worldVars>>

Jobs == UNION {{n} \X (1..Deliveries[n]) : n \in Nodes}

-----------------------------------------------------------------------------
(* Pure helpers of the executor                                            *)

\* promoteReady: every planned node whose dependencies are all completed.
Promote(st) ==
  [n \in Nodes |->
     IF st[n] = "PLANNED" /\ \A d \in Deps[n] : st[d] = "COMPLETED"
       THEN After(st[n], "PREPARE") ELSE st[n]]

\* What cascadeSkip visits from the nodes of roots: the least set that holds
\* them and every planned node depending on one of its members.
Cascade(st, roots) ==
  {m \in Nodes :
     \A S \in SUBSET Nodes :
       /\ roots \subseteq S
       /\ \A x \in Nodes : st[x] = "PLANNED" /\ Deps[x] \cap S # {} => x \in S
       => m \in S}

\* Variant: skipNode without the cascade.
SkipFlat(st, roots) == [n \in Nodes |-> IF n \in roots THEN "SKIPPED" ELSE st[n]]

\* skipNode / cascadeSkip: the roots and all that depends on them are skipped.
Skip(st, roots) ==
  LET C == Cascade(st, roots)
  IN [n \in Nodes |-> IF n \in C THEN "SKIPPED" ELSE st[n]]

\* The branch not taken.
Untaken(n, branch) == IF branch = "yes" THEN Else[n] ELSE Then[n]

\* skipNode throws on the first target that is neither planned nor terminal.
Misplaced(st, targets) ==
  {i \in DOMAIN targets : st[targets[i]] \notin Terminal \cup {"PLANNED"}}

\* The targets the loop of runConditional skips before it ends or throws.
SkipRoots(st, targets) ==
  {targets[i] : i \in {i \in DOMAIN targets :
                         /\ st[targets[i]] = "PLANNED"
                         /\ \A k \in Misplaced(st, targets) : i < k}}

\* Variant: the limit is taken as exclusive.
SlotFreeStrict(n) ==
  Cardinality(running) < MaxJobs /\ \A k \in Keys[n] : used[k] + 1 < Limit[k]

\* tryAcquire would give n's job a seat.
SlotFree(n) ==
  /\ Cardinality(running) < MaxJobs
  /\ \A k \in Keys[n] : used[k] < Limit[k]

\* FailureGuard.assess, whose two answers are independent of each other.
Stops(count) == StopAt > 0 /\ count >= StopAt
Quarantines(count) == QuarantineAt > 0 /\ count >= QuarantineAt

\* Variant: finalize forgets that a skipped node is a good end.
VerdictStrict(st) ==
  IF \E n \in Nodes : st[n] = "QUARANTINED" THEN "QUARANTINED"
  ELSE IF \A n \in Nodes : st[n] = "COMPLETED" THEN "COMPLETED"
  ELSE IF \E n \in Nodes : st[n] = "CANCELLED" THEN "CANCELLED" ELSE "FAILED"

\* The verdict finalize emits for the statuses the nodes ended with.
Verdict(st) ==
  LET Some(S) == \E n \in Nodes : st[n] \in S
  IN IF Some({"QUARANTINED"}) THEN "QUARANTINED"
     ELSE IF Some({"FAILED", "ROLLED_BACK"}) THEN "FAILED"
     ELSE IF Some(NodeStatus \ {"COMPLETED", "SKIPPED", "CANCELLED"}) THEN "FAILED"
     ELSE IF Some({"CANCELLED"}) THEN "CANCELLED" ELSE "COMPLETED"

\* The status outcome() returns to the caller of run() (deriveStatus).
Outcome(st) ==
  LET Some(S) == \E n \in Nodes : st[n] \in S
  IN IF Some({"QUARANTINED"}) THEN "QUARANTINED"
     ELSE IF Some({"FAILED", "ROLLED_BACK"}) THEN "FAILED"
     ELSE IF Some({"CANCELLED"}) THEN "CANCELLED" ELSE "COMPLETED"

-----------------------------------------------------------------------------
(* The ledger, as what hydrate() will make of it: each node's status, last  *)
(* attempt and result, and its place in the order of the nodes' first events*)

\* The place after those the positions in f take.
NextPlace(f) == 1 + Cardinality({m \in Nodes : f[m] > 0})

\* emit() of an event that applyEventToSnapshot knows.
Emit(L, n, s) ==
  [st |-> [L.st EXCEPT ![n] = s], at |-> L.at, res |-> L.res, seen |-> L.seen]

\* Variant: every Running event counts as the node's first.
EmitRunningAgain(L, n, a) ==
  [st |-> [L.st EXCEPT ![n] = "RUNNING"], at |-> [L.at EXCEPT ![n] = a], res |-> L.res,
   seen |-> [L.seen EXCEPT ![n] = NextPlace(L.seen)]]

\* WorkflowNodeRunning carries the attempt, and is a node's first event.
EmitRunning(L, n, a) ==
  [st |-> [L.st EXCEPT ![n] = "RUNNING"], at |-> [L.at EXCEPT ![n] = a], res |-> L.res,
   seen |-> [L.seen EXCEPT ![n] = IF @ = 0 THEN NextPlace(L.seen) ELSE @]]

\* WorkflowNodeCompleted carries the result.
EmitCompleted(L, n) ==
  [st |-> [L.st EXCEPT ![n] = "COMPLETED"], at |-> L.at,
   res |-> [L.res EXCEPT ![n] = result[n]], seen |-> L.seen]

\* WorkflowNodeSkipped for every node a skip reached.
EmitSkipped(L, st) ==
  [st |-> [n \in Nodes |-> IF st[n] = "SKIPPED" THEN "SKIPPED" ELSE L.st[n]],
   at |-> L.at, res |-> L.res, seen |-> L.seen]

\* WorkflowNodeCancelled for every node of `open`.
EmitCancelled(L, open) ==
  [st |-> [n \in Nodes |-> IF n \in open THEN "CANCELLED" ELSE L.st[n]],
   at |-> L.at, res |-> L.res, seen |-> L.seen]

\* Variant: a verified node is taken for a completed one.
HydratedVerified(L) ==
  Promote([n \in Nodes |-> IF L.st[n] = "VERIFYING" THEN "COMPLETED"
                           ELSE IF L.st[n] \in Terminal THEN L.st[n] ELSE "PLANNED"])

\* hydrate(): terminal snapshots are kept, the rest of the plan starts over.
Hydrated(L) ==
  LET kept == [n \in Nodes |-> IF L.st[n] \in Terminal THEN L.st[n] ELSE "PLANNED"]
  IN Promote(Skip(kept, {n \in Nodes : kept[n] = "SKIPPED"}))

\* Variant: onPersist is not wired.
RecordNothing(L) == ledger' = L /\ UNCHANGED durable

\* emit, then persist().
Record(L) == ledger' = L /\ durable' = L

Init ==
  /\ status = Promote([n \in Nodes |-> "PLANNED"])
  /\ attempt = [n \in Nodes |-> 1]
  /\ failures = [n \in Nodes |-> 0]
  /\ result = [n \in Nodes |-> "none"]
  /\ exec = [n \in Nodes |-> "idle"]
  /\ sweep = [n \in Nodes |-> {}]
  /\ order = [n \in Nodes |-> 0]
  /\ job = [j \in Jobs |-> "absent"]
  /\ running = {}
  /\ used = [k \in DOMAIN Limit |-> 0]
  /\ driver = "driving" /\ cancelled = FALSE /\ verdicts = {} /\ crashes = 0
  /\ ledger = [st |-> [n \in Nodes |-> "PLANNED"], at |-> [n \in Nodes |-> 1],
               res |-> [n \in Nodes |-> "none"], seen |-> [n \in Nodes |-> 0]]
  /\ durable = ledger
  /\ calls = [n \in Nodes |-> 0] /\ effects = [n \in Nodes |-> 0]
  /\ zombies = [n \in Nodes |-> 0] /\ undone = [n \in Nodes |-> 0]

-----------------------------------------------------------------------------
(* drive(): waves of ready nodes                                           *)

Ready == {n \in Nodes : status[n] = "READY"}

\* A worker is taken by the delivery it runs, or died of what runJob threw.
Busy == {j \in Jobs : job[j] \in {"acquiring", "awaiting", "thrown"}}

\* Every ready node's job is queued, the wave is persisted, workers start.
Enqueue ==
  /\ driver = "driving" /\ ~cancelled /\ Ready # {}
  /\ job' = [j \in Jobs |-> IF j[1] \in Ready THEN "queued" ELSE job[j]]
  /\ driver' = "dispatching"
  /\ Record(ledger)
  /\ UNCHANGED <<nodeVars, execVars, running, used, cancelled, verdicts, crashes, worldVars>>

\* Variant: dispatch() returns once the queue is empty, with jobs in hand.
JoinEarly ==
  /\ driver = "dispatching" /\ \A j \in Jobs : job[j] # "queued"
  /\ driver' = "driving"
  /\ UNCHANGED <<nodeVars, execVars, queueVars, cancelled, verdicts, crashes, logVars, worldVars>>

\* dispatch() returns: every worker saw an empty queue or the cancelled flag.
Join ==
  /\ driver = "dispatching" /\ Busy = {}
  /\ cancelled \/ \A j \in Jobs : job[j] # "queued"
  /\ driver' = "driving"
  /\ UNCHANGED <<nodeVars, execVars, queueVars, cancelled, verdicts, crashes, logVars, worldVars>>

\* Variant: nothing is persisted after the last wave.
FinishUnpersisted ==
  /\ driver = "driving" /\ ~cancelled /\ Ready = {}
  /\ verdicts' = {Verdict(status)}
  /\ driver' = "finished"
  /\ UNCHANGED <<nodeVars, execVars, queueVars, cancelled, crashes, logVars, worldVars>>

\* Variant: drive() ends only when every node is terminal.
FinishComplete ==
  /\ driver = "driving" /\ \A n \in Nodes : status[n] \in Terminal
  /\ verdicts' = {Verdict(status)}
  /\ Record(ledger)
  /\ driver' = "finished"
  /\ UNCHANGED <<nodeVars, execVars, queueVars, cancelled, crashes, worldVars>>

\* cancelAll when cancelled, then finalize and the last persist.
Finish ==
  /\ driver = "driving" /\ (cancelled \/ Ready = {})
  /\ LET open == IF cancelled THEN {n \in Nodes : status[n] \notin Terminal} ELSE {}
         ends == [n \in Nodes |-> IF n \in open THEN "CANCELLED" ELSE status[n]]
     IN /\ status' = ends
        /\ verdicts' = verdicts \cup {Verdict(ends)}
                         \cup (IF cancelled THEN {"CANCELLED"} ELSE {})
        /\ Record(EmitCancelled(ledger, open))
  /\ driver' = "finished"
  /\ UNCHANGED <<attempt, failures, result, execVars, queueVars, cancelled, crashes, worldVars>>

\* cancel(): only a flag; workers that outlive a rejected run() see it too.
Cancel ==
  /\ CanCancel /\ ~cancelled /\ driver # "finished"
  /\ cancelled' = TRUE
  /\ UNCHANGED <<nodeVars, execVars, queueVars, driver, verdicts, crashes, logVars, worldVars>>

-----------------------------------------------------------------------------
(* runJob(): the workers, the bulkhead and the idempotency store           *)

\* The head of an attempt: WorkflowNodeRunning is durable before the action.
Announce(n, event, count) ==
  /\ status' = [status EXCEPT ![n] = After(@, event)]
  /\ attempt' = [attempt EXCEPT ![n] = count]
  /\ exec' = [exec EXCEPT ![n] = "announced"]
  /\ Record(EmitRunning(ledger, n, count))

\* A seat is taken.  The first delivery of a key runs the node; a later one
\* awaits the same promise.
Admit(j) ==
  LET n == j[1]
  IN /\ job' = [job EXCEPT ![j] = "awaiting"]
     /\ running' = running \cup {n}
     /\ used' = [k \in DOMAIN Limit |-> IF k \in Keys[n] THEN used[k] + 1 ELSE used[k]]
     /\ \/ exec[n] = "idle" /\ Announce(n, "START", attempt[n])
        \/ exec[n] # "idle" /\ UNCHANGED <<status, attempt, exec, logVars>>
     /\ UNCHANGED <<failures, result, sweep, order, runVars, worldVars>>

\* A free worker dequeues a delivery; without a seat it starts to poll.
Take(j) ==
  /\ job[j] = "queued" /\ ~cancelled /\ driver \in {"dispatching", "rejected"}
  /\ Cardinality(Busy) < MaxJobs
  /\ \/ SlotFree(j[1]) /\ Admit(j)
     \/ /\ ~SlotFree(j[1])
        /\ job' = [job EXCEPT ![j] = "acquiring"]
        /\ UNCHANGED <<nodeVars, execVars, running, used, runVars, logVars, worldVars>>

\* The polling loop does not look at the cancelled flag.
Poll(j) == job[j] = "acquiring" /\ SlotFree(j[1]) /\ Admit(j)

\* The finally block: the seat goes back, the worker is free or dead.
Release(j, fate) ==
  /\ job' = [job EXCEPT ![j] = fate]
  /\ running' = running \ {j[1]}
  /\ used' = [k \in DOMAIN Limit |->
                IF k \in Keys[j[1]] /\ used[k] > 0 THEN used[k] - 1 ELSE used[k]]

\* The promise resolved and the node is open: completeNode.  The event is
\* emitted; what persists it is whatever persists next.
Complete(j) ==
  LET n == j[1]
  IN /\ job[j] = "awaiting" /\ exec[n] = "verified"
     /\ status' = Promote([status EXCEPT ![n] = After(@, "COMPLETE")])
     /\ order' = [order EXCEPT ![n] = NextPlace(order)]
     /\ exec' = [exec EXCEPT ![n] = "fulfilled"]
     /\ ledger' = EmitCompleted(ledger, n)
     /\ Release(j, "done")
     /\ UNCHANGED <<attempt, failures, result, sweep, runVars, durable, worldVars>>

\* Variant: the duplicate returns without the finally block.
LeaveLeaks(j) ==
  /\ job[j] = "awaiting"
  /\ exec[j[1]] \in {"fulfilled", "rejected"} /\ status[j[1]] \in Terminal
  /\ job' = [job EXCEPT ![j] = "done"]
  /\ UNCHANGED <<nodeVars, execVars, running, used, runVars, logVars, worldVars>>

\* The promise settled and the node is terminal: nothing but the release.
Leave(j) ==
  /\ job[j] = "awaiting"
  /\ exec[j[1]] \in {"fulfilled", "rejected"} /\ status[j[1]] \in Terminal
  /\ Release(j, "done")
  /\ UNCHANGED <<nodeVars, execVars, runVars, logVars, worldVars>>

\* The promise rejected with the node still WAITING: failNode has no FAIL for
\* it in the table, so runJob, its worker and run() reject.
Throw(j) ==
  /\ job[j] = "awaiting" /\ exec[j[1]] = "rejected" /\ status[j[1]] \notin Terminal
  /\ Release(j, "thrown")
  /\ driver' = "rejected"
  /\ UNCHANGED <<nodeVars, execVars, cancelled, verdicts, crashes, logVars, worldVars>>

-----------------------------------------------------------------------------
(* executeWithRetry(): what happens when an attempt throws                 *)

\* failNode and the rejection of the promise.  It is told whether the guard
\* quarantines, also when the guard did not stop the node and the retry policy did.
FailNode(n, st, L) ==
  \/ \* a node that waits for its approval: FAIL is illegal there, nothing is recorded
     /\ st[n] = "WAITING"
     /\ status' = st /\ exec' = [exec EXCEPT ![n] = "rejected"]
     /\ ledger' = L /\ UNCHANGED durable
  \/ \* quarantine
     /\ st[n] # "WAITING" /\ Quarantines(failures[n] + 1)
     /\ status' = [st EXCEPT ![n] = After("FAILED", "QUARANTINE")]
     /\ exec' = [exec EXCEPT ![n] = "rejected"]
     /\ Record(Emit(L, n, "QUARANTINED"))
  \/ \* the node has a compensating action: it is called next
     /\ st[n] # "WAITING" /\ ~Quarantines(failures[n] + 1)
     /\ Comp[n] = "action"
     /\ status' = [st EXCEPT ![n] = After("FAILED", "COMPENSATE")]
     /\ exec' = [exec EXCEPT ![n] = "compensating"]
     /\ Record(Emit(L, n, "COMPENSATING"))
  \/ \* plain failure, of an irreversible node too
     /\ st[n] # "WAITING" /\ ~Quarantines(failures[n] + 1)
     /\ Comp[n] # "action"
     /\ status' = [st EXCEPT ![n] = "FAILED"]
     /\ exec' = [exec EXCEPT ![n] = "rejected"]
     /\ Record(Emit(L, n, "FAILED"))

\* The catch block, with the statuses st and the ledger L of the moment.
Catch(n, error, st, L) ==
  LET again == /\ ~Stops(failures[n] + 1)
               /\ attempt[n] < MaxAttempts
               /\ error \in Retryable[n]
  IN /\ failures' = [failures EXCEPT ![n] = @ + 1]
     /\ \/ ~again /\ FailNode(n, st, L)
        \/ /\ again /\ st[n] = "RUNNING"
           /\ status' = [st EXCEPT ![n] = After(After(@, "FAIL"), "RETRY")]
           /\ exec' = [exec EXCEPT ![n] = "backoff"]
           /\ Record(Emit(L, n, "RETRYING"))
        \/ \* denied, or asked in vain: no FAIL in the table, the catch throws
           /\ again /\ st[n] # "RUNNING"
           /\ status' = st /\ exec' = [exec EXCEPT ![n] = "rejected"]
           /\ ledger' = L /\ UNCHANGED durable

\* An attempt that throws where it stands.
Throws(n, error) ==
  /\ Catch(n, error, status, ledger)
  /\ UNCHANGED <<attempt, result, sweep, order, queueVars, runVars>>

\* Variant: the attempt is not counted.
WakeUncounted(n) ==
  /\ exec[n] = "backoff"
  /\ Announce(n, "RESUME", attempt[n])
  /\ UNCHANGED <<failures, result, sweep, order, queueVars, runVars, worldVars>>

\* Variant: every attempt begins with START.
WakeStart(n) ==
  /\ exec[n] = "backoff"
  /\ Announce(n, "START", attempt[n] + 1)
  /\ UNCHANGED <<failures, result, sweep, order, queueVars, runVars, worldVars>>

\* The backoff is over: the next attempt.
Wake(n) ==
  /\ exec[n] = "backoff"
  /\ Announce(n, "RESUME", attempt[n] + 1)
  /\ UNCHANGED <<failures, result, sweep, order, queueVars, runVars, worldVars>>

-----------------------------------------------------------------------------
(* runNodeAction(): approvals, actions and conditionals                    *)

NeedsApproval(n) == Kind[n] = "APPROVAL" \/ (Kind[n] = "ACTION" /\ n \in Gated)

\* results holds what n refers to.
Resolved(n) == \A m \in Needs[n] : status[m] = "COMPLETED"

\* A segment that moves only this node, and persists what it emitted.
Step(n, st, pc) ==
  /\ status' = st
  /\ exec' = [exec EXCEPT ![n] = pc]
  /\ UNCHANGED <<attempt, failures, sweep, order, queueVars, runVars>>

\* requestApproval, up to the question.
Ask(n) ==
  /\ exec[n] = "announced" /\ NeedsApproval(n)
  /\ Step(n, [status EXCEPT ![n] = After(@, "WAIT")], "asking")
  /\ Record(ledger)
  /\ UNCHANGED <<result, worldVars>>

\* The answer.  The events of an approval leave no trace in a snapshot.
Grant(n) ==
  /\ exec[n] = "asking"
  /\ Step(n, [status EXCEPT ![n] = After(@, "APPROVE")], "granted")
  /\ Record(ledger)
  /\ UNCHANGED <<result, worldVars>>

Deny(n) ==
  /\ exec[n] = "asking"
  /\ Step(n, [status EXCEPT ![n] = After(@, "DENY")], "denied")
  /\ Record(ledger)
  /\ UNCHANGED <<result, worldVars>>

\* The denial becomes an error of the attempt.
Refuse(n) == exec[n] = "denied" /\ Throws(n, "denied") /\ UNCHANGED worldVars

\* handler.requestApproval itself rejects.
ApprovalFails(n) ==
  /\ ApprovalMayThrow /\ exec[n] = "asking"
  /\ Throws(n, "provider") /\ UNCHANGED worldVars

\* The handler may be called: approved where approval is asked for.
MayAct(n) ==
  /\ Kind[n] \in {"ACTION", "PROBE"}
  /\ exec[n] = IF NeedsApproval(n) THEN "granted" ELSE "announced"

\* resolveInput and handler.run.
Invoke(n) ==
  /\ MayAct(n) /\ Resolved(n)
  /\ Step(n, status, "acting")
  /\ calls' = [calls EXCEPT ![n] = @ + 1]
  /\ UNCHANGED <<result, logVars, effects, zombies, undone>>

\* The result an input or a condition names does not exist.
Unresolved(n) ==
  /\ MayAct(n) \/ (Kind[n] = "CHECK" /\ exec[n] = "announced")
  /\ ~Resolved(n)
  /\ Throws(n, "missing") /\ UNCHANGED worldVars

\* VERIFY: WorkflowNodeVerified is emitted and persisted.
Verified(n, value) ==
  /\ Step(n, [status EXCEPT ![n] = After(@, "VERIFY")], "verified")
  /\ result' = [result EXCEPT ![n] = value]
  /\ Record(Emit(ledger, n, "VERIFYING"))

\* What an action's result says, as far as a later condition can tell.
Says(n) ==
  IF \E m \in Nodes : Kind[m] = "CHECK" /\ n \in Needs[m] THEN {"yes", "no"} ELSE {"yes"}

\* The handler of an action node succeeds in time.
Succeed(n) ==
  /\ exec[n] = "acting" /\ Kind[n] = "ACTION"
  /\ \E value \in Says(n) : Verified(n, value)
  /\ effects' = [effects EXCEPT ![n] = @ + 1]
  /\ UNCHANGED <<calls, zombies, undone>>

\* An approval node is done with the answer.
Approved(n) ==
  /\ exec[n] = "granted" /\ Kind[n] = "APPROVAL"
  /\ Verified(n, "yes")
  /\ UNCHANGED worldVars

\* The handler reports failure or rejects, in time.  A probe that reports
\* failure has done its work (Route); only a rejection is an error there.
Fail(n) == exec[n] = "acting" /\ Throws(n, "failure") /\ UNCHANGED worldVars

\* The timer fires first: nobody listens to the handler any more.
Timeout(n) ==
  /\ exec[n] = "acting" /\ n \in Timed
  /\ Throws(n, "timeout")
  /\ zombies' = [zombies EXCEPT ![n] = @ + 1]
  /\ UNCHANGED <<calls, effects, undone>>

\* The handler of an abandoned call ends, with its effect or without.
ZombieEnds(n) ==
  /\ zombies[n] > 0
  /\ zombies' = [zombies EXCEPT ![n] = @ - 1]
  /\ \E e \in {0, 1} : effects' = [effects EXCEPT ![n] = @ + e]
  /\ UNCHANGED <<nodeVars, execVars, queueVars, runVars, logVars, calls, undone>>

\* The source of a conditional is known: its own action's verdict, or the
\* recorded result of an earlier node.
Source(n, branch) ==
  \/ Kind[n] = "PROBE" /\ exec[n] = "acting"
  \/ /\ Kind[n] = "CHECK" /\ exec[n] = "announced"
     /\ Resolved(n) /\ \A m \in Needs[n] : result[m] = branch

\* runConditional skips the branch not taken; the skips are emitted, and
\* persisted with whatever persists next.
Route(n, branch) ==
  /\ Source(n, branch)
  /\ LET targets == Untaken(n, branch)
         st == Skip(status, SkipRoots(status, targets))
     IN \/ /\ Misplaced(status, targets) = {}
           /\ Step(n, st, "routed")
           /\ ledger' = EmitSkipped(ledger, st) /\ UNCHANGED durable
           /\ result' = [result EXCEPT ![n] = branch]
        \/ \* a target already started: SKIP is illegal there
           /\ Misplaced(status, targets) # {}
           /\ Catch(n, "illegal", st, EmitSkipped(ledger, st))
           /\ UNCHANGED <<attempt, result, sweep, order, queueVars, runVars>>
  /\ effects' = IF Kind[n] = "PROBE" THEN [effects EXCEPT ![n] = @ + 1] ELSE effects
  /\ UNCHANGED <<calls, zombies, undone>>

\* The conditional's own verification.
Routed(n) == exec[n] = "routed" /\ Verified(n, result[n]) /\ UNCHANGED worldVars

-----------------------------------------------------------------------------
(* failNode(): compensation of the node, then of what completed before it  *)

\* What compensateUpstream will undo.
Upstream(n) == {m \in Nodes \ {n} : status[m] = "COMPLETED" /\ Comp[m] = "action"}

\* `rest` are the nodes left to undo: after the last one the sweep persists.
Sweep(n, rest, L) ==
  /\ sweep' = [sweep EXCEPT ![n] = rest]
  /\ exec' = [exec EXCEPT ![n] = IF rest = {} THEN "rejected" ELSE "sweeping"]
  /\ ledger' = L
  /\ durable' = IF rest = {} THEN L ELSE durable

\* Variant: the ROLLBACK transition is forgotten.
CompensateOpen(n) ==
  /\ exec[n] = "compensating"
  /\ Sweep(n, Upstream(n), ledger)
  /\ UNCHANGED <<nodeVars, order, queueVars, runVars, worldVars>>

\* The node's compensating action settles, whatever it answered: ROLLED_BACK.
Compensate(n) ==
  /\ exec[n] = "compensating"
  /\ status' = [status EXCEPT ![n] = After(@, "ROLLBACK")]
  /\ Sweep(n, Upstream(n), Emit(ledger, n, "ROLLED_BACK"))
  /\ UNCHANGED <<attempt, failures, result, order, queueVars, runVars, worldVars>>

\* Variant: oldest completion first.
UndoOldest(n) ==
  /\ exec[n] = "sweeping"
  /\ \E m \in sweep[n] :
       /\ \A x \in sweep[n] : order[m] <= order[x]
       /\ undone' = [undone EXCEPT ![m] = @ + 1]
       /\ Sweep(n, sweep[n] \ {m}, ledger)
  /\ UNCHANGED <<nodeVars, order, queueVars, runVars, calls, effects, zombies>>

\* The newest completion's compensation settles, whatever it answered; its
\* event is not part of a snapshot.
Undo(n) ==
  /\ exec[n] = "sweeping"
  /\ \E m \in sweep[n] :
       /\ \A x \in sweep[n] : order[x] <= order[m]
       /\ undone' = [undone EXCEPT ![m] = @ + 1]
       /\ Sweep(n, sweep[n] \ {m}, ledger)
  /\ UNCHANGED <<nodeVars, order, queueVars, runVars, calls, effects, zombies>>

-----------------------------------------------------------------------------
(* The process dies; another one hydrates from the durable events, resumes *)

Restart ==
  /\ crashes < MaxCrashes
  /\ LET st == Hydrated(durable)
     IN /\ status' = st
        /\ attempt' = durable.at
        /\ result' = durable.res
        /\ exec' = [n \in Nodes |-> IF st[n] = "COMPLETED" THEN "fulfilled" ELSE "idle"]
        /\ order' = [n \in Nodes |->
                       IF st[n] # "COMPLETED" THEN 0
                       ELSE Cardinality({m \in Nodes : /\ st[m] = "COMPLETED"
                                                       /\ durable.seen[m] <= durable.seen[n]})]
        /\ ledger' = EmitSkipped(durable, st)
  /\ failures' = [n \in Nodes |-> 0]
  /\ sweep' = [n \in Nodes |-> {}]
  /\ job' = [j \in Jobs |-> "absent"]
  /\ running' = {} /\ used' = [k \in DOMAIN Limit |-> 0]
  /\ driver' = "driving" /\ cancelled' = FALSE /\ verdicts' = {}
  /\ crashes' = crashes + 1
  /\ zombies' = [n \in Nodes |-> zombies[n] + (IF exec[n] = "acting" THEN 1 ELSE 0)]
  /\ UNCHANGED <<durable, calls, effects, undone>>

\* run() has returned or rejected: nothing more need happen.
Stopped == driver \in {"finished", "rejected"} /\ UNCHANGED vars

-----------------------------------------------------------------------------
\* The segments of one node that the code runs by itself.
NodeStep(n) ==
  \/ Ask(n) \/ Refuse(n) \/ Invoke(n) \/ Unresolved(n) \/ Approved(n)
  \/ Routed(n) \/ Wake(n)
  \/ Kind[n] = "CHECK" /\ \E branch \in {"yes", "no"} : Route(n, branch)

\* What the outside answers: approvers, handlers, compensations.
Answer(n) ==
  \/ Grant(n) \/ Deny(n) \/ ApprovalFails(n)
  \/ Succeed(n) \/ Fail(n) \/ Compensate(n) \/ Undo(n)
  \/ Kind[n] = "PROBE" /\ \E branch \in {"yes", "no"} : Route(n, branch)

JobStep(j) == Take(j) \/ Poll(j) \/ Complete(j) \/ Leave(j) \/ Throw(j)

Drive == Enqueue \/ Join \/ Finish

Next ==
  \/ Drive
  \/ \E j \in Jobs : JobStep(j)
  \/ \E n \in Nodes : NodeStep(n) \/ Answer(n) \/ Timeout(n) \/ ZombieEnds(n)
  \/ Cancel \/ Restart \/ Stopped

Spec == Init /\ [][Next]_vars

\* The event loop runs every segment that is due, and every timer fires.
\* Nobody answers unless the code gives up on them (Timeout).
RuntimeFairness ==
  /\ WF_vars(Drive)
  /\ \A j \in Jobs : WF_vars(JobStep(j))
  /\ \A n \in Nodes : WF_vars(NodeStep(n)) /\ WF_vars(Timeout(n))

FairSpec == Spec /\ RuntimeFairness

\* The same, when approvers, handlers and compensations answer in the end.
AnsweredSpec == FairSpec /\ \A n \in Nodes : WF_vars(Answer(n))

-----------------------------------------------------------------------------
(* Properties                                                              *)

ExecState == {"idle", "announced", "asking", "granted", "denied", "acting", "routed",
              "verified", "fulfilled", "backoff", "compensating", "sweeping", "rejected"}

Snapshots == [st : [Nodes -> NodeStatus], at : [Nodes -> 1..MaxAttempts],
              res : [Nodes -> {"none", "yes", "no"}], seen : [Nodes -> Nat]]

\* Every variable has its type; in particular no transition of the executor's
\* own handlers leaves the node table (no status is ILLEGAL).
TypeOK ==
  /\ status \in [Nodes -> NodeStatus]
  /\ attempt \in [Nodes -> 1..MaxAttempts]
  /\ failures \in [Nodes -> Nat]
  /\ result \in [Nodes -> {"none", "yes", "no"}]
  /\ exec \in [Nodes -> ExecState]
  /\ sweep \in [Nodes -> SUBSET Nodes]
  /\ order \in [Nodes -> Nat]
  /\ job \in [Jobs -> {"absent", "queued", "acquiring", "awaiting", "thrown", "done"}]
  /\ running \subseteq Nodes
  /\ used \in [DOMAIN Limit -> Nat]
  /\ driver \in {"driving", "dispatching", "finished", "rejected"}
  /\ cancelled \in BOOLEAN
  /\ verdicts \subseteq {"COMPLETED", "FAILED", "QUARANTINED", "CANCELLED"}
  /\ ledger \in Snapshots /\ durable \in Snapshots
  /\ crashes \in 0..MaxCrashes
  /\ calls \in [Nodes -> Nat] /\ effects \in [Nodes -> Nat]
  /\ zombies \in [Nodes -> Nat] /\ undone \in [Nodes -> Nat]

\* A node whose execution has begun, in this process or before the crash it was
\* hydrated after, stands on dependencies whose completion is already on disk,
\* although completeNode itself persists nothing: no crash can take back a
\* result somebody has used.
DurableDeps ==
  \A n \in Nodes : exec[n] # "idle" =>
    \A d \in Deps[n] : status[d] = "COMPLETED" /\ durable.st[d] = "COMPLETED"

\* Skipping is closed under dependency, in memory and in what a crash would
\* leave: no node waits for, or runs after, one that was routed away.
SkipClosed ==
  \A n \in Nodes : \A d \in Deps[n] :
    /\ status[d] = "SKIPPED" => status[n] = "SKIPPED"
    /\ Hydrated(durable)[d] = "SKIPPED" => Hydrated(durable)[n] = "SKIPPED"

\* Once a node's handler has been called, the handlers of its dependencies are
\* never called again, whatever fails, is retried or crashes.
UpstreamSettled ==
  [][\A n \in Nodes : calls[n] > 0 => \A d \in Deps[n] : calls'[d] = calls[d]]_vars

\* completionOrder lists the completed nodes once each, dependencies first.
\* hydrate rebuilds it from the order of the nodes' first events, which is not
\* the order they completed in: it must still be one a sweep can reverse.
CompletionOrder ==
  \A n \in Nodes :
    /\ order[n] > 0 <=> status[n] = "COMPLETED"
    /\ \A m \in Nodes \ {n} : order[n] > 0 => order[m] # order[n]
    /\ \A x \in Deps[n] : order[n] > 0 => order[x] \in 1..(order[n] - 1)

\* A run that returns has accounted for every node: it is terminal, or planned
\* behind a node that failed, and nothing became ready unnoticed.
NothingForgotten ==
  driver = "finished" =>
    \A n \in Nodes :
      \/ status[n] \in Terminal
      \/ /\ status[n] = "PLANNED" /\ ~cancelled
         /\ \E d \in Deps[n] :
              status[d] \in {"FAILED", "ROLLED_BACK", "QUARANTINED", "PLANNED"}

\* The verdict event finalize writes to the ledger and the status outcome()
\* returns to the caller come from two different functions; they agree.
VerdictAgrees ==
  driver = "finished" /\ ~cancelled => verdicts = {Outcome(status)}

\* What a run returned is what another process would hydrate from its ledger.  It
\* would not be if a node that asks for an approval could retry a denial.
FinishedIsDurable == driver = "finished" => Hydrated(durable) = status

\* The handler of a node is called at most once per attempt, and once more for
\* each crash, whatever the queue delivers: retry.maxAttempts is a budget.
RetryBudget == \A n \in Nodes : calls[n] <= attempt[n] + crashes

\* A compensation sweep never undoes a node before one that depends on it and
\* is still to be undone.
UndoOrder ==
  [][\A n, m \in Nodes : m \in sweep[n] \ sweep'[n] /\ crashes' = crashes =>
       \A x \in sweep'[n] : m \notin Deps[x]]_vars

\* run() rejects only when an approval provider threw: no other sequence of
\* failures, retries, denials and routings reaches an illegal transition that
\* escapes the executor.
OnlyApprovalRejects ==
  driver = "rejected" => \E n \in Nodes : status[n] = "WAITING" /\ exec[n] = "rejected"

\* The per-key counters count the deliveries that hold a seat, and never more
\* of them than the limit: no path of runJob leaks a seat or returns it twice.
SeatsMatch ==
  \A k \in DOMAIN Limit :
    /\ used[k] = Cardinality({j \in Jobs : job[j] = "awaiting" /\ k \in Keys[j[1]]})
    /\ used[k] <= Limit[k]

\* Every run comes to an end and stays there, after the last crash too: no seat,
\* no worker and no promise is waited for in vain.
Settles == <>[](driver = "finished")

\* A completion is on disk in the end, though completeNode does not persist it.
CompletionPersists ==
  \A n \in Nodes : status[n] = "COMPLETED" ~> durable.st[n] = "COMPLETED"

(* What the repository says of the executor and the code does not do       *)

\* idempotency.ts: a timeout followed by a retry has no second effect.
OneEffect == \A n \in Nodes : effects[n] <= 1

\* A node routed to is not skipped: of a completed conditional's branches the
\* one it took runs.
BranchTaken ==
  \A n \in Nodes : Kind[n] \in {"PROBE", "CHECK"} /\ status[n] = "COMPLETED" =>
    LET targets == IF result[n] = "yes" THEN Then[n] ELSE Else[n]
    IN \A i \in DOMAIN targets : status[targets[i]] # "SKIPPED"

\* A completed node is undone once.
UndoneOnce == \A n \in Nodes : undone[n] <= 1
=============================================================================
