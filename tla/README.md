# chat.ai (Agent Operating Kernel): verification project

TLA+ models of the parts of this repository whose correctness depends on
interleavings, crashes and ordering, TLC instances that check them, and proofs
that TLAPS checks. Paths below are relative to the repository's root.

* `PROJECT.json` maps every definition to the lines it models, lists the runs,
  their properties, a mutant of the code for each property, the hazards, the
  disagreements found, and the theorems.
* Check a model: `tlc -config dag_recovery.cfg MCDagExecutor`. Check the proofs:
  `tlapm DagExecutorProofs.tla`, and so on for the other `*Proofs` modules.

## 1. Inventory

The repository is a TypeScript monorepo. A *kernel* (pure, mostly synchronous
packages) defines policy, identity, the hash-chained ledger, state machines and
the immune system; the *runtime* executes workflows; *storage* makes the ledger
durable; *plugins*, *adapters* and *apps* surround them. Everything that runs
concurrently does so on one JavaScript event loop: the unit of atomicity is the
segment of code between two `await`s.

| Component | State | Operations | What makes it hard, and what makes it correct |
|---|---|---|---|
| workflow executor `runtime/orchestrator/src/executor.ts` | node statuses, attempts, failure counts, results, completion order, cancelled flag | `run`, `hydrate`, `resume`, `cancel` | waves of workers, retries, timeouts, approvals, routing, compensation, death and resumption: what resumes must not redo what was used, and every node must be accounted for |
| node machine `node-machine.ts`, `kernel/transition` | status | table-driven transition | an event out of table throws, out of `catch` blocks too |
| idempotency, bulkhead, retry, compensation, scheduler (same directory) | promise per key; seats per job and per key; none; registry; FIFO | `run`, `tryAcquire`/`release`, `isRetryable`, `compensationFor`, `enqueue`/`dequeue` | duplicate deliveries; leaked seats; polling |
| plan graphs `runtime/orchestrator/src/dag.ts`, `kernel/transition/src/dag.ts` | colours and path of the search; layers | `validateGraph`/`validateDag`, `topologicalLayers` | exactly the cyclic plans are refused, whatever the order of the lists |
| durable ledger `storage/store/src/durable-ledger.ts` | events in memory, pending events | `append`, `flush`, `hydrate` | a flush that fails, overlaps another or outlives its process; the stored chain must be one some process held |
| event stores `sqlite-stores.ts`, `postgres.ts` | rows by `seq` | `append`, `all` | synchronous against asynchronous commit |
| kernel ledger `kernel/events` | event list | `append`, `verifyChain`, `merkleRoot` | what is hashed against what is stored |
| read models `storage/store/src/projections.ts` | counts per projection | `fold` | what they tell after a crash agrees with what callers were told |
| immune gate `kernel/immune/src/gate.ts` and its detectors, risk engine, firewall | none | `evaluate` | the order of its rules: more signals must not mean a milder decision |
| immune runtime, quarantine, kill switch, incidents, health | records, kill list, incidents, level, counters | `evaluateAndApply`, `kill`, `requestKill`, `flag`, `analyze`, `recover`, `revoke`, ... | repeated incidents of one entity, calls that throw half way, severe and mild incidents in any order |
| circuit breaker | state, failures, `openedAt`, trials | `allow`, `recordSuccess`, `recordFailure` | answers that come after the breaker has changed |
| local runner `apps/cli/src/local-runner.ts` | meter, grants, immune runtime, ledger | `run`, `grant` | concurrent runs; approvals awaited while the policy, the quota and the level move; awaits that reject; death |
| policy, execution, economics, names | grants; none; meter; registry | `evaluate`, `execute`, `allows`, `validateName` | default denial, no success without evidence |
| identity `kernel/identity` | five lists and their events | create, grant, issue, authenticate | tenants that name each other's ids; events that must rebuild the state |
| model gateway and router `plugins/models` | none | `invoke`, `choose` | fallback over providers that fail |
| GitHub tools, external run | what GitHub holds; the results | seven steps, twelve requests | several requests per operation, other clients, answers that are lost |
| worker `apps/worker` | a table of runs | `POST /run`, `GET /runs`, `GET /tasks` | the answer, the row and the connection fail separately |
| console `apps/console` | goal, agent, panel | submit, navigate, filter | answers later than what they were asked for |
| provenance, capability composition, registries, adapters, sandbox, `runtime/scheduler`, api, harness | records, small maps | compare, look up | pure, or without a state of their own |

How they interact: the executor appends events to a `LedgerLike` and awaits
`onPersist`, which is wired to `DurableLedger.flush`; the ledger hands batches to
an `EventStore`; after a crash `DurableLedger.hydrate` rebuilds the chain and
`DagExecutor.hydrate` folds it into statuses. The handler injected into the
executor calls `execute()` of the kernel, which asks the policy. `LocalRunner` is another,
linear, pipeline over ledger, meter, policy, immune runtime and `execute()`. The
worker makes a `LocalRunner` per request, and the console talks to the worker.
The breaker, the identity service, the model gateway and the plan checks share
nothing with the rest.

## 2. Modules

| Module | Models | Composes |
|---|---|---|
| `NodeMachine` | the node table and the transition | |
| `DagExecutor` | the executor with its workers, queue, bulkhead, idempotency store, approvals, timeouts, compensation, cancellation, ledger fold and restart | EXTENDS `NodeMachine` |
| `MCDagExecutor` | four plan graphs for TLC | EXTENDS `DagExecutor` |
| `EventLog` | abstract specification: what the executor is promised of its ledger | |
| `DurableLedger` | ledger, pending batch, two stores, hash chain, process deaths | refines `EventLog` |
| `PlanDag` | the search for cycles and the layering | |
| `ImmuneGate` | detectors, risk, firewall, blast radius, gate: operators | |
| `GateProbe` | one request, the configuration it meets, and the same request with less observed | EXTENDS `ImmuneGate` |
| `ImmuneRuntime` | quarantine, kill switch, incidents, level, counters | EXTENDS `ImmuneGate` |
| `CircuitBreaker` | one breaker, its callers, the clock | |
| `Policy` | policy engine, quota, names, verdict: operators | |
| `Projections` | the reducers of the read models: functions | |
| `RunContract` | abstract specification: what a runner promises its callers | |
| `LocalRunner` | concurrent runs on one runner | EXTENDS `ImmuneRuntime`, `Policy`, `Projections`; refines `RunContract` |
| `MCRunner` | instances for TLC | EXTENDS `LocalRunner` |
| `Identity` | the identity aggregate | |
| `ModelGateway` | one `invoke()`, and the router's choice | |
| `GithubE2E` | the external run, its operations, and GitHub | |
| `Worker` | `POST /run`, the lists, the D1 table, the network | |
| `Console` | the app, the workspace, the chat, the tasks panel | EXTENDS `Worker` |
| `Demo` | the demo engine and the routing it shows | INSTANCE `ModelGateway` |
| `MCServices` | instances for TLC of the parts that share no state | EXTENDS `ImmuneRuntime`, `GateProbe`, `CircuitBreaker`, `PlanDag`, `Identity`, `ModelGateway`, `GithubE2E`, `Console`, `Demo`, `DurableLedger` |
| `DagExecutorProofs` | theorems: types, durable dependencies | EXTENDS `DagExecutor`, `TLAPS` |
| `DagSafetyProofs` | theorems: the executor's other safety properties | EXTENDS `DagExecutorProofs` |
| `Induction` | lemmas the proofs share: least elements, recursive functions over 0..n, sizes of finite sets, a set listed as a sequence | EXTENDS `TLAPS` |
| `LedgerProofs` | theorems: the ledger and its refinement of `EventLog` | EXTENDS `DurableLedger`, `Induction`, `TLAPS` |
| `RunnerProofs` | theorems: quota, requests, refinement of `RunContract`, meter against read model, what arrives in the store | EXTENDS `LocalRunner`, `Induction`, `TLAPS` |
| `ImmuneProofs` | theorems: the immune runtime and the gate | EXTENDS `ImmuneRuntime`, `GateProbe`, `Induction`, `TLAPS` |
| `IdentityProofs` | theorems: tenants, events | EXTENDS `Identity`, `Induction`, `TLAPS` |
| `ServiceProofs` | theorems: plan graphs, GitHub, worker and console, breaker, model gateway | EXTENDS `PlanDag`, `GithubE2E`, `Console`, `CircuitBreaker`, `ModelGateway`, `Induction`, `TLAPS` |

### DagExecutor and the code

One action is one segment between awaits. `exec[n]` is the program counter of
`executeWithRetry` for node `n`, and at the same time what the idempotency store
holds for its key: nothing (`idle`), a pending promise, or a settled one
(`verified`, `fulfilled`, `rejected`). `job[j]` is where one *delivery* of a job
stands in `runJob`; `driver` is where `drive()` stands.

| Code | Actions |
|---|---|
| `drive`, `dispatch`, `cancelAll`, `finalize` | `Enqueue`, `Join`, `Finish` |
| `cancel` | `Cancel` |
| `dispatch` worker, `runJob`, bulkhead, idempotency | `Take`, `Poll`, `Complete`, `Leave`, `Throw` |
| `executeWithRetry` | `Admit` (first attempt), `Wake` (next attempts), `Catch` inside every action that throws |
| `requestApproval`, `runApproval` | `Ask`, `Grant`, `Deny`, `Refuse`, `ApprovalFails`, `Approved` |
| `runNodeAction`, `runWithTimeout` | `Invoke`, `Unresolved`, `Succeed`, `Fail`, `Timeout`, `ZombieEnds` |
| `runConditional`, `skipNode`, `cascadeSkip` | `Route`, `Routed` |
| `failNode`, `compensateUpstream` | `FailNode`, `Compensate`, `Undo` |
| process death, `hydrate`, `resume` | `Restart` |

`promoteReady` is not an action: it runs inside `Complete`, `Init` and
`Restart`, as in the code (`drive()` calls it once more at its start, where it
finds nothing new).

Abstractions. Delays are timers that fire some time. An error is one of the
kinds a retry policy can tell apart. A result is what a later condition can tell
(`yes`/`no`). `completionOrder`, and the order of the nodes' first events, are
positions per node. The ledger is the fold that `applyEventToSnapshot` makes of
it (`ledger`: emitted, `durable`: persisted): events without a case there leave
it unchanged. The guard's two answers are independent (`Stops`, `Quarantines`):
`failNode` is told of a quarantine also when the retry policy, and not the guard,
ended the node. `persist()` commits at once, as on SQLite; `DurableLedger` says
when that may be assumed. The queue may deliver a job several times
(`Deliveries`) and in any order: the contract in `types.ts`, of which
`InProcessScheduler`'s FIFO is a special case. A call abandoned by a timeout or
by a crash is a *zombie*: it may still take effect. History variables (`calls`,
`effects`, `zombies`, `undone`) are read by no guard but `ZombieEnds`'s own.

Not in the model: a `persist()` that rejects, `onBeforeStart` (a test hook), a
second `run()` on one executor, two runs in one ledger, `verify` of the handler
(never called by the executor), jitter and backoff lengths.

### DurableLedger, EventLog and the code

An event is identified with its hash, and the hash with the sequence of payloads
up to it (`eventHash` covers payload and previous hash only; SHA-256 is taken as
injective). A payload is `json` (comes back from the row as it was) or `void`
(holds an undefined property: hashed, not stored). On `sqlite` a flush is one
segment; on `postgres` the batch becomes a *flight* that lands or bounces later,
in any order, possibly after the process that sent it is dead. The primary key
rejects a batch whose `seq` is taken. The Postgres driver (`SqlDriver`) is an
interface in this repository; the model assumes only that a transaction is
atomic.

`EventLog` promises: the log grows, persist makes all of it stable, a crash cuts
it back to what is stable. It is what `Record` and `durable` of `DagExecutor`
assume, and it binds while the store is *sound*: SQLite, no refused transaction,
payloads JSON can keep. The refinement mapping takes the process's log when it is
up and the rows otherwise.

### PlanDag and the code

`Visit`, `Meet` and `Return` are the calls and returns of `visit()`; `colour` is
its map and `path` its stack of calls. The order of the nodes, and of the
dependencies of one node, is a choice of the model, so that every order of the
lists is covered. `Layer` is one iteration of `topologicalLayers`.

### ImmuneGate, ImmuneRuntime and the code

The gate is pure: `Evaluate` goes through the rules in the order of its early
returns. A text is reduced to its source and to whether a pattern matches it, and
a pair of hashes to whether they differ. `Isolate` is `evaluateAndApply` of a
decision that isolates, `Refuse` of one that restricts; the other decisions
change nothing. Every call is synchronous and so is one step. A call that throws
keeps what it had assigned before: `apply()` quarantines first, so nothing; `kill()`
switches first, so the kill list. The early returns of the rules are nested
IF/ELSE here, in their order, which a proof can follow.

What the model shows of this code and no property demands, because no document
does: an entity that was flagged before it is quarantined keeps the normal
restrictions of the flag (`quarantine.ts:119`); one that has RECOVERED can never
be quarantined again, and `apply()` throws for it; `healthSnapshot` compares the
expected hashes with themselves (`runtime.ts:129-131`); a dependency whose drift is
not severe is allowed with `monitor` before safe mode is asked (`gate.ts:122-133`);
the trust state QUARANTINED is not among those that escalate (`detector.ts:184`).

### CircuitBreaker and the code

`allow()` is `Pass` or `Probe`; `calling` holds the callers that were let through and
have not reported. `RecordSuccess` and `RecordFailure` may come in any state of the
breaker. `failures` and `elapsed` stop at the values the code compares them with.
`allow()` never counts a half-open trial, so `maxHalfOpenTrials` limits nothing: the
model passes every caller, as the code does.

### LocalRunner, RunContract and the code

An action is a segment between two awaits of `run()`, except that the iterations
of its loop are actions; `turn` is the run that holds the thread meanwhile, so
that nothing comes between them.

| Code | Actions |
|---|---|
| start, `planWithMock` | `Start`, `Planned` |
| capability guard, policy | `Reject`, `Ask`, `Execute` |
| `onApprovalRequired` | `Approve`, `Disapprove` |
| quota, immune gate, `execute()` up to `canExecute` | `Proceed`, inside `Execute` and `Approve` |
| the rest of `execute()`, metering | `CanExecute`, `Act`, `Account` |
| verification | `Close`, `Check` |
| billing, `DurableLedger.flush` up to its await | `Bill` |
| the store's answer to the flush | `Flush`, `FlushFails` |
| any other await that rejects | `Throw` |
| `grant` with the effect deny; death of the process | `Deny`, `Crash` |

The events of concurrent runs are kept apart by run (no reducer looks at the
order between runs). `RunContract` has what a caller sees: steps proven, what was
said of the task, the end. The refinement mapping reads the first two from the
run's events and the third from its phase.

All runs share one `DurableLedger`. `taken[r]` says how many of `r`'s events have left
`pending` and `batch[r]` which events, of whatever run, `r`'s flush has handed to the
store: `Bill` empties `pending` before the store is asked
(`durable-ledger.ts:55-58`), `Flush` puts the batch into `saved`, and `FlushFails` loses
it and rejects the run. A flush that finds nothing pending resolves without the
store, also while its events are in another run's batch. A crash loses what is
pending and lets any of the batches on their way land. The store may be SQLite,
where an answer comes in the segment of its flush, or Postgres, where it comes
later: the model has the second, of which the first is a special case.
`dropped` is a history variable: no action reads it.

Also in the code, and so in the model: a policy denial is recorded as
`ApprovalDenied` without an `ApprovalRequired`; the policy is asked with the scope
`*`, which a denial of a narrower scope does not match (`local-runner.ts:232`);
the meter lives in memory and starts at zero after a crash.

### Identity, ModelGateway and the code

An entity is its place in its list. A check that fails throws before anything
changes, and is not a step. `authenticate` reads the expiry of the session and not
the token's, and a token may be issued on an expired session
(`identity-service.ts:144-166`): `IssueToken` and `Authenticates` do the same.

`ModelGateway` is one `invoke()`: a candidate is its place in the list of models; the
loop takes them in order of rank and, within a rank, of registration (`Precedes`:
the sort is stable), so what is left to try is a set whose `Foremost` comes next.
A requirement is a record of the limits it sets: one that is absent is no limit, and
one that is zero is a limit (`router.ts:47-51`).
The comment of the gateway says that failures are retried "in router order"
(`gateway.ts:29-31`). They are not: `ModelRouter.choose` adds rank, cost and latency up
(`router.ts:33-38`), while the gateway sorts `candidates()` by rank alone, so that with
no preferred provider the router chooses the cheaper model and the gateway first
asks the one registered first (in `services`, model `b` and model `a`). `GatewayOrder`
says nothing of the router's choice, and the disagreement is recorded here only.

`IdentityReplays` compares the events with the state: the events of a list, in their
order, are its entries (`Created` says which, `Ordinal` at which place).

### GithubE2E and the code

A client sends the twelve requests of its seven steps in order; an operation that
fails is a result like another, and the next step is taken all the same, without a
request where its input is missing. GitHub's side (`Accepts`, `Acts`) is external: a
branch that is there is not created again, a file that is there is not written
without its sha, a ref moves forward only, one pull request per branch. A request
that is lost may have been acted on. The history of a commit (`Ancestry`) is the
least set that is closed under parents.

### Worker, Console, Demo and the code

`jobs[n]` is where a `POST /run` stands in the worker, `answers[n]` what its `fetch()`
settles with. `Cut` breaks the connection, with the isolate or without it. The
console's `SubmitGoal` is `submitGoal` up to its await and `Settle` the rest; the
requests of the tasks panel are answered in any order, and `Deliver` sets what they
were asked for. A list is the set of the newest rows that fit a page: no view tells
two orders of the same rows apart. A run that was stored while its answer was lost is shown as
failed, and a second submission stores another; the answers of an earlier filter
are shown under the new one (`TasksPanel.tsx:44`).

`Demo` has the timers of `startDemo` and the tables it looks up; the console no
longer calls `startDemo`. Without a plan it reports completion at its first pump, and
names the model `routeTask` gives. With a plan the model is part of the plan's text
(`mock.ts:56, 89, 122, 152, 175`) and is never routed, although the header of the file
says "Plan (via a real ModelRouter)" (`mock.ts:3`): `report.model` is the plan's own
there, and no property compares it with the router's.

## 3. Runs

| Run | Instance | What it shows |
|---|---|---|
| `dag_recovery` | 5 nodes: an action and a probe at once, a routed branch behind both with a node after it, and a branch that reads a result without waiting for it; the probe's other branch lists the action too, which may be running when it is skipped; the probe is timed, retried once, and quarantined by a guard that does not stop it; cancel, 1 crash; `AnsweredSpec` | `DurableDeps`, `SkipClosed`, `CompletionOrder`, `NothingForgotten`, `VerdictAgrees`, `FinishedIsDurable`, `RetryBudget`, `UpstreamSettled`, `Settles` |
| `dag_undo` | 4 nodes, three with compensations, one approval node and one gated action; denial is retryable; guard stops and quarantines at 2 failures; the approver may throw; 1 crash | `TypeOK`, `OnlyApprovalRejects`, `UndoOrder` |
| `dag_share` | 3 nodes, two of one seat, every job of these delivered twice, a conditional in the same wave as its targets, timeouts; `FairSpec` | `SeatsMatch`, `RetryBudget`, `Settles`, `CompletionPersists` |
| `runner` | two runs at once: a trusted actor with three calls, the second behind an approval, and a suspicious one whose plan comes from the mock provider and whose caller brings the checks; a quota of 2 calls, a denial added meanwhile, flushes that are refused, 1 crash | `QuotaOvershoot`, `MeterAgrees`, `ReturnedSurvives`, `RequestsAllowed`, refinement `KeepsContract` |
| `services` | the parts that share no state, one at a time (below) | `ImmuneTypeOK`, `IsolationCounted`, `HealthTells`, `OnlyRecoveryLifts`, `MoreSignalsNeverAllow`, `BreakerCounts`, `BreakerProbes`, `PlanSound`, `TenantsApart`, `IdentityReplays`, `GatewayOrder`, `ConfirmedStays`, `VerdictSound`, `ShownIsSaved`, `GoalAnswered`, `DemoComplete`, `BootIsHistory`, `AckedKept`, refinement `EventLogHolds` |
| `dag_timeout_retry` | a timed-out action that is retried | violates `OneEffect` |
| `dag_reroute` | a crash between a conditional's verification and its completion | violates `BranchTaken` |
| `dag_double_undo` | two compensated failures in one run | violates `UndoneOnce` |
| `ledger_void` | an undefined property, flushed, then a restart | violates `Reboots` |
| `runner_flush` | one run's flush takes another's events with its own and is refused | violates `ReturnedIsSaved` |
| `runner_isolation` | an actor that is quarantined for its first step | violates `IsolatedStays` |
| `e2e_content` | two external runs on one branch | violates `ContentExpected` |

The seven violations are disagreements between the code and what its own
documents say; `PROJECT.json` quotes them under `findings`.

In `services` the initial state names the `part` that moves: `gate` (pure; every
request with up to three of 15 signals, two trust states, two capabilities, level
GREEN with safe mode or without it, and level RED), `immune`, `breaker`, `plan`, `identity`, `gateway`, `github`, `console`, `demo`, `ledger`.
The parts share no variable, so exploring them one at a time loses nothing; the
others keep their initial values. About 372,000 states in all; `runner` has about
1,431,000.

### The properties

* `DurableDeps`, `UpstreamSettled`: `completeNode` persists nothing, so a crash
  may lose a completion. It never loses one that somebody used, because a
  dependent's start is preceded by the wave's persist.
* `CompletionPersists`, `FinishedIsDurable`: what is completed reaches the disk,
  and what `run()` returned is what another process would hydrate.
* `SkipClosed`: skipping is closed under dependency in memory and after any crash.
* `CompletionOrder`, `UndoOrder`: `hydrate` rebuilds the completion order from
  first events, another order than the original; it still lists dependencies
  first, so that a sweep undoes dependents first.
* `NothingForgotten`, `VerdictAgrees`, `Settles`: no wake-up is lost; the two
  classifications of a finished run agree (unless it was cancelled: a run
  cancelled after its last node emits both verdicts); the run ends.
* `SeatsMatch`, `RetryBudget`: seats and attempts under duplicate delivery, and
  attempts across a restart too.
* `TypeOK` holds, among others, where a retried denial throws out of the `catch` block.
* `OnlyApprovalRejects`: of all the illegal transitions the handlers can meet,
  only an approver that throws makes `run()` reject.
* `BootIsHistory`, `AckedKept`: whatever happened to the batches, a ledger that
  boots is one some process held and has everything acknowledged; otherwise
  `hydrate` refuses it.
* `PlanSound`: the search refuses exactly the cyclic graphs in every order of its
  lists, the layering never meets its own error, and its layers are the longest
  paths. The reference is the definition of a cycle as a set of nodes.
* `MoreSignalsNeverAllow`: one more part of the observation never makes the gate
  milder, although its rules answer in order. Two exceptions are stated: the drift
  of a dependency answers before milder rules are asked, and a hit of the firewall
  replaces a configured level BLACK by the level of its own score (`gate.ts:117`).
* `IsolationCounted`, `HealthTells`, `OnlyRecoveryLifts`: records, kill list,
  counters and status agree through repeated incidents, calls that throw half
  way, recoveries and closings.
* `BreakerCounts`, `BreakerProbes`: late answers neither open the breaker early nor
  keep it shut for ever.
* `TenantsApart`, `IdentityReplays`: no sequence of calls leads a token across
  tenants; the events rebuild the lists.
* `GatewayOrder`: the gateway gives up only after every usable model, none of a less
  preferred provider before one of a more preferred, each once.
* `RequestsAllowed`: at the moment an action is asked for, the policy, the approval
  of that very step, the quota and the gate allow it, although all of these may
  have moved since they were first asked.
* `QuotaOvershoot`: the check before and the metering after an await let
  concurrent runs pass the limit together, by at most the other runs. A document
  says "BudgetQuota before every tool" (`docs/milestones/M2-REAL-EXTERNAL-EXECUTION.md:23`),
  which is so; it does not say that the quota is never passed.
* `MeterAgrees`, `ReturnedSurvives`: meter and projections tell the same usage but
  for the calls that were turned down; unless a batch is dropped, what arrives in
  the store of a run has no gap, whichever run's flush takes it, and what a caller was
  told is in it. `runner_flush` shows what a dropped batch does: a run whose events
  another run's flush took returns with these stored nowhere.
* `KeepsContract`: a task is said to be completed only after all its steps, whatever
  interleaves, throws and dies.
* `ConfirmedStays`, `VerdictSound`: a confirmed commit stays on the branch; a run
  that passed did open a pull request for work of its own.
* `ShownIsSaved`, `GoalAnswered`: the console shows as finished only what the table
  holds, and never stays busy.
* `DemoComplete`: the demo's last report is its whole plan, no earlier one is; without
  a plan, each report names a provider that the task prefers to all others.

### Bounds

All bounds are CONSTANTS. `MaxAttempts` 2 is the least that retries; `MaxCrashes`
1 (2 for the ledger in `services`, where a dead process's batch must outlive a second boot)
separates before and after, and every variable a crash resets is reset whatever
came before. Five nodes give a diamond behind a routed branch; `MaxJobs` 2 gives
two workers, and a third job to wait. Two deliveries are the least duplicate.
Three events and one refused transaction let a dead process's batch and its
successor's compete for one `seq`, with a row before them or a longer batch on either
side; the theorems of `LedgerProofs` are for every number. No symmetry is used: the nodes of a graph differ.

In `runner` two runs are the least that pass a quota of two calls together; the
plan of the second is long enough to be quarantined, refused by the guard and
turned down once more, with a call in between. In `services`: two entities and two incidents, a mild one
after a severe one; `MaxKills` 1; three callers, threshold 2, so that a third answer
is late; three nodes, all 4,096 dependency relations with an unknown id among
them; two organizations with a user each; four models of three providers of which
the gateway knows two; two GitHub clients on one branch and one lost request; two
jobs, two requests of the panel and a page of one row.

### Fairness

`RuntimeFairness`: the event loop runs every segment that is due, and every timer
fires; weak fairness per node, per delivery and for `drive()`. This is what
Node's run-to-completion loop with FIFO microtasks gives. Nothing is assumed of
approvers, handlers and compensations under `FairSpec`: `dag_share` has timeouts
on its handlers and needs no more. `AnsweredSpec` adds that they answer in the
end: `dag_recovery` needs it, since the code waits for ever for a handler
without `timeoutMs`. A worker that polls for a seat may find it taken each time
it looks; weak fairness does not promise it one, and the run ends all the same,
because the deliveries that can take the seat before it are finitely many.

`BreakerFairness`: time goes on, each call that was let through reports in the end
(an HTTP client has a timeout), and somebody goes on asking. `ConsoleFairness`: the
awaits of the worker settle, and the browser settles a `fetch()` whose connection
is broken; nothing is assumed of the user.

Deadlock is checked in the DAG runs (`Stopped` is the intended end). It is
switched off elsewhere: a runner whose runs have ended stops, and so do the parts of
`services`, the ledger once its bounds are used up.

## 4. Proofs

| Module | Theorem | For every |
|---|---|---|
| `DagExecutorProofs` | `TypeCorrect`, `DurableDepsHold`, `Inductive` (`IInv`) | finite set of nodes, dependency relation (acyclic or not), policy, limit, number of workers, deliveries and crashes |
| `DagSafetyProofs` | `SafetyInductive` (`SInv`), `SkipClosedHolds`, `CompletionOrderHolds`, `NothingForgottenHolds`, `OnlyApprovalRejectsHolds`, `SeatsMatchHolds`, `RetryBudgetHolds`, `UpstreamSettledHolds`, `UndoOrderHolds` | as above |
| | `VerdictAgreesHolds` | as above, acyclic |
| | `FinishedIsDurableHolds` | as above, where no node that asks for an approval retries a denial |
| `LedgerProofs` | `LedgerInductive` (`LInv`), `LedgerTypes`, `BootRecalls`, `BootForgetsNothing`, `LedgerKeepsPromise` (the refinement of `EventLog`) | number of events, refused transactions and crashes, both stores |
| `RunnerProofs` | `QuotaBounded`, `RequestsHold`, `RunnerKeepsContract` (the refinement of `RunContract`), `MeterAgreesHolds`, `ReturnedSurvivesHolds` | finite set of runs, plans, grants, budget of tool calls, configuration of the gate |
| `ImmuneProofs` | `ImmuneTypes`, `IsolationsCounted`, `HealthRemembers`, `RecoveryLifts` | set of entities, requests, configurations and bounds |
| | `MoreSignalsHolds` | request and configuration of the gate |
| `IdentityProofs` | `TenantsStayApart`, `IdentityReplaysHolds` | finite set of roles, bounds on the lists |
| `ServiceProofs` | `PlansAreSound` | set of nodes, dependency relation, order of the search |
| | `GithubInductive` (`GInv`), `ConfirmedStaysHolds`, `VerdictSoundHolds` | set of clients, number of losses |
| | `ShownIsSavedHolds` | number of jobs and of requests of the panel, size of a page |
| | `BreakerCountsHold` | set of callers, threshold, cooldown, limit of trials |
| | `GatewayOrderHolds` | list of models, requirements, providers the gateway knows |

A theorem states the property of a run for every value of the constants; its name
is under `theorems` in `PROJECT.json`, with the property.

### Assumptions

The named ASSUMEs of the modules, which TLC evaluates in the runs, and nothing
else. Most give the constants their types (`GraphAssumption`, `PolicyAssumption`,
`QueueAssumption`, `BreakerAssumption`, `LedgerAssumption`, `RunnerAssumption`,
`PlansAssumption`: a plan is an array, `ImmuneAssumption`, `GatewayAssumption`,
`IdentityAssumption`: the roles are finitely many, `GateAssumption`: a configuration has
the fields of `ImmuneGateConfig`, and what is absent is none of the words for what was
found). `GithubAssumption` and
`ConsoleAssumption` say that a value that stands for nobody or for nothing is not
also a client, a job or a verdict. `AcyclicAssumption` is what `validateGraph`
establishes before `run` does anything; only `VerdictAgreesHolds` uses it, since in
a cyclic graph the nodes of the cycle would wait for ever.

`FinishedIsDurableHolds` has a hypothesis of its own, `DenialsEnd`: a node that asks
for an approval does not list `denied` among the errors it retries. Without it the
property is false, as TLC shows: a denial sets the node to FAILED without an event,
the `catch` block then meets an illegal transition and throws before it emits the
failure, and what is hydrated says RUNNING. The documents claim nothing of this
combination and the run of the property, `dag_recovery`, does not have it, so it is
recorded here.

### The arguments

*The executor, first part.* Neither property is inductive. `TypeOK` needs to know
that a node in `backoff` is RETRYING, that an `announced` one is RUNNING, and so on:
`StatusFits` fixes the status by the position of `exec`. `AttemptLeft` keeps a retry
below the bound; `Held` and `Settled` say what a delivery that awaits, or a settled
promise, implies; `WorkersFree` that no worker is busy between waves. `DurableDeps`
needs the chain *completed in memory → completed in the ledger* (`DoneLogged`),
*ready → dependencies completed* (`ReadyDeps`), *queued → ready* (`QueuedReady`),
*completed in the ledger → its dependencies too* (`Grounded`, for the emitted and
for the persisted log, the second being what a crash leaves), and *begun → said
so durably* (`Announced`). Every handler changes one node and has one of a few
shapes, so a lemma per handler shows it is a `Segment(n)` and `SegmentPreserves`
shows once that a segment keeps `IInv`; the scheduler's own actions (`Enqueue`,
`Admit`, `Complete`, `Leave`, `Restart`) have their lemmas. The proof depends on the
code it is about: without the persist in `Enqueue`, for instance, `DrivePreserves`
cannot be proved, and TLC finds the lost completion.

*The executor, second part.* `SInv` adds to `IInv` what the ledger says of each
status (`LedgerMirrors`: all but a denial and the wait for an approval), how skips
and cancellations follow the dependencies in memory, in the ledger and on disk
(`Layered`), that a planned node has a dependency to wait for (`PlannedWaits`), that
first events and completions are lists with dependencies first (`Sequenced`,
`Completions`), what a sweep has left (`SweepCompleted`), the calls a node has left
(`Budgeted`: a crash gives one back), that what a called node depends on is
completed in memory and on disk (`CalledDeps`), and that `finalize` has the last word
(`LastWord`). `SkipClosed` and `UpstreamSettled` follow from `Layered` and
`CalledDeps`; `CompletionOrder` from `Completions`, which a crash keeps because
`Sequenced` holds of the first events that `hydrate` orders by; `NothingForgotten`
from `PlannedWaits` and `LastWord`. `UndoOrder` rests on `Completions`: a sweep takes
the last completion first. For `VerdictAgrees` a planned node with no dependency
left open is found, in a graph without cycles, and one it waits for has failed. `SInv` was first
checked by TLC on the three passing instances.

*The ledger.* `LInv` says of the rows what does not depend on how batches arrived:
each row is a log that some process held (`Held`), no two have the same `seq`
(`Numbered`), what was acknowledged is among them (`Answered`), and what is pending
is the tail of the log (`PendingIsTail`). A chain that verifies is then the list of
the prefixes of its last row (`ChainIsOneLog`), by the least place where it is not:
sets of natural numbers have a least element, which replaces an induction. The
refinement needs `Kept`: on a sound store nothing is in flight and the rows are the
log without what is pending.

*The runner.* `QuotaInv` adds the types of the meter and of the phases.
`SegmentKind` classifies the steps of one run once: those that leave the meter and
the set of runs under way alone, those that start a call for which the meter had
room, and those that meter a call that ends; `Bounded` shows that each of the three
keeps the bound, and a crash sets both to zero. `RequestsAllowed` is about one step:
the proof goes from the step that makes a request back through the checks in front
of it. For the refinement, `ContractInv` ties what a run recorded to its phase
(`StoryOK`), and every step is shown to tell the contract nothing, to prove one
step, to end the run or to stutter.

*The runner's ledger.* `MeterAgrees` and `ReturnedSurvives` speak of folds over the
events of all runs. `FoldCounts` shows once that a fold counts the events it names, and
`LedgerCounts` that laying the runs end to end leaves the number of events of each type
as it was, so that `ProjectedUsage` has sizes of sets in place of the folds. `MeterTold`
is then inductive: a step of one run adds to the meter what its events add to the
set, a call that has ended and is not metered yet apart. For `ReturnedSurvives`,
`SavedOK` has of each run that its events are well told (ended at most once, no grant
without a request), and that a run which is billed, flushes or returned has the event
of its end. `StoreOK` has what arrives of them: while no batch is dropped it is exactly
what the flushes have taken (`Level`), or a part from the start of a run that has
ended for good (`Sealed`: a crash takes the rest), and all of a run whose flush has
begun. A part from the start of a tale is well told too (`StoredTale`); the runs that
returned are then laid into the events of the store (`NoLarger`).

*The immune runtime.* `IsolationCounted` is inductive with the types of the records
and of the counters, because a record that was isolated cannot be quarantined
again. `HealthTells` needs `LevelKept`: the level of the runtime is at least that of
each incident it ever recorded.

*The gate.* There is no step to follow: `MoreSignalsHolds` is about two evaluations.
`Covers(a, b)` relates the detections `a` with less seen to `b` with more: the weights do
not fall, a hit of the firewall stays one, a new one comes with a weight of at least
70, the drifts are the same. It goes through concatenation (`CoversJoin`), so it is
shown for each of the thirteen checks of `detect()` and then for all. `TotalJoins` says
that the sum of the weights, a recursion over the list, adds up. The number 70 is the
point: a new hit answers at least RED, which is as high as the rules behind the
firewall get below level BLACK. With a lighter `tool_poisoning` in the table of weights
`PlainRise` fails.

*The breaker.* `BreakerCounts` is inductive with the ranges of the counters
(`BreakerTypeOK`); `MinOfTwo` of `Induction` says what the clamp of the count returns.

*Identity.* `TenantsApart` speaks of tokens; it needs that every session has a member
of its organization behind it, that all indices point into their lists, and that
the lists only grow (`Added`, `Replaced`), so that what an entry points to stays.
`IdentityReplays` is inductive with `RolesKnown`: an entry and the event that tells of it
are added together, and the roles of a membership, a finite set, are told one by one
in some order (`InSequence`).

*The model gateway.* `GatewayInv` has that every usable candidate is left or tried, that
the tried ones are in order, and that each precedes whatever is left. There always is
a foremost candidate (`ForemostIs`): the least place among those of the least rank.

*Plan graphs.* `PInv` is the invariant of a depth-first search: the path is a list of
calls, each to a dependency of the one before (`PathIsCalls`), what is visited is
free of cycles (`VisitedIsFree`), the verdict is right once it is given, and the
layers so far are tight (`LayersTight`: each node has a dependency in the layer
before). A cycle is a set of nodes each of which has a dependency in the set, so no
induction along paths is needed.

*GitHub.* `GInv` has, for each client, what its answered requests say of GitHub
(`ClientHolds`). Whatever another client does is `Forward`: commits are added, the
branch moves to a descendant, what is opened stays. `AncestryGrows` says that histories
only grow with the list of commits.

*Worker and console.* `ConsoleInv` follows the rows from the table to the screen:
every answer on its way, every list asked for and every list in the panel is of
rows the table has (`TableHolds`; the panel is there while a request is), and what
the workspace shows agrees with the agent (`GoalShown`). As the table only grows
(`TableGrows`), an answer that is late is still true.

### Only model-checked

* `DemoComplete`: the demo has no constants, and the run goes through every goal.
* `Settles`, `CompletionPersists`, `BreakerProbes`, `GoalAnswered`: liveness, and
  anything with `ENABLED`, which the prover does not handle.

Every other property of the passing runs is a theorem.

The induction theorems of the library take an operator as a parameter, which the
provers cannot instantiate. Where a definition recurs over 0..n, `Induction` has what
replaces them: a set of numbers has a least element, so what fails somewhere fails at
a least place (`Climb`), and a function that recurs exists (`Recursion`). RECURSIVE
operators are not used.

## 5. Not modelled

* `persist()` of the executor that rejects: it is awaited at twelve points which
  the model has inside larger segments; the store it is modelled on, SQLite,
  commits at once. `DurableLedger` and `LocalRunner` have refused transactions.
* A second `run()` on one executor, two runs in one ledger, `onBeforeStart`, `verify`
  of a handler (never called), jitter and lengths of backoffs.
* `merkleRoot`, a digest the external run reports and nothing reads back.
* The `Projection` class of `kernel/events`, `taskStateMachine`,
  `compose()`, `TenantQuota`, the recovery engine: no code outside their tests uses
  what they compute.
* Provenance, ownership, stable hashing: hashing and comparison of records.
* Registries, the restricted shell, vault, billing, sandbox, `runtime/scheduler`:
  maps, look-ups and no-ops that finish in one call. The runner's billing
  adapter is an await that may reject.
* The api server: one shared `LocalRunner` behind a route; its concurrency is that
  of `LocalRunner`.
* The console's layout, texts and views without state; the worker's headers and
  health page.
* The ledger events of incidents and of the meter's records, which repeat state the
  model has.

## 6. Plan

1. *Abstract specification of a workflow run* (each node planned, begun, done,
   undone, given up), `DagExecutor` shown to implement it by TLC, and by proof from
   `SInv`.
2. `persist()` that rejects, with the handler called again after it succeeded.
