---------------------------- MODULE LocalRunner ----------------------------
(***************************************************************************)
(* The local runner (apps/cli/src/local-runner.ts): concurrent calls of    *)
(* run() on one runner, which share its policy, its meter and quota, its   *)
(* immune runtime and its ledger.  Every step of a plan goes through the   *)
(* guard, the policy and its approval, the quota, the immune gate and      *)
(* execute() (kernel/execution/src/execute.ts).                            *)
(*                                                                         *)
(* One action is what happens between two awaits, except that the loop's   *)
(* iterations are actions of their own; "turn" is the run that holds the   *)
(* thread meanwhile.  Results are what verification reads of them.  The    *)
(* ledger's UsageRecorded events, which repeat the meter, and the immune   *)
(* runtime's are left out, and the others are kept apart by run: an event  *)
(* is the pair of its run and its place there.  The ledger is a            *)
(* DurableLedger; a store that answers at once is one of the orders.       *)
(***************************************************************************)
EXTENDS ImmuneRuntime, Policy, Projections

CONSTANTS
  Runs,
  Job,          \* run -> [actor, trust, planned, plan, ownChecks]: planned is
                \* FALSE for a plan the mock provider is asked for
  InitialGrants,
  MayDeny,      \* the denials an operator may add with grant()
  Guarded,      \* the registry's names, or None without a capabilityGuard
  Budget,
  Checks        \* what onVerify may resolve to: sequences of checks

ASSUME RunnerAssumption ==
  /\ IsFiniteSet(Runs) /\ Runs # {}
  /\ "tool_calls" \in DOMAIN Budget /\ Budget.tool_calls \in Nat

\* A plan is an array.
ASSUME PlansAssumption == \A r \in Runs : Len(Job[r].plan) \in Nat

VARIABLES
  grants,  \* PolicyEngine.grants
  usage,   \* meter.total
  phase,   \* what each run awaits, or "loop" and "closing" while it has the turn
  turn,
  results, \* run -> [verdict, evidence] of each step
  log,     \* run -> the events it appended in its process: [type, step]
  taken,   \* run -> how many of them have left DurableLedger.pending
  batch,   \* run -> the events its flush() handed to the store
  saved,   \* the events in the store
  dropped, \* a batch was refused, or died with its process
  verdict, \* run -> of its verification, or None
  crashed  \* the process died once

storeVars == <<taken, batch, saved, dropped>>
runnerVars == <<grants, usage, phase, turn, results, log, storeVars, verdict, crashed>>

-----------------------------------------------------------------------------
RunnerInit ==
  /\ grants = InitialGrants /\ usage = EmptyUsage
  /\ phase = [r \in Runs |-> "idle"] /\ turn = None
  /\ results = [r \in Runs |-> << >>]
  /\ log = [r \in Runs |-> << >>] /\ taken = [r \in Runs |-> 0]
  /\ batch = [r \in Runs |-> {}] /\ saved = {} /\ dropped = FALSE
  /\ verdict = [r \in Runs |-> None] /\ crashed = FALSE

MayRun(r) == turn \in {None, r}

\* The step the loop is at: each iteration pushes one result.
StepOf(r) == Len(results[r]) + 1
ActionOf(r) == Job[r].plan[StepOf(r)]
MoreSteps(r) == StepOf(r) <= Len(Job[r].plan)

Events(r, types) == [i \in DOMAIN types |-> [type |-> types[i], step |-> StepOf(r)]]

\* The run appends events; it goes on if it stays in the loop or at its end,
\* and otherwise waits.
Go(r, next, types) ==
  /\ phase' = [phase EXCEPT ![r] = next]
  /\ turn' = IF next \in {"loop", "closing"} THEN r ELSE None
  /\ log' = [log EXCEPT ![r] = @ \o Events(r, types)]

Failure == [verdict |-> "FAILED", evidence |-> FALSE]
Push(r, result) == results' = [results EXCEPT ![r] = Append(@, result)]

Keep == UNCHANGED <<immuneVars, storeVars, crashed, grants>>

Start(r) ==
  /\ MayRun(r) /\ phase[r] = "idle"
  /\ usage' = [usage EXCEPT !.runs = @ + 1,
                            !.model_calls = @ + (IF Job[r].planned THEN 1 ELSE 0)]
  /\ IF Job[r].planned THEN Go(r, "loop", <<"RunCreated", "TaskCreated", "PlanGenerated">>)
     ELSE Go(r, "planning", <<"RunCreated", "TaskCreated">>)
  /\ UNCHANGED <<results, verdict>> /\ Keep

\* planWithMock resolves.
Planned(r) ==
  /\ MayRun(r) /\ phase[r] = "planning"
  /\ usage' = [usage EXCEPT !.model_calls = @ + 1]
  /\ Go(r, "loop", <<"PlanGenerated">>)
  /\ UNCHANGED <<results, verdict>> /\ Keep

-----------------------------------------------------------------------------
(* One step, up to its first await                                         *)

InLoop(r) == MayRun(r) /\ phase[r] = "loop" /\ MoreSteps(r)

Known(r) == Guarded # None => ActionOf(r) \in Guarded
Answer(r) ==
  EvaluatePolicy(grants, DefaultApprovalPolicy, Job[r].actor, ActionOf(r), AllScopes)

\* The guard throws, or the policy does not allow: the step fails.
Reject(r) ==
  /\ InLoop(r) /\ (Known(r) => ~Answer(r).allowed)
  /\ Go(r, "loop", <<IF Known(r) THEN "ApprovalDenied" ELSE "CapabilityRejected">>)
  /\ Push(r, Failure)
  /\ UNCHANGED <<usage, verdict>> /\ Keep

Ask(r) ==
  /\ InLoop(r) /\ Known(r) /\ Answer(r).approvalRequired
  /\ Go(r, "approving", <<"ApprovalRequired">>)
  /\ UNCHANGED <<usage, results, verdict>> /\ Keep

\* principalFor: what the gate is asked about the step.
GateRequest(r) ==
  [principal |-> [id |-> Job[r].actor, type |-> "agent", trust |-> Job[r].trust],
   capability |-> ActionOf(r), observation |-> NoObservation, blastRadius |-> 0]

\* A variant of execute() that relies on the answer the runner had.
BeginTrusting(r, before) ==
  Go(r, "requested", before \o <<"Requested">>) /\ UNCHANGED results

\* execute() asks the policy again: meanwhile the approval may have been awaited.
Begin(r, before) ==
  IF Answer(r).allowed
  THEN Go(r, "requested", before \o <<"Requested">>) /\ UNCHANGED results
  ELSE Go(r, "acted", before \o <<"Denied">>) /\ Push(r, Failure)

\* The quota, the immune gate and the start of execute().
Proceed(r, before) ==
  LET decision == Evaluate(config, GateRequest(r)) IN
  /\ UNCHANGED <<usage, verdict, storeVars, crashed, grants>>
  /\ \/ /\ ~WithinBudget(Budget, usage, "tool_calls") \* break
        /\ Go(r, "closing", before \o <<"QuotaExceeded">>)
        /\ Push(r, Failure) /\ UNCHANGED immuneVars
     \/ /\ WithinBudget(Budget, usage, "tool_calls")
        /\ \/ /\ ~decision.allowed
              /\ IF Isolates(decision) THEN Isolate(GateRequest(r)) ELSE UNCHANGED immuneVars
              /\ Go(r, "loop", before \o <<"ImmuneBlocked">>)
              /\ Push(r, Failure)
           \/ /\ Isolates(decision) /\ ~CanQuarantine(Job[r].actor) \* apply() throws
              /\ Go(r, "rejected", before)
              /\ UNCHANGED <<results, immuneVars>>
           \/ /\ decision.allowed /\ UNCHANGED immuneVars
              /\ Begin(r, before)

Execute(r) ==
  /\ InLoop(r) /\ Known(r) /\ Answer(r).allowed /\ ~Answer(r).approvalRequired
  /\ Proceed(r, << >>)

\* onApprovalRequired resolves, or rejects; without one the answer is no.
Approve(r) ==
  /\ MayRun(r) /\ phase[r] = "approving"
  /\ Proceed(r, <<"ApprovalGranted">>)

Disapprove(r) ==
  /\ MayRun(r) /\ phase[r] = "approving"
  /\ Go(r, "loop", <<"ApprovalDenied">>) /\ Push(r, Failure)
  /\ UNCHANGED <<usage, verdict>> /\ Keep

-----------------------------------------------------------------------------
(* The rest of execute()                                                   *)

\* canExecute() resolves: the executor is asked to act, or the step fails.
CanExecute(r) ==
  /\ MayRun(r) /\ phase[r] = "requested"
  /\ \/ Go(r, "acting", << >>) /\ UNCHANGED results
     \/ Go(r, "acted", <<"Rejected">>) /\ Push(r, Failure)
  /\ UNCHANGED <<usage, verdict>> /\ Keep

\* The executor settles.  The result is kept with the event that tells of it:
\* nobody reads it in between.
Act(r) ==
  /\ MayRun(r) /\ phase[r] = "acting"
  /\ \E result \in [verdict : {"PASSED"}, evidence : BOOLEAN] \cup {Failure} :
       /\ Push(r, result)
       /\ Go(r, "acted", <<IF result.verdict = "PASSED" THEN "Succeeded" ELSE "Unsuccessful">>)
  /\ UNCHANGED <<usage, verdict>> /\ Keep

\* A variant that meters the calls that did something.
AccountSuccess(r) ==
  /\ MayRun(r) /\ phase[r] = "acted"
  /\ usage' = IF Last(results[r]).verdict = "PASSED" THEN [usage EXCEPT !.tool_calls = @ + 1]
              ELSE usage
  /\ Go(r, "loop", << >>)
  /\ UNCHANGED <<results, verdict>> /\ Keep

\* execute() returns, and the call is metered whatever came of it.
Account(r) ==
  /\ MayRun(r) /\ phase[r] = "acted"
  /\ usage' = [usage EXCEPT !.tool_calls = @ + 1]
  /\ Go(r, "loop", << >>)
  /\ UNCHANGED <<results, verdict>> /\ Keep

\* An await of the run rejects: the handler of approvals, an executor that is
\* missing or throws, onVerify or the billing adapter.  Nothing catches it and
\* no event tells of it.
Throw(r) ==
  /\ MayRun(r)
  /\ phase[r] \in {"approving", "requested", "acting", "checking", "billing"}
  /\ Go(r, "rejected", << >>)
  /\ UNCHANGED <<usage, results, verdict>> /\ Keep

-----------------------------------------------------------------------------
(* After the loop                                                          *)

Conclude(r, checks) ==
  LET v == VerdictOf(checks) IN
  /\ verdict' = [verdict EXCEPT ![r] = v]
  /\ Go(r, "billing", <<"VerificationCompleted",
                        IF v = "PASSED" THEN "TaskCompleted" ELSE "TaskFailed">>)
  /\ UNCHANGED <<usage, results>> /\ Keep

\* The steps are through, or the quota broke the loop off.
Close(r) ==
  /\ MayRun(r)
  /\ phase[r] = "closing" \/ (phase[r] = "loop" /\ ~MoreSteps(r))
  /\ IF Job[r].ownChecks
     THEN Go(r, "checking", << >>) /\ UNCHANGED <<usage, results, verdict>> /\ Keep
     ELSE Conclude(r, results[r])

Check(r) ==
  /\ MayRun(r) /\ phase[r] = "checking"
  /\ \E checks \in Checks : Conclude(r, checks)

\* DurableLedger.pending, of all runs
Pending == UNION {{<<q, i>> : i \in (taken[q] + 1)..Len(log[q])} : q \in Runs}

\* The usage is reported and flush() begins: it empties pending before the
\* store is asked, and has nothing to wait for when there was nothing.
Bill(r) ==
  /\ MayRun(r) /\ phase[r] = "billing"
  /\ batch' = [batch EXCEPT ![r] = Pending]
  /\ taken' = [q \in Runs |-> Len(log[q])]
  /\ Go(r, "flushing", << >>)
  /\ UNCHANGED <<usage, results, verdict, immuneVars, saved, dropped, crashed, grants>>

\* A variant of flush() that empties pending once the store has answered.
FlushClears(r) ==
  /\ MayRun(r) /\ phase[r] = "flushing"
  /\ saved' = saved \cup batch[r] /\ batch' = [batch EXCEPT ![r] = {}]
  /\ taken' = [q \in Runs |-> Len(log[q])]
  /\ Go(r, "returned", << >>)
  /\ UNCHANGED <<usage, results, verdict, immuneVars, dropped, crashed, grants>>

\* flush() resolves, and run() returns.
Flush(r) ==
  /\ MayRun(r) /\ phase[r] = "flushing"
  /\ saved' = saved \cup batch[r] /\ batch' = [batch EXCEPT ![r] = {}]
  /\ Go(r, "returned", << >>)
  /\ UNCHANGED <<usage, results, verdict, immuneVars, taken, dropped, crashed, grants>>

\* The store refuses the batch: nothing has it any more, and run() rejects.
FlushFails(r) ==
  /\ MayRun(r) /\ phase[r] = "flushing" /\ batch[r] # {}
  /\ dropped' = TRUE /\ batch' = [batch EXCEPT ![r] = {}]
  /\ Go(r, "rejected", << >>)
  /\ UNCHANGED <<usage, results, verdict, immuneVars, taken, saved, crashed, grants>>

Segment(r) ==
  \/ Start(r) \/ Planned(r) \/ Reject(r) \/ Ask(r) \/ Execute(r) \/ Approve(r)
  \/ Disapprove(r) \/ CanExecute(r) \/ Act(r) \/ Account(r) \/ Throw(r) \/ Close(r)
  \/ Check(r) \/ Bill(r) \/ Flush(r) \/ FlushFails(r)

\* LocalRunner.grant with the effect deny, from outside the runs.
Deny(g) ==
  /\ turn = None /\ g \notin grants
  /\ grants' = grants \cup {g}
  /\ UNCHANGED <<usage, phase, turn, results, log, storeVars, verdict, crashed, immuneVars>>

\* The process dies: its runs and what is pending are lost, and of the batches
\* on their way some are committed.  The next process starts with an empty
\* meter and nothing in quarantine.
Crash ==
  /\ turn = None /\ ~crashed
  /\ \E r \in Runs : phase[r] # "idle"
  /\ crashed' = TRUE
  /\ phase' = [r \in Runs |-> IF phase[r] \in {"idle", "returned", "rejected"}
                              THEN phase[r] ELSE "lost"]
  /\ usage' = EmptyUsage /\ grants' = InitialGrants
  /\ records' = [id \in Entities |-> None] /\ killed' = {} /\ incidents' = << >>
  /\ immuneLevel' = config.level
  /\ counts' = [c \in DOMAIN counts |-> 0]
  /\ \E landed \in SUBSET {r \in Runs : batch[r] # {}} :
       /\ saved' = saved \cup UNION {batch[r] : r \in landed}
       /\ dropped' = (dropped \/ \E r \in Runs \ landed : batch[r] # {})
  /\ batch' = [r \in Runs |-> {}] /\ taken' = [r \in Runs |-> Len(log[r])]
  /\ UNCHANGED <<config, turn, results, log, verdict>>

RunnerNext == (\E r \in Runs : Segment(r)) \/ (\E g \in MayDeny : Deny(g)) \/ Crash

RunnerSpec == RunnerInit /\ ImmuneInit /\ [][RunnerNext]_<<runnerVars, immuneVars>>

-----------------------------------------------------------------------------
(* Properties                                                              *)

InExecute == {r \in Runs : phase[r] \in {"requested", "acting", "acted"}}

\* r asks an executor to act in this step.
Asks(r) == Len(log'[r]) > Len(log[r]) /\ Last(log'[r]).type = "Requested"

\* No action is asked for against what holds at that moment, however long the
\* approval was awaited and whatever other runs and operators did meanwhile:
\* the policy allows it, its own step was approved if it must be, the budget
\* has room and the gate allows it (local-runner.ts:219-294, execute.ts:25).
RequestsAllowed ==
  [][\A r \in Runs : Asks(r) =>
       /\ Answer(r).allowed
       /\ Answer(r).approvalRequired =>
            [type |-> "ApprovalGranted", step |-> StepOf(r)] \in ToSet(log'[r])
       /\ usage.tool_calls < Budget.tool_calls
       /\ Evaluate(config, GateRequest(r)).allowed]_<<runnerVars, immuneVars>>

\* The quota is checked before execute() and metered after it: the calls under
\* way may pass the limit together, but by no more than the runs there are
\* beside the one that was allowed last (local-runner.ts:252, 295).
QuotaOvershoot ==
  usage.tool_calls + Cardinality(InExecute) <= Budget.tool_calls + Cardinality(Runs) - 1

\* The ledger, one run after the other: no reducer looks at the order.
Ledger(events) ==
  LET order == SetToSeq(Runs)
      first[k \in 0..Len(order)] ==
        IF k = 0 THEN << >> ELSE first[k - 1] \o events[order[k]]
  IN first[Len(order)]

Counted(type) ==
  LET events == Ledger(log) IN Cardinality({i \in DOMAIN events : events[i].type = type})

\* The meter and the projection of the ledger tell the same usage: they differ
\* by the calls whose return is still to be metered and by those an executor
\* or the policy turned down, which the meter counts and the projection does
\* not (local-runner.ts:295, projections.ts:67-78).
MeterAgrees ==
  ~crashed =>
    LET projected == ProjectSystem(Ledger(log)).usage IN
    /\ usage.runs = projected.runs /\ usage.model_calls = projected.modelCalls
    /\ usage.tool_calls + Cardinality({r \in Runs : phase[r] = "acted"})
         = projected.toolCalls + Counted("Rejected") + Counted("Denied")

Answered(v) == {r \in Runs : phase[r] = "returned" /\ (verdict[r] = "PASSED") = v}

\* What is in the store once the batches on their way have arrived.
Arriving == saved \cup UNION {batch[r] : r \in Runs}
Kept(r) == {i \in DOMAIN log[r] : <<r, i>> \in Arriving}
Stored == [r \in Runs |-> SubSeq(log[r], 1, Cardinality(Kept(r)))]

\* What a caller was told survives, as long as no batch is dropped: whichever
\* run's flush takes an event, what arrives of a run has no gap, and the read
\* models rebuilt from it count every run that returned under the verdict it
\* returned, and no approval that was not asked for (local-runner.ts:318-331,
\* durable-ledger.ts:54-59).
ReturnedSurvives ==
  ~dropped =>
    LET rebuilt == ProjectSystem(Ledger(Stored)) IN
    /\ \A r \in Runs : Kept(r) = 1..Cardinality(Kept(r))
    /\ rebuilt.runs.completed >= Cardinality(Answered(TRUE))
    /\ rebuilt.runs.failed >= Cardinality(Answered(FALSE))
    /\ rebuilt.runs.completed + rebuilt.runs.failed <= rebuilt.runs.runs
    /\ rebuilt.approvals.granted <= rebuilt.approvals.required

\* The runs of this module are runs of the contract.
Succeeded(r) == {log[r][i].step : i \in {j \in DOMAIN log[r] : log[r][j].type = "Succeeded"}}
Said(r) ==
  IF \E i \in DOMAIN log[r] : log[r][i].type = "TaskCompleted" THEN "completed"
  ELSE IF \E i \in DOMAIN log[r] : log[r][i].type = "TaskFailed" THEN "failed"
  ELSE "nothing"

Contract == INSTANCE RunContract WITH
  OwnChecks <- {r \in Runs : Job[r].ownChecks},
  PlanLength <- [r \in Runs |-> Len(Job[r].plan)],
  said <- [r \in Runs |-> Said(r)],
  ended <- [r \in Runs |-> phase[r] \in {"returned", "rejected", "lost"}],
  proven <- [r \in Runs |-> Succeeded(r)]

\* The runner keeps its contract: a task is said to be completed only after
\* every step of its plan was executed with success, once, and before the
\* caller has its answer, in whatever order runs interleave, throw and die
\* (RULE 005 of local-runner.ts:299-322).
KeepsContract == Contract!ContractSpec

\* An entity in quarantine executes nothing new: "inside the quarantine ... new
\* processes = blocked" (docs/IMMUNE_SYSTEM_CONTRACT.md), which the runner never
\* asks about.
IsolatedStays ==
  [][\A r \in Runs : Asks(r) => ~IsQuarantined(Job[r].actor)]_<<runnerVars, immuneVars>>

\* A run that returned has its events in the store, once nothing is on its way:
\* "the runner ... commits the events automatically at the end of the run"
\* (ADR-0029-m3-event-store.md), also when another run's flush took them.
ReturnedIsSaved ==
  (\A q \in Runs : batch[q] = {}) =>
    \A r \in Runs : phase[r] = "returned" =>
      \A i \in DOMAIN log[r] : <<r, i>> \in saved
=============================================================================
