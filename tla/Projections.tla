----------------------------- MODULE Projections -----------------------------
(***************************************************************************)
(* The read models that are folded from the runner's events                *)
(* (storage/store/src/projections.ts).                                     *)
(***************************************************************************)
EXTENDS Naturals, Sequences

\* What each reducer counts, and under which name.
RunReducer ==
  [RunCreated |-> "runs", TaskCompleted |-> "completed", TaskFailed |-> "failed",
   ImmuneBlocked |-> "blocked"]
ApprovalReducer ==
  [ApprovalRequired |-> "required", ApprovalGranted |-> "granted", ApprovalDenied |-> "denied"]
UsageReducer ==
  [RunCreated |-> "runs", PlanGenerated |-> "modelCalls",
   Succeeded |-> "toolCalls", Unsuccessful |-> "toolCalls"] \* execution.completed, by status

\* fold: one step of a reducer adds one to the count its event belongs to.
Reduce(reducer, state, event) ==
  IF event.type \in DOMAIN reducer THEN [state EXCEPT ![reducer[event.type]] = @ + 1] ELSE state

Zero(reducer) == [name \in {reducer[t] : t \in DOMAIN reducer} |-> 0]

Fold(reducer, events) ==
  LET state[k \in 0..Len(events)] ==
        IF k = 0 THEN Zero(reducer) ELSE Reduce(reducer, state[k - 1], events[k])
  IN state[Len(events)]

ProjectSystem(events) ==
  [runs |-> Fold(RunReducer, events), approvals |-> Fold(ApprovalReducer, events),
   usage |-> Fold(UsageReducer, events)]
=============================================================================
