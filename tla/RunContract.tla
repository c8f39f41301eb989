---------------------------- MODULE RunContract ----------------------------
(***************************************************************************)
(* What a local runner promises its callers, whatever runs beside a run: it*)
(* proves the steps of a plan one by one, says that the task is completed  *)
(* only when every step of the plan was executed with success (or when the *)
(* caller's own checks say so), says once how the task ended, and returns  *)
(* only after that.                                                        *)
(***************************************************************************)
EXTENDS Naturals

CONSTANTS
  Runs,
  OwnChecks, \* runs whose caller brings the checks
  PlanLength \* the steps of each run's plan

VARIABLES
  said,    \* "nothing", "completed" or "failed"
  ended,   \* the caller has its answer, or the run is gone
  proven   \* steps executed with success

contractVars == <<said, ended, proven>>

ContractInit ==
  /\ said = [r \in Runs |-> "nothing"]
  /\ ended = [r \in Runs |-> FALSE]
  /\ proven = [r \in Runs |-> {}]

Prove(r) ==
  /\ said[r] = "nothing" /\ ~ended[r]
  /\ \E i \in 1..PlanLength[r] \ proven[r] : proven' = [proven EXCEPT ![r] = @ \cup {i}]
  /\ UNCHANGED <<said, ended>>

Say(r, what) ==
  /\ said[r] = "nothing" /\ ~ended[r]
  /\ what = "completed" /\ r \notin OwnChecks => proven[r] = 1..PlanLength[r]
  /\ said' = [said EXCEPT ![r] = what]
  /\ UNCHANGED <<ended, proven>>

Return(r) ==
  /\ said[r] # "nothing" /\ ~ended[r]
  /\ ended' = [ended EXCEPT ![r] = TRUE]
  /\ UNCHANGED <<said, proven>>

\* The run throws, or its process dies with others.
Abort(S) ==
  /\ \A r \in S : ~ended[r]
  /\ ended' = [r \in Runs |-> ended[r] \/ r \in S]
  /\ UNCHANGED <<said, proven>>

ContractNext ==
  \/ \E r \in Runs : Prove(r) \/ Return(r) \/ \E what \in {"completed", "failed"} : Say(r, what)
  \/ \E S \in SUBSET Runs : Abort(S)

ContractSpec == ContractInit /\ [][ContractNext]_contractVars
=============================================================================
