----------------------------- MODULE NodeMachine -----------------------------
(***************************************************************************)
(* The life of one workflow node (runtime/orchestrator/src/node-machine.ts)*)
(* over the kernel's table-driven StateMachine                             *)
(* (kernel/transition/src/state-machine.ts).  The table is the only source *)
(* of legality: an event with no entry throws IllegalTransitionError,      *)
(* which After returns as Illegal.                                         *)
(***************************************************************************)

NodeStatus == {"PLANNED", "READY", "RUNNING", "WAITING", "VERIFYING", "COMPLETED",
               "FAILED", "RETRYING", "COMPENSATING", "ROLLED_BACK", "QUARANTINED",
               "CANCELLED", "SKIPPED"}

NodeTable ==
  [PLANNED      |-> [PREPARE |-> "READY", CANCEL |-> "CANCELLED", SKIP |-> "SKIPPED"],
   READY        |-> [START |-> "RUNNING", CANCEL |-> "CANCELLED"],
   RUNNING      |-> [WAIT |-> "WAITING", VERIFY |-> "VERIFYING", FAIL |-> "FAILED",
                     CANCEL |-> "CANCELLED"],
   WAITING      |-> [APPROVE |-> "RUNNING", DENY |-> "FAILED", CANCEL |-> "CANCELLED"],
   VERIFYING    |-> [COMPLETE |-> "COMPLETED", FAIL |-> "FAILED"],
   FAILED       |-> [RETRY |-> "RETRYING", COMPENSATE |-> "COMPENSATING",
                     QUARANTINE |-> "QUARANTINED", CANCEL |-> "CANCELLED"],
   RETRYING     |-> [RESUME |-> "RUNNING"],
   COMPENSATING |-> [ROLLBACK |-> "ROLLED_BACK"],
   COMPLETED    |-> << >>,
   ROLLED_BACK  |-> << >>,
   QUARANTINED  |-> << >>,
   CANCELLED    |-> << >>,
   SKIPPED      |-> << >>]

Illegal == "ILLEGAL"

\* StateMachine.transition: the next state, or the throw.
After(s, event) == IF event \in DOMAIN NodeTable[s] THEN NodeTable[s][event] ELSE Illegal

\* isTerminal: the statuses hydrate() rebuilds as they are.
Terminal == {"COMPLETED", "FAILED", "ROLLED_BACK", "QUARANTINED", "CANCELLED", "SKIPPED"}

\* A status that one event of the table reaches from s.
Successors(s) == {NodeTable[s][e] : e \in DOMAIN NodeTable[s]}
=============================================================================
