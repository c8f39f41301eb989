--------------------------- MODULE MCDagExecutor ---------------------------
(***************************************************************************)
(* Small plan graphs for TLC.  A .cfg picks the graph by substituting the  *)
(* constants of DagExecutor by the definitions below.                      *)
(***************************************************************************)
EXTENDS DagExecutor

CONSTANTS a, b, c, d, e

None == [n \in Nodes |-> {}]
NoTargets == [n \in Nodes |-> << >>]
NoComp == [n \in Nodes |-> "none"]
NoLimit == [k \in {} |-> 0]
Once == [n \in Nodes |-> 1]

\* Route: a and a probe b at once; b's verdict sends the run to c and then e,
\* behind both, or to d, which reads a's result without waiting for a.  b's
\* second branch lists a too: one wave with b, a may be running when b skips it.
RouteDeps ==
  [n \in Nodes |-> IF n = c THEN {a, b} ELSE IF n = d THEN {b}
                   ELSE IF n = e THEN {a, c} ELSE {}]
RouteKind == [n \in Nodes |-> IF n = b THEN "PROBE" ELSE "ACTION"]
RouteNeeds == [n \in Nodes |-> IF n \in {c, d} THEN {a} ELSE {}]
RouteThen == [n \in Nodes |-> IF n = b THEN <<c>> ELSE << >>]
RouteElse == [n \in Nodes |-> IF n = b THEN <<d, a>> ELSE << >>]
RouteRetryable == [n \in Nodes |-> IF n = b THEN {"failure", "timeout"} ELSE {}]

\* Undo: a and b at once, c after a; d is an approval.  a, b and c compensate.
UndoDeps == [n \in Nodes |-> IF n = c THEN {a} ELSE {}]
UndoKind == [n \in Nodes |-> IF n = d THEN "APPROVAL" ELSE "ACTION"]
UndoComp == [n \in Nodes |-> IF n = d THEN "irreversible" ELSE "action"]
UndoRetryable == [n \in Nodes |-> IF n = d THEN {"denied"} ELSE {"failure"}]

\* Share: a and b share a tool of one seat, c decides over a's result, in the
\* same wave, whether b is skipped: too early, in time or too late.
ShareKind == [n \in Nodes |-> IF n = c THEN "CHECK" ELSE "ACTION"]
ShareNeeds == [n \in Nodes |-> IF n = c THEN {a} ELSE {}]
ShareThen == [n \in Nodes |-> IF n = c THEN <<a>> ELSE << >>]
ShareElse == [n \in Nodes |-> IF n = c THEN <<b>> ELSE << >>]
ShareKeys == [n \in Nodes |-> IF n \in {a, b} THEN {"tool"} ELSE {}]
ShareLimit == [k \in {"tool"} |-> 1]
ShareDeliveries == [n \in Nodes |-> IF n = c THEN 1 ELSE 2]
ShareRetryable == [n \in Nodes |-> IF n = b THEN {"failure", "timeout"} ELSE {}]

\* Retry: a alone opens a pull request, with a timeout and a retry policy.
RetryAll == [n \in Nodes |-> {"failure", "timeout"}]
AllActions == [n \in Nodes |-> "ACTION"]
RetryDeps == [n \in Nodes |-> IF n = b THEN {a} ELSE {}]
=============================================================================
