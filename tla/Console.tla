------------------------------ MODULE Console -------------------------------
(***************************************************************************)
(* The web console (apps/console/src): App.tsx with its one goal at a time,*)
(* the views it shows, and the tasks panel, whose requests outlive the     *)
(* filter they were made for and whose answers may come in any order.      *)
(***************************************************************************)
EXTENDS Worker

CONSTANT MaxAsks \* bound: requests of one mounting of the tasks panel

\* Null is no number and no verdict.
ASSUME ConsoleAssumption == Null \notin Nat \cup Verdicts

VARIABLES
  view,
  said,    \* messages by role
  waiting, \* busy: the job submitGoal awaits, or Null
  shown,   \* run: Null or [state, run, verdict], its backend fields Null until known
  agent,   \* agentState: [state, run]
  panel,   \* TasksPanel while it is mounted, or Null
  asks     \* its requests: [task, reply], the reply Null until D1 is read

appVars == <<view, said, waiting, shown, agent>>
panelVars == <<panel, asks>>
consoleVars == <<workerVars, appVars, panelVars>>

Views == {"home", "workspace", "chat", "tasks"} \* the others keep nothing, as "home" does
Tasks == Jobs

ConsoleInit ==
  /\ WorkerInit
  /\ view = "home" /\ said = [user |-> 0, assistant |-> 0] /\ waiting = Null
  /\ shown = Null /\ agent = [state |-> "idle", run |-> Null]
  /\ panel = Null /\ asks = << >>

\* runTask, listTasks, listRuns and getRun read an answer in the same order;
\* "complete" tells whether a 200 carries the fields asked for.
RequestOutcome(reply, complete) ==
  CASE reply.status = 0 -> "network"
    [] reply.status = 520 -> "invalid_response"
    [] reply.status = 503 -> "infrastructure_unavailable"
    [] reply.status \in {400, 500} -> "api_rejected"
    [] OTHER -> IF complete THEN "ok" ELSE "invalid_response"

TransitionAgentState(event) ==
  CASE event.type = "run.started" -> [state |-> "running", run |-> Null]
    [] event.type = "run.completed" ->
         [state |-> IF event.verdict = "PASSED" THEN "completed" ELSE "failed",
          run |-> event.run]
    [] event.type = "run.failed" -> [state |-> "failed", run |-> Null]

-----------------------------------------------------------------------------
(* Moving between the views                                                *)

FreshPanel == [tasks |-> Null, active |-> Null, runs |-> Null, error |-> Null]

\* Leaving the tasks unmounts the panel: what is still to be answered is dropped.
Turn(v) ==
  /\ view' = v
  /\ IF v = view THEN UNCHANGED panelVars
     ELSE /\ panel' = IF v = "tasks" THEN FreshPanel ELSE Null
          /\ asks' = IF v = "tasks" THEN <<[task |-> Null, reply |-> Null]>> ELSE << >>

Navigate ==
  /\ \E v \in Views : v # view /\ Turn(v)
  /\ UNCHANGED <<workerVars, said, waiting, shown, agent>>

-----------------------------------------------------------------------------
(* The App                                                                 *)

\* submitGoal up to its await, for a goal that is not blank; "planning" is set
\* and replaced before anything is rendered.
SubmitGoal(n) ==
  /\ view = "chat" /\ waiting = Null
  /\ jobs[n] = "none" /\ \A m \in 1 .. n - 1 : jobs[m] # "none"
  /\ said' = [said EXCEPT !.user = @ + 1]
  /\ Turn("workspace")
  /\ waiting' = n
  /\ agent' = TransitionAgentState([type |-> "run.started"])
  /\ shown' = [state |-> "running", run |-> Null, verdict |-> Null]
  /\ jobs' = [jobs EXCEPT ![n] = "sent"]
  /\ UNCHANGED <<configured, rows, answers>>

Completed(n) ==
  /\ RequestOutcome(answers[n], TRUE) = "ok"
  /\ LET outcome == answers[n].body
     IN /\ agent' = TransitionAgentState([type |-> "run.completed", run |-> outcome.run,
                                          verdict |-> outcome.verdict])
        /\ shown' = [state |-> IF outcome.verdict = "PASSED" THEN "completed" ELSE "failed",
                     run |-> outcome.run, verdict |-> outcome.verdict]

Failed(n) ==
  /\ RequestOutcome(answers[n], TRUE) # "ok"
  /\ agent' = TransitionAgentState([type |-> "run.failed"])
  /\ shown' = [shown EXCEPT !.state = "failed"]

\* A variant that sets busy back in the try block alone.
SettleOnSuccess(n) ==
  /\ waiting = n /\ answers[n] # Null /\ agent.state = "running"
  /\ \/ Completed(n) /\ waiting' = Null
     \/ Failed(n) /\ UNCHANGED waiting
  /\ said' = [said EXCEPT !.assistant = @ + 1]
  /\ UNCHANGED <<workerVars, view, panelVars>>

\* submitGoal after its await: then, catch, and finally.
Settle(n) ==
  /\ waiting = n /\ answers[n] # Null
  /\ Completed(n) \/ Failed(n)
  /\ said' = [said EXCEPT !.assistant = @ + 1]
  /\ waiting' = Null
  /\ UNCHANGED <<workerVars, view, panelVars>>

-----------------------------------------------------------------------------
(* The tasks panel                                                         *)

\* The form is there once the tasks are, and until an error replaces it; what
\* was shown goes at once, and an empty filter (Null) asks nothing.
Filter(task) ==
  /\ panel # Null /\ Len(asks) < MaxAsks
  /\ panel.tasks # Null /\ panel.error = Null
  /\ panel' = [panel EXCEPT !.active = task, !.runs = Null]
  /\ asks' = IF task = Null THEN asks ELSE Append(asks, [task |-> task, reply |-> Null])
  /\ UNCHANGED <<workerVars, appVars>>

Serve(k) ==
  /\ asks[k].reply = Null
  /\ \E reply \in Lists(asks[k].task) \cup {Lost} : asks' = [asks EXCEPT ![k].reply = reply]
  /\ UNCHANGED <<workerVars, appVars, panel>>

\* An answer sets what it was asked for, whatever the filter is by now.
Deliver(k) ==
  /\ asks[k].reply # Null
  /\ LET outcome == RequestOutcome(asks[k].reply, TRUE)
     IN panel' = IF outcome # "ok" THEN [panel EXCEPT !.error = outcome]
                 ELSE IF asks[k].task = Null THEN [panel EXCEPT !.tasks = asks[k].reply.body]
                 ELSE [panel EXCEPT !.runs = asks[k].reply.body]
  /\ asks' = RemoveAt(asks, k)
  /\ UNCHANGED <<workerVars, appVars>>

ConsoleNext ==
  \/ WorkerNext /\ UNCHANGED <<appVars, panelVars>>
  \/ Navigate
  \/ \E n \in Jobs : SubmitGoal(n) \/ Settle(n)
  \/ \E task \in Tasks \cup {Null} : Filter(task)
  \/ \E k \in DOMAIN asks : Serve(k) \/ Deliver(k)

ConsoleSpec == ConsoleInit /\ [][ConsoleNext]_consoleVars

\* The worker's awaits settle and the browser reports a broken connection.
ConsoleFairness ==
  /\ \A n \in Jobs : WF_consoleVars(Works(n) /\ UNCHANGED <<appVars, panelVars>>)
  /\ \A n \in Jobs : WF_consoleVars(Settle(n))

-----------------------------------------------------------------------------
(* What the user sees                                                      *)

\* AgentWorkspace: the badge and the facts; the plan, the steps and the files
\* are not in the answer of /run and are shown as unavailable.
ExecutionFacts == [agent |-> agent.state, run |-> shown.run, verdict |-> shown.verdict]
WorkspaceShows == [badge |-> shown.state, facts |-> ExecutionFacts]

\* Chat: suggestions while there are no messages, then these and who is at work.
ChatShows == [suggests |-> said.user + said.assistant = 0, working |-> waiting # Null]

\* TasksPanel: an error alone, else the runs of the filter, else the tasks.
PanelShows ==
  IF panel.error # Null \/ panel.tasks = Null THEN {}
  ELSE IF panel.active = Null THEN panel.tasks
  ELSE IF panel.runs = Null THEN {} ELSE panel.runs

\* A finished run is shown with its id only if the table holds it with that
\* verdict, the badge and the agent agree on it, and whatever the panel lists is
\* in the table: no answer overtakes saveRun (index.ts:71-73, App.tsx:87-104).
ShownIsSaved ==
  /\ view = "workspace" /\ shown # Null =>
       LET w == WorkspaceShows
       IN /\ w.facts.run # Null =>
               [run |-> w.facts.run, verdict |-> w.facts.verdict] \in ToSet(rows)
          /\ w.badge = w.facts.agent
          /\ w.badge = "completed" <=> w.facts.verdict = "PASSED"
          /\ ChatShows.working <=> w.badge = "running"
  /\ panel # Null => PanelShows \subseteq ToSet(rows)

\* The console does not stay busy: whatever becomes of the request, of the
\* isolate and of the connection, the goal gets its reply and the chat takes
\* another one (App.tsx:59-145).
GoalAnswered == ChatShows.working ~> said.assistant = said.user /\ ~ChatShows.working
=============================================================================
