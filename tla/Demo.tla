-------------------------------- MODULE Demo --------------------------------
(***************************************************************************)
(* The demo engine of the console (apps/console/src/mock.ts) and the       *)
(* routing it shows (apps/console/src/kernel.ts): a goal is matched against*)
(* ready plans by the words in it, and timers report the plan in steps.    *)
(***************************************************************************)
EXTENDS Naturals, Sequences, FiniteSetsExt

VARIABLES
  goal,   \* the words of the goal that the tables look for
  timers, \* setTimeout calls that are to fire: "pump" or "stop"
  step,   \* pumps that fired
  report  \* the last onProgress: [state, activities, nodes, files, chat, model],
          \* with the model its first activity names

demoVars == <<goal, timers, step, report>>

Words == {"signup", "etl", "api", "build", "search", "image", "summarize"}

-----------------------------------------------------------------------------
(* Routing (kernel.ts): costs in cents of a dollar                         *)

Model(provider, context, tools, structured, cost, latency) ==
  [provider |-> provider, contextWindow |-> context, supportsTools |-> tools,
   supportsStructuredOutput |-> structured, cost |-> cost, latency |-> latency]

ProviderSeed ==
  <<Model("gemini", 1000, TRUE, TRUE, 0, 400),
    Model("openrouter", 128, TRUE, TRUE, 0, 600),
    Model("huggingface", 32, FALSE, FALSE, 0, 900),
    Model("anthropic", 200, TRUE, TRUE, 3, 300),
    Model("ollama", 32, TRUE, FALSE, 0, 1200)>>

TaskProviderPriority ==
  [planning |-> <<"gemini", "openrouter", "ollama">>,
   coding |-> <<"gemini", "openrouter", "anthropic", "ollama">>,
   research |-> <<"openrouter", "gemini">>,
   summarization |-> <<"gemini", "huggingface">>,
   vision |-> <<"gemini", "anthropic">>]

Router ==
  INSTANCE ModelGateway WITH Models <- ProviderSeed, Requirements <- {}, Registered <- {},
    requirement <- 0, tried <- << >>, left <- {}, answer <- "pending"

RouteTask(type) ==
  Router!Choose([needsTools |-> type \in {"coding", "planning"},
                 needsStructuredOutput |-> FALSE, preferred |-> TaskProviderPriority[type]])

\* The first word of a list that the goal has, or the last resort.
FirstHit(list, words, default) ==
  LET hits == {i \in DOMAIN list : list[i][1] \in words}
  IN IF hits = {} THEN default ELSE list[Min(hits)][2]

GuessType(words) ==
  FirstHit(<< <<"signup", "coding">>, <<"etl", "coding">>, <<"api", "coding">>,
              <<"build", "coding">>, <<"search", "research">>, <<"image", "vision">>,
              <<"summarize", "summarization">> >>, words, "planning")

-----------------------------------------------------------------------------
(* The plans: how many activities, nodes and files each one has, and the   *)
(* task type and provider it names, which are constants of the plan        *)

ModelName(type, provider) == [type |-> type, provider |-> provider]
Unnamed == ModelName("none", "none")

Plan(activities, nodes, files, model) ==
  [activities |-> activities, nodes |-> nodes, files |-> files, model |-> model]
NoPlan == Plan(0, 0, 0, Unnamed)

PlanTable ==
  << <<"signup", Plan(10, 5, 3, ModelName("planning", "gemini"))>>,
     <<"etl", Plan(8, 6, 4, ModelName("coding", "gemini"))>>,
     <<"api", Plan(7, 5, 3, ModelName("coding", "openrouter"))>>,
     <<"search", Plan(4, 3, 1, ModelName("research", "openrouter"))>>,
     <<"image", Plan(2, 1, 0, ModelName("vision", "gemini"))>> >>

MatchPlan(words) == FirstHit(PlanTable, words, NoPlan)

-----------------------------------------------------------------------------
(* startDemo                                                               *)

Total(plan) == IF plan = NoPlan THEN 3 ELSE plan.activities

\* setTimeout(pump, 700 * i) for i = 1..total, then one that clears them all.
TimersShort(plan) == [i \in 1 .. Total(plan) |-> IF i < Total(plan) THEN "pump" ELSE "stop"]
Timers(plan) == [i \in 1 .. Total(plan) + 1 |-> IF i <= Total(plan) THEN "pump" ELSE "stop"]

Report(state, activities, nodes, files, chat, model) ==
  [state |-> state, activities |-> activities, nodes |-> nodes, files |-> files, chat |-> chat,
   model |-> model]

\* routeLine: what a run without a plan names.
Routed == ModelName(GuessType(goal), RouteTask(GuessType(goal)).provider)

DemoInit ==
  /\ goal \in SUBSET Words
  /\ timers = Timers(MatchPlan(goal))
  /\ step = 0
  /\ report = Report("running", 0, 0, 0, "preview", Unnamed)

Ceiling(a, b) == (a + b - 1) \div b

\* A plan shows one activity more each time, and its nodes in proportion;
\* without a plan every pump reports the same finished run, whose two nodes are
\* done from the second one on.
Pump ==
  /\ timers # << >> /\ Head(timers) = "pump"
  /\ timers' = Tail(timers) /\ step' = step + 1
  /\ LET plan == MatchPlan(goal)
         done == step' >= Total(plan)
     IN report' =
          IF plan = NoPlan
          THEN Report("completed", 4, IF step' > 1 THEN 2 ELSE 0, 1, "reply", Routed)
          ELSE Report(IF done THEN "completed" ELSE "running", step',
                      Ceiling(step' * plan.nodes, Total(plan)),
                      IF done THEN plan.files
                      ELSE Min({plan.files, IF step' > 3 THEN step' - 3 ELSE 0}),
                      IF done THEN "reply" ELSE "preview", plan.model)
  /\ UNCHANGED goal

\* The last timer clears the others, which have all fired by then.
Stop ==
  /\ timers # << >> /\ Head(timers) = "stop"
  /\ timers' = << >>
  /\ UNCHANGED <<goal, step, report>>

DemoNext == Pump \/ Stop

\* When the last timer is done the run was reported complete, with every
\* activity, node and file of its plan, and a plan that is still going never
\* is.  Without a plan every report, from the first on, names a provider that
\* the task prefers to all others (mock.ts:237-288, kernel.ts:156-178).  What a
\* plan names is its own: mock.ts does not route it.
DemoComplete ==
  LET plan == MatchPlan(goal)
      whole == Report("completed", plan.activities, plan.nodes, plan.files, "reply", plan.model)
  IN /\ timers = << >> => report.state = "completed"
     /\ plan # NoPlan => (report.state = "completed" <=> report = whole)
     /\ plan = NoPlan /\ step > 0 =>
          report.model.provider = TaskProviderPriority[report.model.type][1]
=============================================================================
