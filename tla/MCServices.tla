------------------------------ MODULE MCServices ----------------------------
(***************************************************************************)
(* Instances for TLC of the components that share no state: one run        *)
(* explores each of them on its own.  The initial state names the part that*)
(* moves, and the variables of the others keep their initial values.       *)
(***************************************************************************)
EXTENDS ImmuneRuntime, GateProbe, CircuitBreaker, PlanDag, Identity, ModelGateway, GithubE2E,
        Console, Demo, DurableLedger

CONSTANT Parts \* the components to explore

VARIABLE part \* the component that moves

vars == <<part, probe, immuneVars, breakerVars, planVars, identityVars, gatewayVars, githubVars,
          consoleVars, demoVars, ledgerVars>>

-----------------------------------------------------------------------------
(* The gate: requests with up to three signals                             *)

Signals ==
  {<<"input", [source |-> "web", matches |-> TRUE]>>,
   <<"input", [source |-> "user", matches |-> TRUE]>>,
   <<"toolResult", [source |-> "tool", matches |-> TRUE]>>,
   <<"memoryWrite", [source |-> "user", matches |-> TRUE]>>,
   <<"artifact", "differs">>, <<"integrity", "differs">>,
   <<"dependency", "known_vulnerability">>, <<"dependency", "version_drift">>,
   <<"runStats", [depth |-> 5, children |-> 11, retries |-> 3]>>,
   <<"usage", [toolCalls |-> 5, modelCalls |-> 3, windowMs |-> 500]>>,
   <<"usage", [toolCalls |-> 20, modelCalls |-> 4, windowMs |-> 2000]>>,
   <<"repeatedFailures", 3>>,
   <<"toolSequence", <<"repo.read", "repo.read", "fs.read", "secret.read">> >>,
   <<"toolSequence", <<"repo.read", "repo.read", "repo.read", "repo.read", "fs.read">> >>,
   <<"unexpectedTransition", "illegal">>}

SignalSets ==
  {S \in UNION {kSubset(k, Signals) : k \in 0..3} : \A a, b \in S : a[1] = b[1] => a = b}

Observed(S) ==
  [f \in DOMAIN NoObservation |->
     IF \E s \in S : s[1] = f THEN (CHOOSE s \in S : s[1] = f)[2] ELSE NoObservation[f]]

Request(trust, capability, S) ==
  [principal |-> [id |-> "e1", type |-> "agent", trust |-> trust],
   capability |-> capability, observation |-> Observed(S), blastRadius |-> 8]

GateConfig(level, safeMode, lock) ==
  [level |-> level, safeMode |-> safeMode, emergencyLock |-> lock]

GateRequests ==
  {Request(trust, capability, S) :
     trust \in {"VERIFIED", "UNKNOWN"}, capability \in {"fs.read", "secret.read"}, S \in SignalSets}

GateSettings ==
  {GateConfig("GREEN", FALSE, FALSE), GateConfig("GREEN", TRUE, FALSE),
   GateConfig("RED", FALSE, FALSE)}

NoProbe ==
  [request |-> Request("VERIFIED", "fs.read", {}), config |-> GateConfig("GREEN", FALSE, FALSE)]

-----------------------------------------------------------------------------
(* The immune runtime: requests of every outcome, by two entities          *)

ImmuneEntities == {"e1", "e2"}

ImmuneRequest(id, type, trust, capability, S) ==
  [Request(trust, capability, S) EXCEPT !.principal.id = id, !.principal.type = type]

ImmuneRequests ==
  {ImmuneRequest("e1", "agent", "VERIFIED", "repo.read", {<<"artifact", "differs">>}),
   ImmuneRequest("e1", "agent", "SUSPICIOUS", "secret.read", {}),
   ImmuneRequest("e1", "user", "VERIFIED", "fs.write", {}),
   ImmuneRequest("e2", "tool", "VERIFIED", "repo.read", {<<"integrity", "differs">>}),
   ImmuneRequest("e2", "runner", "VERIFIED", "repo.read",
                 {<<"runStats", [depth |-> 6, children |-> 0, retries |-> 0]>>}),
   ImmuneRequest("e2", "tool", "VERIFIED", "repo.read", {<<"repeatedFailures", 3>>})}

GateConfigs == {GateConfig("GREEN", FALSE, FALSE), GateConfig("YELLOW", TRUE, FALSE)}

-----------------------------------------------------------------------------
(* The other parts                                                         *)

GatewayModels ==
  <<[provider |-> "a", contextWindow |-> 8, supportsTools |-> TRUE,
     supportsStructuredOutput |-> FALSE, cost |-> 3, latency |-> 100],
    [provider |-> "b", contextWindow |-> 4, supportsTools |-> TRUE,
     supportsStructuredOutput |-> TRUE, cost |-> 0, latency |-> 300],
    [provider |-> "c", contextWindow |-> 8, supportsTools |-> FALSE,
     supportsStructuredOutput |-> TRUE, cost |-> 2, latency |-> 200],
    [provider |-> "a", contextWindow |-> 16, supportsTools |-> TRUE,
     supportsStructuredOutput |-> TRUE, cost |-> 9, latency |-> 50]>>

LimitValues == [minContext |-> {8}, maxCost |-> {0, 2}, maxLatency |-> {200}]
Limits ==
  UNION {{l \in [F -> UNION {LimitValues[f] : f \in F}] : \A f \in F : l[f] \in LimitValues[f]} :
           F \in SUBSET DOMAIN LimitValues}
GatewayRequirements ==
  {limits @@ needs :
     limits \in Limits,
     needs \in [needsTools : BOOLEAN, needsStructuredOutput : BOOLEAN,
                preferred : {<< >>, <<"c">>, <<"b", "a">>, <<"c", "b", "a">>}]}

GatewayProviders == {"a", "b"}

IdentityBounds ==
  [organizations |-> 2, users |-> 2, memberships |-> 2, sessions |-> 2, tokens |-> 1]

\* Parts whose initial states are many start only one of them when they rest.
GateRests == config = (CHOOSE c \in Configs : TRUE) /\ probe = NoProbe /\ ImmuneInit
PlanRests == planDeps = [n \in PlanNodes |-> {}] /\ PlanInit
GatewayRests == requirement = (CHOOSE r \in Requirements : TRUE) /\ GatewayInit
ConsoleRests == configured = TRUE /\ ConsoleInit
DemoRests == goal = {} /\ DemoInit
LedgerRests == store = (CHOOSE s \in Stores : TRUE) /\ LedgerInit

Init ==
  /\ part \in Parts
  /\ BreakerInit /\ IdentityInit /\ GithubInit
  /\ CASE part = "gate" -> GateInit /\ config = GateConfig("GREEN", FALSE, FALSE) /\ ImmuneInit
       [] part = "immune" -> probe = NoProbe /\ ImmuneInit
       [] OTHER -> GateRests
  /\ IF part = "plan" THEN PlanInit ELSE PlanRests
  /\ IF part = "gateway" THEN GatewayInit ELSE GatewayRests
  /\ IF part = "console" THEN ConsoleInit ELSE ConsoleRests
  /\ IF part = "demo" THEN DemoInit ELSE DemoRests
  /\ IF part = "ledger" THEN LedgerInit ELSE LedgerRests

Next ==
  /\ UNCHANGED <<part, probe>>
  /\ part = "immune" \/ UNCHANGED immuneVars
  /\ part = "breaker" \/ UNCHANGED breakerVars
  /\ part = "plan" \/ UNCHANGED planVars
  /\ part = "identity" \/ UNCHANGED identityVars
  /\ part = "gateway" \/ UNCHANGED gatewayVars
  /\ part = "github" \/ UNCHANGED githubVars
  /\ part = "console" \/ UNCHANGED consoleVars
  /\ part = "demo" \/ UNCHANGED demoVars
  /\ part = "ledger" \/ UNCHANGED ledgerVars
  /\ \/ part = "immune" /\ ImmuneNext
     \/ part = "breaker" /\ BreakerNext
     \/ part = "plan" /\ PlanNext
     \/ part = "identity" /\ IdentityNext
     \/ part = "gateway" /\ GatewayNext
     \/ part = "github" /\ GithubNext
     \/ part = "console" /\ ConsoleNext
     \/ part = "demo" /\ DemoNext
     \/ part = "ledger" /\ LedgerNext

Spec == Init /\ [][Next]_vars /\ BreakerFairness /\ ConsoleFairness
=============================================================================
