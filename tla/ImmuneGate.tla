----------------------------- MODULE ImmuneGate -----------------------------
(***************************************************************************)
(* The immune gate (kernel/immune/src): detect, score, firewall and decide *)
(* are pure, so they are operators of a request and a configuration.       *)
(*                                                                         *)
(* A text is reduced to whether one of the patterns matches it, a pair of  *)
(* hashes to whether they differ; an optional part that is not there is    *)
(* None.  A detection is its kind and weight, in the order detect() pushes.*)
(* The confidence, the details and evidenceRequired, which nothing reads,  *)
(* are left out.                                                           *)
(***************************************************************************)
EXTENDS Naturals, Sequences, FiniteSetsExt, SequencesExt

CONSTANT None \* what is absent

-----------------------------------------------------------------------------
(* types.ts                                                                *)

ImmunityOrder == [GREEN |-> 0, YELLOW |-> 1, ORANGE |-> 2, RED |-> 3, BLACK |-> 4]
ImmunityLevels == DOMAIN ImmunityOrder

SignalWeights ==
  [normal_tool_call |-> 5, unusual_tool_sequence |-> 30, permission_escalation |-> 60,
   credential_misuse |-> 80, secret_access_anomaly |-> 85,
   ledger_tampering_attempt |-> 95, kernel_integrity_failure |-> 100,
   artifact_tampering |-> 85, prompt_injection |-> 80, tool_poisoning |-> 75,
   memory_poisoning |-> 70, dependency_anomaly |-> 75, resource_exhaustion |-> 50,
   repeated_failure |-> 45, unexpected_transition |-> 55, runaway_loop |-> 90,
   usage_velocity |-> 90, blast_radius_exceeded |-> 70]

TrustStates == {"UNKNOWN", "SUSPICIOUS", "VERIFIED", "TRUSTED", "QUARANTINED", "REVOKED"}

InputSources == {"system", "user", "tool", "repository", "web", "memory", "model"}
UntrustedSources == InputSources \ {"system", "user"}

DependencyDrift == {"new_transitive", "version_drift", "install_script",
                    "known_vulnerability", "license_change", "maintainer_change",
                    "network_dependency"}

\* Observation with nothing observed; a request adds principal and capability.
NoObservation ==
  [input |-> None, toolResult |-> None, memoryWrite |-> None, artifact |-> None,
   integrity |-> None, dependency |-> None, runStats |-> None, usage |-> None,
   repeatedFailures |-> 0, toolSequence |-> << >>, unexpectedTransition |-> None]

\* blastRadiusScore of the numbers of things an action may damage.
BlastRadiusScore(items) == Min({100, 10 * items})

DefaultCascade == [maxAgentDepth |-> 5, maxChildren |-> 10, maxRetry |-> 3,
                   blastRadiusApprovalThreshold |-> 1200,
                   maxToolCallsPerSecond |-> 10, maxModelCallsPerSecond |-> 2]

-----------------------------------------------------------------------------
(* detector.ts                                                             *)

PrivilegedCapabilities == {"secret.read", "shell.execute", "git.push", "db.query",
                           "deployment.create", "deployment.delete"}

Detection(kind) == [kind |-> kind, weight |-> SignalWeights[kind], severe |-> FALSE]

When(condition, kind) == IF condition THEN <<Detection(kind)>> ELSE << >>

\* detectPromptInjection: only content that is not the system's or the user's.
Injects(text) == text # None /\ text.source \in UntrustedSources /\ text.matches

Escalates(principal, capability) ==
  /\ capability \in PrivilegedCapabilities
  /\ principal.trust \in {"UNKNOWN", "SUSPICIOUS", "REVOKED"}

Poisons(write) ==
  write # None /\ (write.source \in UntrustedSources \/ write.matches)

\* checkDependency: the weights are its own, not those of the table.
DependencyWeight(drift) ==
  CASE drift = "known_vulnerability" -> 95
    [] drift = "install_script" -> 90
    [] drift \in {"license_change", "maintainer_change"} -> 60
    [] OTHER -> 40

CheckDependency(drift) ==
  IF drift = None THEN << >>
  ELSE <<[kind |-> "dependency_anomaly", weight |-> DependencyWeight(drift),
          severe |-> drift \in {"known_vulnerability", "install_script"}]>>

\* checkRunaway: one detection for each limit that is passed.
CheckRunaway(stats) ==
  IF stats = None THEN << >>
  ELSE When(stats.depth > DefaultCascade.maxAgentDepth, "runaway_loop")
       \o When(stats.children > DefaultCascade.maxChildren, "runaway_loop")
       \o When(stats.retries > DefaultCascade.maxRetry, "runaway_loop")

\* checkUsageVelocity: calls per second over a window of at least a second.
TooFast(usage) ==
  /\ usage # None
  /\ LET window == Max({1000, usage.windowMs})
     IN \/ 1000 * usage.toolCalls > DefaultCascade.maxToolCallsPerSecond * window
        \/ 1000 * usage.modelCalls > DefaultCascade.maxModelCallsPerSecond * window

\* checkToolSequence, for sequences of at least four: a privileged action
\* after three others, or one action four times out of five.
Unusual(sequence) ==
  /\ Len(sequence) >= 4
  /\ LET privileged == {i \in DOMAIN sequence : sequence[i] \in PrivilegedCapabilities}
         same == {i \in DOMAIN sequence : sequence[i] = sequence[1]}
     IN \/ privileged # {} /\ Min(privileged) > 3
        \/ 5 * Cardinality(same) >= 4 * Len(sequence)

Detect(request) ==
  LET obs == request.observation IN
  When(Injects(obs.input), "prompt_injection")
  \o When(Injects(obs.toolResult), "tool_poisoning")
  \o When(Poisons(obs.memoryWrite), "memory_poisoning")
  \o When(Escalates(request.principal, request.capability), "permission_escalation")
  \o When(/\ request.capability = "secret.read"
          /\ request.principal.trust \notin {"TRUSTED", "VERIFIED"}, "secret_access_anomaly")
  \o When(obs.artifact = "differs", "artifact_tampering")
  \o When(obs.integrity = "differs", "kernel_integrity_failure")
  \o CheckDependency(obs.dependency)
  \o CheckRunaway(obs.runStats)
  \o When(TooFast(obs.usage), "usage_velocity")
  \o When(obs.repeatedFailures >= 3, "repeated_failure")
  \o When(Unusual(obs.toolSequence), "unusual_tool_sequence")
  \o When(obs.unexpectedTransition = "illegal", "unexpected_transition")

-----------------------------------------------------------------------------
(* risk-engine.ts, policy-firewall.ts, blast-radius.ts                     *)

TotalWeight(detections) ==
  LET sum[k \in 0..Len(detections)] ==
        IF k = 0 THEN 0 ELSE sum[k - 1] + detections[k].weight
  IN sum[Len(detections)]

\* A variant that averages.
RiskScoreMean(detections) ==
  IF detections = << >> THEN 0 ELSE TotalWeight(detections) \div Len(detections)

\* RiskEngine.evaluate: the clamped sum of the weights.
RiskScore(detections) == Min({100, TotalWeight(detections)})

SeverityOf(score) ==
  IF score >= 90 THEN "CRITICAL"
  ELSE IF score >= 70 THEN "HIGH"
  ELSE IF score >= 40 THEN "MEDIUM"
  ELSE "LOW"

FirewallActions ==
  [prompt_injection |-> "block", memory_poisoning |-> "block",
   tool_poisoning |-> "quarantine", permission_escalation |-> "block",
   secret_access_anomaly |-> "block", ledger_tampering_attempt |-> "block",
   kernel_integrity_failure |-> "kill"]

\* PolicyFirewall.evaluate: the first detection with an entry decides.
Firewall(detections) ==
  LET hits == {i \in DOMAIN detections : detections[i].kind \in DOMAIN FirewallActions}
  IN IF hits = {} THEN None ELSE FirewallActions[detections[Min(hits)].kind]

RequiresApproval(score, blastRadius) ==
  /\ BlastRadiusScore(blastRadius) > 0
  /\ score * BlastRadiusScore(blastRadius) >= DefaultCascade.blastRadiusApprovalThreshold

-----------------------------------------------------------------------------
(* gate.ts                                                                 *)

LevelForScore(score) ==
  IF score >= 90 THEN "BLACK"
  ELSE IF score >= 70 THEN "RED"
  ELSE IF score >= 40 THEN "ORANGE"
  ELSE IF score > 0 THEN "YELLOW"
  ELSE "GREEN"

MaxLevel(a, b) == IF ImmunityOrder[a] >= ImmunityOrder[b] THEN a ELSE b

WriteOrRisky == {"fs.write", "git.push", "shell.execute", "secret.read",
                 "deployment.create", "deployment.delete", "network.http",
                 "db.query", "repo.write"}

\* ImmuneGate.level: the level of the configuration alone.
GateLevel(config) ==
  IF config.emergencyLock THEN "BLACK"
  ELSE IF config.safeMode THEN "ORANGE"
  ELSE config.level

Decision(allowed, action, level, score, approval) ==
  [allowed |-> allowed, action |-> action, level |-> level, score |-> score,
   severity |-> SeverityOf(score), approvalRequired |-> approval]

\* The action of each level, once nothing else has decided.
LevelAction == [GREEN |-> "allow", YELLOW |-> "monitor", ORANGE |-> "restrict",
                RED |-> "quarantine", BLACK |-> "kill"]

\* ImmuneGate.evaluate, in the order of its early returns.
Evaluate(config, request) ==
  LET detections == Detect(request)
      score == RiskScore(detections)
      action == Firewall(detections)
      drifts == {i \in DOMAIN detections : detections[i].kind = "dependency_anomaly"}
      level == MaxLevel(config.level, LevelForScore(score))
  IN IF config.emergencyLock THEN Decision(FALSE, "block", "BLACK", 0, FALSE)
     ELSE IF action # None THEN Decision(FALSE, action, LevelForScore(score), score, FALSE)
     ELSE IF drifts # {} /\ (\E i \in drifts : detections[i].severe)
          THEN Decision(FALSE, "block", "RED", score, FALSE)
     ELSE IF drifts # {} THEN Decision(TRUE, "monitor", "YELLOW", score, FALSE)
     ELSE IF config.safeMode /\ request.capability \in WriteOrRisky
          THEN Decision(FALSE, "restrict", "ORANGE", score, FALSE)
     ELSE Decision(level \in {"GREEN", "YELLOW"}, LevelAction[level], level, score,
                   level # "GREEN" /\ RequiresApproval(score, request.blastRadius))
=============================================================================
