------------------------------- MODULE Policy -------------------------------
(***************************************************************************)
(* What stands before an action: the policy engine                         *)
(* (kernel/policy/src/policy-engine.ts), the budget quota                  *)
(* (kernel/economics/src/index.ts), the names of the schema registry       *)
(* (kernel/registry, kernel/contracts/src/naming.ts) and the verdict on    *)
(* what was done (plugins/verification).  All of it is pure.               *)
(***************************************************************************)
EXTENDS Naturals, Sequences, SequencesExt, TLC

\* A scope is a sequence of words; a pattern is one, with or without a star
\* behind it: '*' and '**' are a star behind nothing.
Pattern(words, star) == [words |-> words, star |-> star]
AnyScope == Pattern(<< >>, TRUE)

ScopeMatches(pattern, scope) ==
  IF pattern.star THEN IsPrefix(pattern.words, scope) ELSE pattern.words = scope

\* The default scope of evaluate() is the text '*', which no words are.
AllScopes == <<"*">>

DefaultApprovalPolicy ==
  [c \in {"git.push", "shell.execute", "secret.read", "deployment.create",
          "deployment.delete", "db.query"} |-> "approval"]
  @@ [c \in {"repo.read", "repo.write", "git.commit", "network.http",
             "browser.navigate", "fs.read", "fs.write"} |-> "auto"]

\* PolicyEngine.evaluate: a denial wins, no grant denies, and a capability the
\* approval policy does not name needs an approval.
EvaluatePolicy(grants, approvalPolicy, principal, capability, scope) ==
  LET relevant == {g \in grants : /\ g.principal = principal /\ g.capability = capability
                                  /\ ScopeMatches(g.scope, scope)}
      allowed == /\ \E g \in relevant : g.effect = "allow"
                 /\ \A g \in relevant : g.effect # "deny"
  IN [allowed |-> allowed,
      approvalRequired |-> /\ allowed
                           /\ \/ capability \notin DOMAIN approvalPolicy
                              \/ approvalPolicy[capability] = "approval"]

-----------------------------------------------------------------------------
EmptyUsage == [r \in {"execution_seconds", "tool_calls", "model_calls",
                      "network_requests", "tokens", "runs"} |-> 0]

FreeBudget == [execution_seconds |-> 300, tool_calls |-> 100, model_calls |-> 20,
               network_requests |-> 20, runs |-> 10]

WithinBudgetInclusive(budget, usage, resource) == \* a variant that looks back
  resource \in DOMAIN budget => usage[resource] <= budget[resource]

\* BudgetQuota.allows: a resource without a limit is not metered.
WithinBudget(budget, usage, resource) ==
  resource \in DOMAIN budget => usage[resource] + 1 <= budget[resource]

-----------------------------------------------------------------------------
ReservedNamespaces == {"admin", "kernel", "root", "system", "super", "everything", "anything",
                       "global", "privileged", "sudo", "aok", "internal"}

\* validateName of a name as the sequence of its segments; malformed stands for
\* a segment that the pattern refuses, the empty one included.
ValidName(segments) ==
  /\ Len(segments) >= 2
  /\ "malformed" \notin ToSet(segments)
  /\ segments[1] \notin ReservedNamespaces

\* SchemaRegistry.registerCapability throws, and registers nothing, for a name
\* that is not valid or is there already.
Registered(registry, name, segments) ==
  IF ValidName(segments) THEN registry \cup {name} ELSE registry

-----------------------------------------------------------------------------
\* A variant in which one proof outweighs a failure.
VerdictOfSome(checks) ==
  IF \E i \in DOMAIN checks : checks[i].verdict = "PASSED" /\ checks[i].evidence
  THEN "PASSED" ELSE "FAILED"

\* deriveVerdict, and the engine's refusal of a success without evidence.
VerdictOf(checks) ==
  IF \E i \in DOMAIN checks : checks[i].verdict = "FAILED" THEN "FAILED"
  ELSE IF /\ checks # << >> /\ \A i \in DOMAIN checks : checks[i].verdict = "PASSED"
          /\ \E i \in DOMAIN checks : checks[i].evidence
       THEN "PASSED" ELSE "UNKNOWN"
=============================================================================
