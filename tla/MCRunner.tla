------------------------------ MODULE MCRunner ------------------------------
(***************************************************************************)
(* Instances of the local runner for TLC.                                  *)
(***************************************************************************)
EXTENDS LocalRunner

Allow(actor, capability, scope) ==
  [principal |-> actor, capability |-> capability, scope |-> scope, effect |-> "allow"]
Refusal(actor, capability) ==
  [principal |-> actor, capability |-> capability, scope |-> AnyScope, effect |-> "deny"]

\* A run of a trusted actor, and two of a suspicious one; the first of these is
\* planned by the mock provider and checked by its caller.
Jobs(r) ==
  CASE r = "r1" -> [actor |-> "coder", trust |-> "VERIFIED", planned |-> TRUE,
                    plan |-> <<"repo.read", "git.push", "repo.read">>, ownChecks |-> FALSE]
    [] r = "r2" -> [actor |-> "guest", trust |-> "SUSPICIOUS", planned |-> FALSE,
                    plan |-> <<"secret.read", "admin.all", "repo.read", "secret.read">>,
                    ownChecks |-> TRUE]
    [] OTHER -> [actor |-> "guest", trust |-> "SUSPICIOUS", planned |-> TRUE,
                 plan |-> <<"secret.read", "repo.read">>, ownChecks |-> FALSE]

ModelJob == [r \in Runs |-> Jobs(r)]
Actors == {"coder", "guest"}
ModelGrants ==
  {Allow("coder", "repo.read", AnyScope), Allow("coder", "git.push", AnyScope),
   Allow("guest", "secret.read", AnyScope), Allow("guest", "repo.read", Pattern(<< >>, TRUE)),
   Allow("guest", "admin.all", Pattern(<<"repo">>, TRUE))}
ModelDenials == {Refusal("coder", "git.push")}
ModelNames ==
  LET read == Registered({"git.push", "secret.read"}, "repo.read", <<"repo", "read">>)
  IN Registered(read, "admin.all", <<"admin", "all">>)
SmallBudget == [tool_calls |-> 2, runs |-> 3]
ModelChecks ==
  {<< >>, <<[verdict |-> "PASSED", evidence |-> TRUE]>>,
   <<[verdict |-> "PASSED", evidence |-> FALSE]>>}
DefaultConfig == {[level |-> "GREEN", safeMode |-> FALSE, emergencyLock |-> FALSE]}

Init == ImmuneInit /\ RunnerInit
Next == RunnerNext
Spec == Init /\ [][Next]_<<runnerVars, immuneVars>>
=============================================================================
