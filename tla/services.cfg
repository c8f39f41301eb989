SPECIFICATION Spec
CONSTANTS
  Parts = {"gate", "immune", "breaker", "plan", "identity", "gateway", "github", "console", "demo", "ledger"}
  None = None
  Null = null
  Entities <- ImmuneEntities
  Requests <- ImmuneRequests
  Configs <- GateConfigs
  Asked <- GateRequests
  Settings <- GateSettings
  MaxIncidents = 2
  MaxKills = 1
  Callers = {c1, c2, c3}
  FailureThreshold = 2
  Cooldown = 2
  MaxHalfOpenTrials = 1
  PlanNodes = {p1, p2, p3}
  Unknown = ghost
  Roles = {admin}
  MaxOf <- IdentityBounds
  Models <- GatewayModels
  Requirements <- GatewayRequirements
  Registered <- GatewayProviders
  Clients = {k1, k2}
  Nobody = nobody
  MaxLosses = 1
  MaxJobs = 2
  PageSize = 1
  MaxAsks = 2
  Stores = {"sqlite", "postgres"}
  PayloadKinds = {"json", "void"}
  MaxDrafts = 3
  MaxRefusals = 1
  MaxCrashes = 2
INVARIANTS ImmuneTypeOK IsolationCounted HealthTells MoreSignalsNeverAllow BreakerCounts PlanSound TenantsApart IdentityReplays GatewayOrder ConfirmedStays VerdictSound ShownIsSaved DemoComplete
PROPERTIES BootIsHistory AckedKept EventLogHolds OnlyRecoveryLifts BreakerProbes GoalAnswered
CHECK_DEADLOCK FALSE
