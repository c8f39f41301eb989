SPECIFICATION Spec
CONSTANTS
  Parts = {"ledger"}
  None = None
  Null = null
  Entities <- ImmuneEntities
  Requests <- ImmuneRequests
  Configs <- GateConfigs
  Asked <- GateRequests
  Settings <- GateSettings
  MaxIncidents = 2
  MaxKills = 1
  Callers = {c1, c2, c3}
  FailureThreshold = 2
  Cooldown = 2
  MaxHalfOpenTrials = 1
  PlanNodes = {p1, p2, p3}
  Unknown = ghost
  Roles = {admin}
  MaxOf <- IdentityBounds
  Models <- GatewayModels
  Requirements <- GatewayRequirements
  Registered <- GatewayProviders
  Clients = {k1, k2}
  Nobody = nobody
  MaxLosses = 1
  MaxJobs = 1
  PageSize = 1
  MaxAsks = 1
  Stores = {"sqlite"}
  PayloadKinds = {"json", "void"}
  MaxDrafts = 3
  MaxRefusals = 0
  MaxCrashes = 1
INVARIANT Reboots
CHECK_DEADLOCK FALSE
