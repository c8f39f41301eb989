SPECIFICATION Spec
CONSTANTS
  None = None
  Runs = {"r1", "r2"}
  Job <- ModelJob
  Entities <- Actors
  Requests = {}
  Configs <- DefaultConfig
  MaxIncidents = 3
  MaxKills = 1
  InitialGrants <- ModelGrants
  MayDeny <- ModelDenials
  Guarded <- ModelNames
  Budget <- SmallBudget
  Checks <- ModelChecks
INVARIANTS QuotaOvershoot MeterAgrees ReturnedSurvives
PROPERTIES RequestsAllowed KeepsContract
CHECK_DEADLOCK FALSE
