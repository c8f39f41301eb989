SPECIFICATION Spec
CONSTANTS
  None = None
  Runs = {"r3"}
  Job <- ModelJob
  Entities <- Actors
  Requests = {}
  Configs <- DefaultConfig
  MaxIncidents = 3
  MaxKills = 1
  InitialGrants <- ModelGrants
  MayDeny <- ModelDenials
  Guarded <- ModelNames
  Budget <- SmallBudget
  Checks <- ModelChecks
PROPERTIES IsolatedStays
CHECK_DEADLOCK FALSE
