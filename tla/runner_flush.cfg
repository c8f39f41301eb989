SPECIFICATION Spec
CONSTANTS
  None = None
  Runs = {"r1", "r3"}
  Job <- ModelJob
  Entities <- Actors
  Requests = {}
  Configs <- DefaultConfig
  MaxIncidents = 3
  MaxKills = 1
  InitialGrants <- ModelGrants
  MayDeny <- ModelDenials
  Guarded <- ModelNames
  Budget <- SmallBudget
  Checks <- ModelChecks
INVARIANT ReturnedIsSaved
CHECK_DEADLOCK FALSE
