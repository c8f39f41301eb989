SPECIFICATION Spec
CONSTANTS
  a = a
  b = b
  c = c
  d = d
  e = e
  Nodes = {a, b, c, d}
  Deps <- RouteDeps
  Kind <- RouteKind
  Gated = {}
  Needs <- RouteNeeds
  Then <- RouteThen
  Else <- RouteElse
  Timed = {}
  Retryable <- RouteRetryable
  MaxAttempts = 1
  StopAt = 0
  QuarantineAt = 0
  Comp <- NoComp
  Keys <- None
  Limit <- NoLimit
  MaxJobs = 2
  Deliveries <- Once
  CanCancel = FALSE
  ApprovalMayThrow = FALSE
  MaxCrashes = 1
INVARIANTS BranchTaken
