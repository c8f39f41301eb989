SPECIFICATION Spec
CONSTANTS
  a = a
  b = b
  c = c
  d = d
  e = e
  Nodes = {a, b}
  Deps <- RetryDeps
  Kind <- AllActions
  Gated = {}
  Needs <- None
  Then <- NoTargets
  Else <- NoTargets
  Timed = {a}
  Retryable <- RetryAll
  MaxAttempts = 2
  StopAt = 0
  QuarantineAt = 0
  Comp <- NoComp
  Keys <- None
  Limit <- NoLimit
  MaxJobs = 2
  Deliveries <- Once
  CanCancel = FALSE
  ApprovalMayThrow = FALSE
  MaxCrashes = 0
INVARIANTS OneEffect
