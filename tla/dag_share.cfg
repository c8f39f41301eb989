SPECIFICATION FairSpec
CONSTANTS
  a = a
  b = b
  c = c
  d = d
  e = e
  Nodes = {a, b, c}
  Deps <- None
  Kind <- ShareKind
  Gated = {}
  Needs <- ShareNeeds
  Then <- ShareThen
  Else <- ShareElse
  Timed = {a, b}
  Retryable <- ShareRetryable
  MaxAttempts = 2
  StopAt = 0
  QuarantineAt = 0
  Comp <- NoComp
  Keys <- ShareKeys
  Limit <- ShareLimit
  MaxJobs = 2
  Deliveries <- ShareDeliveries
  CanCancel = FALSE
  ApprovalMayThrow = FALSE
  MaxCrashes = 0
INVARIANTS SeatsMatch RetryBudget
PROPERTIES Settles CompletionPersists
