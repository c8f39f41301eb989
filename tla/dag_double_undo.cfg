SPECIFICATION Spec
CONSTANTS
  a = a
  b = b
  c = c
  d = d
  e = e
  Nodes = {a, b, c, d}
  Deps <- UndoDeps
  Kind <- UndoKind
  Gated = {}
  Needs <- None
  Then <- NoTargets
  Else <- NoTargets
  Timed = {}
  Retryable <- UndoRetryable
  MaxAttempts = 1
  StopAt = 0
  QuarantineAt = 0
  Comp <- UndoComp
  Keys <- None
  Limit <- NoLimit
  MaxJobs = 2
  Deliveries <- Once
  CanCancel = FALSE
  ApprovalMayThrow = FALSE
  MaxCrashes = 0
INVARIANTS UndoneOnce
