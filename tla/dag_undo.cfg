SPECIFICATION Spec
CONSTANTS
  a = a
  b = b
  c = c
  d = d
  e = e
  Nodes = {a, b, c, d}
  Deps <- UndoDeps
  Kind <- UndoKind
  Gated = {c}
  Needs <- None
  Then <- NoTargets
  Else <- NoTargets
  Timed = {}
  Retryable <- UndoRetryable
  MaxAttempts = 2
  StopAt = 2
  QuarantineAt = 2
  Comp <- UndoComp
  Keys <- None
  Limit <- NoLimit
  MaxJobs = 2
  Deliveries <- Once
  CanCancel = FALSE
  ApprovalMayThrow = TRUE
  MaxCrashes = 1
INVARIANTS TypeOK OnlyApprovalRejects
PROPERTIES UndoOrder
