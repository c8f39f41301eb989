SPECIFICATION AnsweredSpec
CONSTANTS
  a = a
  b = b
  c = c
  d = d
  e = e
  Nodes = {a, b, c, d, e}
  Deps <- RouteDeps
  Kind <- RouteKind
  Gated = {}
  Needs <- RouteNeeds
  Then <- RouteThen
  Else <- RouteElse
  Timed = {b}
  Retryable <- RouteRetryable
  MaxAttempts = 2
  StopAt = 0
  QuarantineAt = 2
  Comp <- NoComp
  Keys <- None
  Limit <- NoLimit
  MaxJobs = 2
  Deliveries <- Once
  CanCancel = TRUE
  ApprovalMayThrow = FALSE
  MaxCrashes = 1
INVARIANTS DurableDeps SkipClosed CompletionOrder NothingForgotten VerdictAgrees FinishedIsDurable RetryBudget
PROPERTIES UpstreamSettled Settles
