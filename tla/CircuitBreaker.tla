--------------------------- MODULE CircuitBreaker ---------------------------
(***************************************************************************)
(* The circuit breaker of one external resource                            *)
(* (kernel/immune/src/circuit-breaker.ts), its callers and the clock.  A   *)
(* caller asks allow(), makes the call if it may, and reports the outcome  *)
(* when the answer comes: which may be after the breaker has opened for    *)
(* somebody else's failures, or has closed again.                          *)
(***************************************************************************)
EXTENDS Naturals, FiniteSetsExt

CONSTANTS
  Callers,          \* the concurrent users of the resource
  FailureThreshold, \* CircuitBreakerConfig
  Cooldown,
  MaxHalfOpenTrials

ASSUME BreakerAssumption ==
  /\ FailureThreshold \in Nat \ {0} /\ Cooldown \in Nat
  /\ MaxHalfOpenTrials \in Nat \ {0}

VARIABLES
  breaker, \* CircuitState: closed, open or half_open
  failures, \* kept up to FailureThreshold: only the comparison reads it
  elapsed, \* now() - openedAt, kept up to Cooldown for the same reason
  trials,  \* halfOpenTrials
  calling  \* callers whose call is on its way

breakerVars == <<breaker, failures, elapsed, trials, calling>>

BreakerMachine == [closed |-> [trip |-> "open"], open |-> [cooldown |-> "half_open"],
                   half_open |-> [success |-> "closed", failure |-> "open"]]

\* The constructor.
BreakerInit ==
  /\ breaker = "closed" /\ failures = 0 /\ elapsed = 0 /\ trials = 0 /\ calling = {}

\* now(): time passes for an open breaker.
Tick ==
  /\ breaker = "open" /\ elapsed < Cooldown
  /\ elapsed' = elapsed + 1
  /\ UNCHANGED <<breaker, failures, trials, calling>>

\* allow() with the breaker closed, or half_open with trials left; it counts
\* no trial, so every caller that asks is let through.
PassOpen(c) == \* a variant that forgets the open state
  /\ c \notin calling
  /\ calling' = calling \cup {c}
  /\ UNCHANGED <<breaker, failures, elapsed, trials>>

Pass(c) ==
  /\ c \notin calling
  /\ \/ breaker = "closed"
     \/ breaker = "half_open" /\ trials < MaxHalfOpenTrials
  /\ calling' = calling \cup {c}
  /\ UNCHANGED <<breaker, failures, elapsed, trials>>

\* allow() with the breaker open and the cooldown over: the first probe.
Probe(c) ==
  /\ c \notin calling
  /\ breaker = "open" /\ elapsed >= Cooldown
  /\ breaker' = BreakerMachine.open.cooldown /\ trials' = 0
  /\ calling' = calling \cup {c}
  /\ UNCHANGED <<failures, elapsed>>

\* recordSuccess: closes a half_open breaker, clears the count of a closed
\* one, and does nothing to an open one.
RecordSuccess(c) ==
  /\ c \in calling /\ calling' = calling \ {c}
  /\ IF breaker = "half_open"
     THEN breaker' = BreakerMachine.half_open.success /\ trials' = 0 /\ elapsed' = 0
     ELSE UNCHANGED <<breaker, trials, elapsed>>
  /\ failures' = IF breaker = "open" THEN failures ELSE 0

\* A variant that clears the count when it reopens.
RecordFailureClears(c) ==
  /\ c \in calling /\ calling' = calling \ {c}
  /\ failures' = IF breaker = "half_open" THEN 0 ELSE Min({failures + 1, FailureThreshold})
  /\ IF breaker = "half_open" \/ failures' >= FailureThreshold
     THEN breaker' = BreakerMachine.closed.trip /\ elapsed' = 0
     ELSE UNCHANGED <<breaker, elapsed>>
  /\ trials' = IF breaker = "half_open" THEN 0 ELSE trials

\* recordFailure: reopens a half_open breaker; in the other two states counts
\* and, at the threshold, (re)opens with a new openedAt.
RecordFailure(c) ==
  /\ c \in calling /\ calling' = calling \ {c}
  /\ IF breaker = "half_open"
     THEN /\ breaker' = BreakerMachine.half_open.failure
          /\ elapsed' = 0 /\ trials' = 0
          /\ UNCHANGED failures
     ELSE /\ failures' = Min({failures + 1, FailureThreshold})
          /\ IF failures' >= FailureThreshold
             THEN breaker' = BreakerMachine.closed.trip /\ elapsed' = 0
             ELSE UNCHANGED <<breaker, elapsed>>
          /\ UNCHANGED trials

BreakerNext ==
  \/ Tick
  \/ \E c \in Callers : Pass(c) \/ Probe(c) \/ RecordSuccess(c) \/ RecordFailure(c)

\* Time goes on, a call gets its answer or its timeout, and callers keep asking.
BreakerFairness ==
  /\ WF_breakerVars(Tick)
  /\ WF_breakerVars(\E c \in Callers : Probe(c))
  /\ \A c \in Callers : WF_breakerVars(RecordSuccess(c) \/ RecordFailure(c))

BreakerSpec == BreakerInit /\ [][BreakerNext]_breakerVars

-----------------------------------------------------------------------------
\* allow() refuses, or lets probes through, exactly when as many failures as
\* the threshold were counted since the last success; late answers of calls
\* that were allowed earlier do not break this, in either direction.
BreakerCounts ==
  (breaker = "closed") <=> (failures < FailureThreshold)

\* A breaker that opened is probed again: the late failures that renew
\* openedAt cannot keep it shut for ever, because an open breaker lets no new
\* call through.
BreakerProbes == breaker = "open" ~> breaker # "open"
=============================================================================
